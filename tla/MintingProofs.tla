---------------------------- MODULE MintingProofs ----------------------------
(***************************************************************************)
(* Proofs about what an agent mints with.  The first part is about         *)
(* CrlDistribution, for any set of hosts and tasks, any lifetimes and any  *)
(* bounds: types, and that a revocation stops minting within the maximum   *)
(* age of a CRL.  The second is about AgentRenewal, for any durations that *)
(* stand to each other as ScheduleAssumption says and any bounds: that the *)
(* SVID an agent mints with is swapped whole, is of one identity, is       *)
(* renewed in time and is out of force in time.  The names of the two do   *)
(* not meet: the vars, Spec and Inv of CrlDistribution have counterparts   *)
(* renewalVars, RenewalSpec and RenewalInv.                                *)
(***************************************************************************)
EXTENDS CrlDistribution, AgentRenewal, TLAPS

(***************************************************************************)
(* I.  CrlDistribution                                                     *)
(***************************************************************************)

-----------------------------------------------------------------------------
(* The strengthening.  A body is never issued in the future, a bar never   *)
(* starts in the future, and every entry that names a host or its SVID     *)
(* outlives the bar it stands for.                                         *)

NamesHost(e, h) == e.target = HostTarget(h) \/ e.target = SvidTarget(SvidOf(h))

NowInPast == \A t \in Tasks : publishing[t].now <= clock

BodiesInPast ==
    /\ published_crl.issued_at <= clock
    /\ \A t \in Tasks : publishing[t].body.issued_at <= clock
    /\ \A h \in Hosts : crl_cache[h].issued_at <= clock
    /\ \A h \in Hosts : fetched[h].issued_at <= clock

BarsInPast == \A h \in Hosts : barred_since[h] <= clock

EntriesOutliveBar ==
    \A e \in revocations, h \in Hosts : NamesHost(e, h) =>
        /\ barred_since[h] # NotBarred
        /\ e.expires_at >= barred_since[h] + CRL_ENTRY_TTL_SECS

\* An UnrevokeHost under way concerns a host that was barred when it read the
\* clock.
LiftsBarred ==
    \A t \in Tasks : \A h \in unrevoking[t] :
        /\ publishing[t].stage = "unrevoke"
        /\ barred_since[h] # NotBarred
        /\ barred_since[h] <= publishing[t].now

BarStands == \A h \in Hosts : Barred(h) => Bars(revocations, h)

BodyOk(b, h) == b.issued_at <= barred_since[h] \/ Bars(b.entries, h)

BodiesOk ==
    \A h \in Hosts : Barred(h) =>
        /\ BodyOk(published_crl, h)
        /\ \A t \in Tasks : BodyOk(publishing[t].body, h)
        /\ \A g \in Hosts : BodyOk(crl_cache[g], h)
        /\ \A g \in Hosts : BodyOk(fetched[g], h)

Inv ==
    /\ NowInPast
    /\ BodiesInPast
    /\ BarsInPast
    /\ EntriesOutliveBar
    /\ LiftsBarred
    /\ BarStands
    /\ BodiesOk

-----------------------------------------------------------------------------
(* Typing of the operations on entries.                                    *)

\* The empty CRL is a body.
LEMMA NoCrlType == NoCrl \in CrlBodies(Hosts)
BY DEF NoCrl, CrlBodies

\* A new entry is an entry.
LEMMA CrlEntryType ==
    ASSUME NEW target \in Targets(Hosts), NEW now \in Nat
    PROVE  CrlEntry(target, now) \in CrlEntries(Hosts)
BY RevocationsAssumption DEF CrlEntry, CrlEntries

\* Pruning, revoking and lifting keep a set of entries.
LEMMA EntriesType ==
    ASSUME NEW entries \in SUBSET CrlEntries(Hosts), NEW now \in Nat
    PROVE  /\ Unexpired(entries, now) \in SUBSET CrlEntries(Hosts)
           /\ \A target \in Targets(Hosts) :
                 revoke(entries, target, now) \in SUBSET CrlEntries(Hosts)
           /\ \A h \in Hosts : \A keep \in SUBSET Hosts :
                 unrevoke_host(entries, h, keep, now) \in SUBSET CrlEntries(Hosts)
<1>1. Unexpired(entries, now) \in SUBSET CrlEntries(Hosts)
  BY DEF Unexpired
<1>2. \A target \in Targets(Hosts) :
         revoke(entries, target, now) \in SUBSET CrlEntries(Hosts)
  BY CrlEntryType DEF revoke
<1>3. ASSUME NEW h \in Hosts, NEW keep \in SUBSET Hosts
      PROVE  unrevoke_host(entries, h, keep, now) \in SUBSET CrlEntries(Hosts)
  <2>1. \A c \in keep : SvidTarget(c) \in Targets(Hosts)
    BY DEF Targets
  <2>2. {CrlEntry(SvidTarget(c), now) :
            c \in {k \in keep : ~ Names(entries, SvidTarget(k))}}
        \in SUBSET CrlEntries(Hosts)
    BY <2>1, CrlEntryType
  <2> QED BY <2>2 DEF unrevoke_host
<1> QED BY <1>1, <1>2, <1>3

\* The type invariant holds in every reachable state.
THEOREM TypeCorrect == Spec => []TypeOK
<1>1. Init => TypeOK
  BY NoCrlType DEF Init, RevocationInit, TypeOK, RevocationTypeOK, NotPublishing
<1>2. TypeOK /\ [Next]_vars => TypeOK'
  <2> SUFFICES ASSUME TypeOK, [Next]_vars PROVE TypeOK'
    OBVIOUS
  <2> USE DEF TypeOK, RevocationTypeOK
  <2>1. CASE Tick
    BY <2>1 DEF Tick, revocationVars, distVars
  <2>2. CASE Restart
    BY <2>2, NoCrlType DEF Restart, RevocationLost, NotPublishing
  <2>3. ASSUME NEW t \in Tasks, Publisher(t) PROVE TypeOK'
    BY <2>3, NoCrlType DEF Publisher, PublisherTick, BeginPublish, distVars
  <2>4. ASSUME NEW t \in Tasks, Publish(t) PROVE TypeOK'
    <3>1. CASE PublishSnapshot(t)
      <4>1. publishing[t].now \in Nat
        OBVIOUS
      <4>2. Unexpired(revocations, publishing[t].now) \in SUBSET CrlEntries(Hosts)
        BY <4>1, EntriesType
      <4>3. [number |-> crl_number + 1, issued_at |-> publishing[t].now,
             entries |-> Unexpired(revocations, publishing[t].now)] \in CrlBodies(Hosts)
        BY <4>1, <4>2 DEF CrlBodies
      <4> QED BY <2>4, <3>1, <4>2, <4>3 DEF Publish, PublishSnapshot, distVars
    <3>2. CASE PublishInstall(t)
      BY <2>4, <3>2, NoCrlType DEF Publish, PublishInstall, NotPublishing, distVars
    <3>3. CASE PublishFails(t)
      BY <2>4, <3>3, NoCrlType DEF Publish, PublishFails, NotPublishing, distVars
    <3> QED BY <2>4, <3>1, <3>2, <3>3 DEF Publish, PublishStep
  <2>5. ASSUME NEW t \in Tasks, NEW h \in Hosts, RevokeHost(t, h) PROVE TypeOK'
    <3>1. HostTarget(h) \in Targets(Hosts)
      BY DEF Targets
    <3>2. revocations' \in SUBSET CrlEntries(Hosts)
      BY <2>5, <3>1, EntriesType DEF RevokeHost, revoke_host
    <3> QED BY <2>5, <3>2, NoCrlType DEF RevokeHost, revoke_host, BeginPublish, Bar
  <2>6. ASSUME NEW t \in Tasks, NEW h \in Hosts, RevokeSvid(t, h) PROVE TypeOK'
    <3>1. SvidTarget(SvidOf(h)) \in Targets(Hosts)
      BY DEF Targets, SvidOf
    <3>2. revocations' \in SUBSET CrlEntries(Hosts)
      BY <2>6, <3>1, EntriesType DEF RevokeSvid
    <3> QED BY <2>6, <3>2, NoCrlType DEF RevokeSvid, BeginPublish, Bar
  <2>7. ASSUME NEW t \in Tasks, NEW h \in Hosts, UnrevokeCheck(t, h) PROVE TypeOK'
    BY <2>7, NoCrlType DEF UnrevokeCheck, unrevoke_check
  <2>8. ASSUME NEW t \in Tasks, NEW h \in Hosts, UnrevokeLift(t, h) PROVE TypeOK'
    <3>1. publishing[t].now \in Nat
      OBVIOUS
    <3>2. revocations' \in SUBSET CrlEntries(Hosts)
      BY <2>8, <3>1, EntriesType DEF UnrevokeLift, unrevoke_lift, SvidOf
    <3> QED BY <2>8, <3>1, <3>2, NoCrlType DEF UnrevokeLift, unrevoke_lift, BeginPublish
  <2>9. ASSUME NEW t \in Tasks, UnrevokeRefused(t) PROVE TypeOK'
    BY <2>9, NoCrlType DEF UnrevokeRefused, unrevoke_refused, NotPublishing
  <2>10. ASSUME NEW h \in Hosts, FetchJwks(h) \/ StoreCrl(h) \/ RefreshFails(h)
         PROVE  TypeOK'
    BY <2>10, NoCrlType DEF FetchJwks, StoreCrl, RefreshFails, revocationVars
  <2>11. CASE UNCHANGED vars
    BY <2>11 DEF vars, revocationVars, distVars
  <2> QED BY <2>1, <2>2, <2>3, <2>4, <2>5, <2>6, <2>7, <2>8, <2>9, <2>10, <2>11 DEF Next
<1> QED BY <1>1, <1>2, PTL DEF Spec

-----------------------------------------------------------------------------
(* What the operations on entries do to the bars they stand for.           *)

\* Bars and NamesHost say the same of a set of entries.
LEMMA BarsNames ==
    ASSUME NEW entries, NEW h
    PROVE  Bars(entries, h) <=> \E e \in entries : NamesHost(e, h)
BY DEF Bars, Names, NamesHost

\* A target names one host at most.
LEMMA TargetsDiffer ==
    \A g, h \in Hosts : /\ HostTarget(g) # SvidTarget(SvidOf(h))
                        /\ HostTarget(g) = HostTarget(h) => g = h
                        /\ SvidTarget(SvidOf(g)) = SvidTarget(SvidOf(h)) => g = h
BY DEF HostTarget, SvidTarget, SvidOf

\* Revoking a host or its SVID now bars it, and disturbs no other host.
LEMMA RevokeKeeps ==
    ASSUME NEW h \in Hosts, TypeOK, BarsInPast, EntriesOutliveBar, BarStands,
           NEW target \in {HostTarget(h), SvidTarget(SvidOf(h))},
           revocations' = revoke(revocations, target, clock),
           Bar(h), clock' = clock
    PROVE  BarsInPast' /\ EntriesOutliveBar' /\ BarStands'
<1> USE DEF TypeOK, RevocationTypeOK
<1>1. CrlEntry(target, clock).target = target
      /\ CrlEntry(target, clock).expires_at = clock + CRL_ENTRY_TTL_SECS
  BY DEF CrlEntry
<1>2. BarsInPast'
  BY DEF BarsInPast, Bar
<1>3. barred_since'[h] # NotBarred /\ barred_since'[h] <= clock
      /\ barred_since'[h] \in Nat
      /\ (barred_since[h] # NotBarred => barred_since'[h] = barred_since[h])
  BY DEF BarsInPast, Bar, NotBarred
<1>4. EntriesOutliveBar'
  <2> SUFFICES ASSUME NEW e \in revocations', NEW g \in Hosts, NamesHost(e, g)
               PROVE  /\ barred_since'[g] # NotBarred
                      /\ e.expires_at >= barred_since'[g] + CRL_ENTRY_TTL_SECS
    BY DEF EntriesOutliveBar, NamesHost
  <2>1. CASE e = CrlEntry(target, clock)
    <3>1. g = h
      BY <2>1, <1>1, TargetsDiffer DEF NamesHost
    <3> QED BY <3>1, <2>1, <1>1, <1>3, RevocationsAssumption
  <2>2. CASE e \in revocations
    <3>1. barred_since[g] # NotBarred
          /\ e.expires_at >= barred_since[g] + CRL_ENTRY_TTL_SECS
      BY <2>2 DEF EntriesOutliveBar
    <3>2. barred_since'[g] = barred_since[g]
      BY <3>1, <1>3 DEF Bar
    <3> QED BY <3>1, <3>2
  <2> QED BY <2>1, <2>2 DEF revoke
<1>5. BarStands'
  <2> SUFFICES ASSUME NEW g \in Hosts, Barred(g)' PROVE Bars(revocations', g)
    BY DEF BarStands
  <2>1. CASE g = h
    BY <2>1, <1>1 DEF revoke, Bars, Names
  <2>2. CASE g # h
    <3>1. Barred(g)
      BY <2>2 DEF Barred, Bar
    <3>2. PICK e \in revocations : NamesHost(e, g)
      BY <3>1, BarsNames DEF BarStands
    <3>3. e.target # target
      BY <3>2, <2>2, TargetsDiffer DEF NamesHost
    <3>4. e \in revocations'
      BY <3>3 DEF revoke
    <3> QED BY <3>2, <3>4, BarsNames
  <2> QED BY <2>1, <2>2
<1> QED BY <1>2, <1>4, <1>5

\* Lifting a host entry leaves the host's SVID revoked.
LEMMA UnrevokeKeeps ==
    ASSUME NEW h \in Hosts, TypeOK, EntriesOutliveBar, BarStands,
           NEW now \in Nat, barred_since[h] # NotBarred, barred_since[h] <= now,
           revocations' = unrevoke_host(revocations, h, {SvidOf(h)}, now),
           UNCHANGED <<clock, barred_since>>
    PROVE  EntriesOutliveBar' /\ BarStands'
<1> USE DEF TypeOK, RevocationTypeOK
<1> DEFINE kept == CrlEntry(SvidTarget(SvidOf(h)), now)
<1>1. kept.target = SvidTarget(SvidOf(h))
      /\ kept.expires_at = now + CRL_ENTRY_TTL_SECS
  BY DEF CrlEntry
<1>2. barred_since[h] \in Nat
  BY DEF NotBarred
<1>3. \A e \in revocations' : e \in revocations \/ e = kept
  BY DEF unrevoke_host
<1>4. EntriesOutliveBar'
  <2> SUFFICES ASSUME NEW e \in revocations', NEW g \in Hosts, NamesHost(e, g)
               PROVE  /\ barred_since[g] # NotBarred
                      /\ e.expires_at >= barred_since[g] + CRL_ENTRY_TTL_SECS
    BY DEF EntriesOutliveBar, NamesHost
  <2>1. CASE e = kept
    <3>1. g = h
      BY <2>1, <1>1, TargetsDiffer DEF NamesHost
    <3> QED BY <3>1, <2>1, <1>1, <1>2, RevocationsAssumption
  <2>2. CASE e \in revocations
    BY <2>2 DEF EntriesOutliveBar
  <2> QED BY <1>3, <2>1, <2>2
<1>5. BarStands'
  <2> SUFFICES ASSUME NEW g \in Hosts, Barred(g)' PROVE Bars(revocations', g)
    BY DEF BarStands
  <2>1. CASE g = h
    <3>1. CASE Names(revocations, SvidTarget(SvidOf(h)))
      <4>1. PICK e \in revocations : e.target = SvidTarget(SvidOf(h))
        BY <3>1 DEF Names
      <4>2. e \in revocations'
        BY <4>1, TargetsDiffer DEF unrevoke_host
      <4> QED BY <2>1, <4>1, <4>2 DEF Bars, Names
    <3>2. CASE ~ Names(revocations, SvidTarget(SvidOf(h)))
      <4>1. CASE ~ Names(revocations, HostTarget(h))
        BY <4>1, <2>1 DEF unrevoke_host, BarStands, Barred
      <4>2. CASE Names(revocations, HostTarget(h))
        <5>1. kept \in revocations'
          BY <3>2, <4>2 DEF unrevoke_host
        <5> QED BY <2>1, <5>1, <1>1 DEF Bars, Names
      <4> QED BY <4>1, <4>2
    <3> QED BY <3>1, <3>2
  <2>2. CASE g # h
    <3>1. PICK e \in revocations : NamesHost(e, g)
      BY BarsNames DEF BarStands, Barred
    <3>2. e.target # HostTarget(h)
      BY <3>1, <2>2, TargetsDiffer DEF NamesHost
    <3>3. e \in revocations'
      BY <3>2 DEF unrevoke_host
    <3> QED BY <3>1, <3>3, BarsNames
  <2> QED BY <2>1, <2>2
<1> QED BY <1>4, <1>5

\* A prune at a time not after the clock keeps every bar that has not lapsed.
LEMMA PruneKeeps ==
    ASSUME TypeOK, EntriesOutliveBar, BarStands, NEW now \in Nat, now <= clock,
           NEW h \in Hosts, Barred(h)
    PROVE  Bars(Unexpired(revocations, now), h)
<1> USE DEF TypeOK, RevocationTypeOK
<1>1. PICK e \in revocations : NamesHost(e, h)
  BY BarsNames DEF BarStands
<1>2. e.expires_at \in Nat
  BY DEF CrlEntries
<1>3. barred_since[h] \in Nat /\ clock < barred_since[h] + CRL_ENTRY_TTL_SECS
  BY DEF Barred, NotBarred
<1>4. e.expires_at > now
  BY <1>1, <1>2, <1>3, RevocationsAssumption DEF EntriesOutliveBar
<1>5. e \in Unexpired(revocations, now)
  BY <1>4 DEF Unexpired
<1> QED BY <1>1, <1>5, BarsNames

-----------------------------------------------------------------------------
\* A step that leaves clock, bars and working set alone and moves existing
\* bodies around (or drops them) keeps the invariant.
LEMMA BodiesMove ==
    ASSUME TypeOK, TypeOK', Inv, UNCHANGED <<clock, barred_since, revocations>>,
           NowInPast', LiftsBarred',
           published_crl' \in Bodies \cup {NoCrl},
           \A t \in Tasks : publishing'[t].body \in Bodies \cup {NoCrl},
           \A h \in Hosts : crl_cache'[h] \in Bodies \cup {NoCrl},
           \A h \in Hosts : fetched'[h] \in Bodies \cup {NoCrl}
    PROVE  Inv'
<1> USE DEF TypeOK, RevocationTypeOK
<1>1. \A b \in Bodies \cup {NoCrl} : b.issued_at <= clock
  BY DEF Inv, BodiesInPast, Bodies, NoCrl
<1>2. \A b \in Bodies \cup {NoCrl}, h \in Hosts : Barred(h) => BodyOk(b, h)
  BY DEF Inv, BodiesOk, Bodies, NoCrl, BodyOk, Barred, NotBarred
<1>3. BodiesInPast'
  BY <1>1 DEF BodiesInPast
<1>4. \A h \in Hosts : Barred(h)' <=> Barred(h)
  BY DEF Barred
<1>5. BodiesOk'
  BY <1>2, <1>4 DEF BodiesOk, BodyOk, Bars, Names
<1>6. BarsInPast' /\ EntriesOutliveBar' /\ BarStands'
  BY DEF Inv, BarsInPast, EntriesOutliveBar, BarStands, Barred, Bars, Names, NamesHost
<1> QED BY <1>3, <1>5, <1>6 DEF Inv

\* A step that may revoke a host or its SVID and begins to publish.
LEMMA BarringStep ==
    ASSUME TypeOK, TypeOK', Inv, NEW t \in Tasks, NEW now \in Nat, now <= clock,
           clock' = clock, BeginPublish(t, now),
           UNCHANGED <<published_crl, crl_cache, fetched>>,
           BarsInPast', EntriesOutliveBar', LiftsBarred', BarStands',
           \A h \in Hosts : \/ barred_since'[h] = barred_since[h]
                            \/ barred_since'[h] = clock
    PROVE  Inv'
<1> USE DEF TypeOK, RevocationTypeOK
<1>1. \A u \in Tasks : \/ publishing'[u] = publishing[u]
                        \/ publishing'[u] = [stage |-> "publish", now |-> now, body |-> NoCrl]
  BY DEF BeginPublish
<1>2. NowInPast'
  BY <1>1 DEF Inv, NowInPast
<1>3. BodiesInPast'
  BY <1>1 DEF Inv, BodiesInPast, NoCrl
<1>4. BodiesOk'
  <2> SUFFICES ASSUME NEW h \in Hosts, Barred(h)'
               PROVE  /\ BodyOk(published_crl, h)'
                      /\ \A u \in Tasks : BodyOk(publishing[u].body, h)'
                      /\ \A g \in Hosts : BodyOk(crl_cache[g], h)'
                      /\ \A g \in Hosts : BodyOk(fetched[g], h)'
    BY DEF BodiesOk
  <2>1. CASE barred_since'[h] = clock
    BY <2>1, <1>3 DEF BodiesInPast, BodyOk
  <2>2. CASE barred_since'[h] = barred_since[h]
    <3>1. Barred(h)
      BY <2>2 DEF Barred
    <3>2. barred_since[h] \in Nat
      BY <3>1 DEF Barred, NotBarred
    <3>3. /\ BodyOk(published_crl, h)
          /\ \A u \in Tasks : BodyOk(publishing[u].body, h)
          /\ \A g \in Hosts : BodyOk(crl_cache[g], h)
          /\ \A g \in Hosts : BodyOk(fetched[g], h)
      BY <3>1 DEF Inv, BodiesOk
    <3>4. BodyOk(published_crl, h)'
      BY <2>2, <3>3 DEF BodyOk, Bars, Names
    <3>5. ASSUME NEW u \in Tasks PROVE BodyOk(publishing[u].body, h)'
      <4>1. CASE publishing'[u] = publishing[u]
        BY <2>2, <3>3, <4>1 DEF BodyOk, Bars, Names
      <4>2. CASE publishing'[u] = [stage |-> "publish", now |-> now, body |-> NoCrl]
        BY <2>2, <3>2, <4>2 DEF BodyOk, NoCrl
      <4> QED BY <1>1, <4>1, <4>2
    <3>6. ASSUME NEW g \in Hosts PROVE BodyOk(crl_cache[g], h)' /\ BodyOk(fetched[g], h)'
      BY <2>2, <3>3 DEF BodyOk, Bars, Names
    <3> QED BY <3>4, <3>5, <3>6
  <2> QED BY <2>1, <2>2
<1> QED BY <1>2, <1>3, <1>4 DEF Inv

\* The locked part of publish_crl keeps the invariant.
LEMMA SnapshotStep ==
    ASSUME TypeOK, TypeOK', Inv, NEW t \in Tasks, PublishSnapshot(t),
           UNCHANGED <<clock, distVars>>
    PROVE  Inv'
<1> USE DEF TypeOK, RevocationTypeOK
<1> DEFINE now == publishing[t].now
           left == Unexpired(revocations, now)
<1>1. now \in Nat /\ now <= clock
  BY DEF Inv, NowInPast
<1>2. /\ revocations' = left
      /\ UNCHANGED <<clock, barred_since, published_crl, crl_cache, fetched>>
      /\ \A u \in Tasks : u # t => publishing'[u] = publishing[u]
      /\ publishing'[t].now = now
      /\ publishing'[t].body.issued_at = now
      /\ publishing'[t].body.entries = left
  BY DEF PublishSnapshot, distVars
<1>3. NowInPast' /\ BodiesInPast' /\ BarsInPast'
  BY <1>1, <1>2 DEF Inv, NowInPast, BodiesInPast, BarsInPast
<1>4. EntriesOutliveBar' /\ LiftsBarred'
  <2>1. EntriesOutliveBar'
    BY <1>2 DEF Inv, EntriesOutliveBar, Unexpired, NamesHost
  <2>2. \A u \in Tasks : \A h \in unrevoking[u] : u # t
    BY DEF Inv, LiftsBarred, PublishSnapshot
  <2>3. UNCHANGED unrevoking
    BY DEF distVars
  <2>4. LiftsBarred'
    BY <1>2, <2>2, <2>3 DEF Inv, LiftsBarred
  <2> QED BY <2>1, <2>4
<1>5. \A h \in Hosts : Barred(h)' => Bars(left, h)
  <2> SUFFICES ASSUME NEW h \in Hosts, Barred(h)' PROVE Bars(left, h)
    OBVIOUS
  <2>1. Barred(h)
    BY <1>2 DEF Barred
  <2> HIDE DEF now
  <2> QED BY <2>1, <1>1, PruneKeeps DEF Inv
<1>6. BarStands'
  BY <1>2, <1>5 DEF BarStands
<1>7. BodiesOk'
  <2> SUFFICES ASSUME NEW h \in Hosts, Barred(h)'
               PROVE  /\ BodyOk(published_crl, h)'
                      /\ \A u \in Tasks : BodyOk(publishing[u].body, h)'
                      /\ \A g \in Hosts : BodyOk(crl_cache[g], h)'
                      /\ \A g \in Hosts : BodyOk(fetched[g], h)'
    BY DEF BodiesOk
  <2>1. Barred(h)
    BY <1>2 DEF Barred
  <2>2. BodyOk(publishing[t].body, h)'
    BY <1>2, <1>5 DEF BodyOk
  <2> QED BY <2>1, <2>2, <1>2 DEF Inv, BodiesOk, BodyOk, Bars, Names
<1> QED BY <1>3, <1>4, <1>6, <1>7 DEF Inv

\* The strengthened invariant holds in every reachable state.
THEOREM Invariant == Spec => []Inv
<1>1. Init => Inv
  BY RevocationsAssumption
  DEF Init, RevocationInit, Inv, NowInPast, BodiesInPast, BarsInPast,
      EntriesOutliveBar, LiftsBarred, BarStands, BodiesOk, Barred, NotBarred, NotPublishing, NoCrl
<1>2. TypeOK /\ TypeOK' /\ Inv /\ [Next]_vars => Inv'
  <2> SUFFICES ASSUME TypeOK, TypeOK', Inv, [Next]_vars PROVE Inv'
    OBVIOUS
  <2> USE DEF TypeOK, RevocationTypeOK
  <2>1. CASE Tick
    <3>1. /\ clock' = clock + 1
          /\ UNCHANGED <<revocations, published_crl, publishing, crl_cache, fetched,
                         unrevoking, barred_since>>
      BY <2>1 DEF Tick, revocationVars, distVars
    <3>2. \A h \in Hosts : Barred(h)' => Barred(h)
      BY <3>1, RevocationsAssumption DEF Barred, NotBarred
    <3>3. NowInPast' /\ BodiesInPast' /\ BarsInPast'
      <4>1. NowInPast'
        BY <3>1 DEF Inv, NowInPast
      <4>2. \A b \in CrlBodies(Hosts) : b.issued_at <= clock => b.issued_at <= clock + 1
        BY DEF CrlBodies
      <4>3. \A t \in Tasks : publishing[t].body \in CrlBodies(Hosts)
        OBVIOUS
      <4>4. BodiesInPast'
        BY <3>1, <4>2, <4>3 DEF Inv, BodiesInPast
      <4>5. BarsInPast'
        BY <3>1 DEF Inv, BarsInPast, NotBarred
      <4> QED BY <4>1, <4>4, <4>5
    <3>4. EntriesOutliveBar' /\ LiftsBarred' /\ BarStands'
      BY <3>1, <3>2 DEF Inv, EntriesOutliveBar, LiftsBarred, BarStands, NamesHost, Bars, Names
    <3>5. BodiesOk'
      BY <3>1, <3>2 DEF Inv, BodiesOk, BodyOk, Bars, Names
    <3> QED BY <3>3, <3>4, <3>5 DEF Inv
  <2>2. CASE Restart
    <3>1. /\ clock' = clock /\ revocations' = {} /\ published_crl' = NoCrl
          /\ publishing' = [t \in Tasks |-> NotPublishing]
          /\ barred_since' = [h \in Hosts |-> NotBarred]
          /\ unrevoking' = [t \in Tasks |-> {}]
          /\ UNCHANGED <<crl_cache, fetched>>
      BY <2>2 DEF Restart, RevocationLost
    <3>2. NowInPast' /\ BodiesInPast' /\ BarsInPast'
      BY <3>1 DEF Inv, NowInPast, BodiesInPast, BarsInPast, NoCrl, NotPublishing, NotBarred
    <3>3. EntriesOutliveBar' /\ LiftsBarred' /\ BarStands' /\ BodiesOk'
      BY <3>1 DEF EntriesOutliveBar, LiftsBarred, BarStands, BodiesOk, Barred
    <3> QED BY <3>2, <3>3 DEF Inv
  <2>3. ASSUME NEW t \in Tasks, Publisher(t) PROVE Inv'
    <3>1. UNCHANGED <<clock, revocations, barred_since, unrevoking, published_crl,
                      crl_cache, fetched>>
          /\ BeginPublish(t, clock)
      BY <2>3 DEF Publisher, PublisherTick, distVars
    <3>2. BarsInPast' /\ EntriesOutliveBar' /\ BarStands'
      BY <3>1 DEF Inv, BarsInPast, EntriesOutliveBar, BarStands, Barred, Bars, Names, NamesHost
    <3>3. LiftsBarred'
      BY <3>1, <2>3 DEF Inv, LiftsBarred, BeginPublish, Publisher, PublisherTick, PublishIdle
    <3> QED BY <3>1, <3>2, <3>3, BarringStep
  <2>4. ASSUME NEW t \in Tasks, Publish(t) PROVE Inv'
    <3>1. CASE PublishSnapshot(t)
      BY <2>4, <3>1, SnapshotStep DEF Publish
    <3>2. CASE PublishInstall(t) \/ PublishFails(t)
      <4>1. /\ UNCHANGED <<clock, barred_since, unrevoking, revocations, crl_cache, fetched>>
            /\ published_crl' \in Bodies
            /\ publishing[t].stage = "install"
            /\ publishing' = [publishing EXCEPT ![t] = NotPublishing]
        BY <2>4, <3>2 DEF Publish, PublishInstall, PublishFails, distVars, Bodies
      <4>2. NowInPast' /\ LiftsBarred'
        BY <4>1 DEF Inv, NowInPast, LiftsBarred, NotPublishing
      <4>3. \A u \in Tasks : publishing'[u].body \in Bodies \cup {NoCrl}
        BY <4>1 DEF Bodies, NotPublishing
      <4>4. \A h \in Hosts : crl_cache'[h] \in Bodies /\ fetched'[h] \in Bodies
        BY <4>1 DEF Bodies
      <4> QED BY <4>1, <4>2, <4>3, <4>4, BodiesMove
    <3> QED BY <2>4, <3>1, <3>2 DEF Publish, PublishStep
  <2>5. ASSUME NEW t \in Tasks, NEW h \in Hosts, RevokeHost(t, h) PROVE Inv'
    <3>1. BarsInPast' /\ EntriesOutliveBar' /\ BarStands'
      BY <2>5, RevokeKeeps DEF Inv, RevokeHost, revoke_host
    <3>2. LiftsBarred'
      BY <2>5 DEF Inv, LiftsBarred, RevokeHost, revoke_host, PublishIdle, BeginPublish, Bar
    <3> QED BY <2>5, <3>1, <3>2, BarringStep DEF RevokeHost, revoke_host, Bar
  <2>6. ASSUME NEW t \in Tasks, NEW h \in Hosts, RevokeSvid(t, h) PROVE Inv'
    <3>1. BarsInPast' /\ EntriesOutliveBar' /\ BarStands'
      BY <2>6, RevokeKeeps DEF Inv, RevokeSvid
    <3>2. LiftsBarred'
      BY <2>6 DEF Inv, LiftsBarred, RevokeSvid, PublishIdle, BeginPublish, Bar
    <3> QED BY <2>6, <3>1, <3>2, BarringStep DEF RevokeSvid, Bar
  <2>7. ASSUME NEW t \in Tasks, NEW h \in Hosts, UnrevokeCheck(t, h) PROVE Inv'
    <3>1. /\ UNCHANGED <<clock, barred_since, revocations, published_crl, crl_cache, fetched>>
          /\ publishing' = [publishing EXCEPT
                              ![t] = [stage |-> "unrevoke", now |-> clock, body |-> NoCrl]]
          /\ unrevoking' = [unrevoking EXCEPT ![t] = {h}]
      BY <2>7 DEF UnrevokeCheck, unrevoke_check
    <3>2. NowInPast'
      BY <3>1 DEF Inv, NowInPast
    <3>3. barred_since[h] # NotBarred /\ barred_since[h] <= clock
      BY <2>7 DEF Inv, EntriesOutliveBar, BarsInPast, NamesHost, Names,
                  UnrevokeCheck, unrevoke_check, is_host_revoked
    <3>4. LiftsBarred'
      BY <3>1, <3>3 DEF Inv, LiftsBarred
    <3>5. \A u \in Tasks : publishing'[u].body \in Bodies \cup {NoCrl}
      BY <3>1 DEF Bodies
    <3>6. /\ published_crl' \in Bodies
          /\ \A g \in Hosts : crl_cache'[g] \in Bodies /\ fetched'[g] \in Bodies
      BY <3>1 DEF Bodies
    <3> QED BY <3>1, <3>2, <3>4, <3>5, <3>6, BodiesMove
  <2>8. ASSUME NEW t \in Tasks, NEW h \in Hosts, UnrevokeLift(t, h) PROVE Inv'
    <3> DEFINE now == publishing[t].now
    <3>1. /\ UNCHANGED <<clock, barred_since, published_crl, crl_cache, fetched>>
          /\ h \in unrevoking[t]
          /\ revocations' = unrevoke_host(revocations, h, {SvidOf(h)}, now)
          /\ BeginPublish(t, now)
          /\ unrevoking' = [unrevoking EXCEPT ![t] = {}]
      BY <2>8 DEF UnrevokeLift, unrevoke_lift
    <3>2. now \in Nat /\ now <= clock
      BY DEF Inv, NowInPast
    <3>3. barred_since[h] # NotBarred /\ barred_since[h] <= now
      BY <3>1 DEF Inv, LiftsBarred
    <3>4. LiftsBarred' /\ BarsInPast'
      BY <3>1 DEF Inv, LiftsBarred, BarsInPast, BeginPublish
    <3> HIDE DEF now
    <3>5. EntriesOutliveBar' /\ BarStands'
      BY <3>1, <3>2, <3>3, UnrevokeKeeps DEF Inv
    <3> QED BY <3>1, <3>2, <3>4, <3>5, BarringStep
  <2>9. ASSUME NEW t \in Tasks, UnrevokeRefused(t) PROVE Inv'
    <3>1. /\ UNCHANGED <<clock, barred_since, revocations, published_crl, crl_cache, fetched>>
          /\ publishing' = [publishing EXCEPT ![t] = NotPublishing]
          /\ unrevoking' = [unrevoking EXCEPT ![t] = {}]
      BY <2>9 DEF UnrevokeRefused, unrevoke_refused
    <3>2. NowInPast' /\ LiftsBarred'
      BY <3>1 DEF Inv, NowInPast, LiftsBarred, NotPublishing
    <3>3. \A u \in Tasks : publishing'[u].body \in Bodies \cup {NoCrl}
      BY <3>1 DEF Bodies, NotPublishing
    <3>4. /\ published_crl' \in Bodies
          /\ \A g \in Hosts : crl_cache'[g] \in Bodies /\ fetched'[g] \in Bodies
      BY <3>1 DEF Bodies
    <3> QED BY <3>1, <3>2, <3>3, <3>4, BodiesMove
  <2>10. ASSUME NEW h \in Hosts, FetchJwks(h) \/ StoreCrl(h) \/ RefreshFails(h)
         PROVE  Inv'
    <3>1. /\ UNCHANGED <<clock, barred_since, unrevoking, revocations, published_crl, publishing>>
          /\ \A g \in Hosts : crl_cache'[g] \in {crl_cache[g], fetched[g]}
          /\ \A g \in Hosts : fetched'[g] \in {fetched[g], published_crl, NoCrl}
      BY <2>10 DEF FetchJwks, StoreCrl, RefreshFails, revocationVars
    <3>2. NowInPast' /\ LiftsBarred'
      BY <3>1 DEF Inv, NowInPast, LiftsBarred
    <3>3. /\ published_crl' \in Bodies
          /\ \A t \in Tasks : publishing'[t].body \in Bodies
          /\ \A g \in Hosts : crl_cache'[g] \in Bodies
          /\ \A g \in Hosts : fetched'[g] \in Bodies \cup {NoCrl}
      BY <3>1 DEF Bodies
    <3> QED BY <3>1, <3>2, <3>3, BodiesMove
  <2>11. CASE UNCHANGED vars
    BY <2>11 DEF vars, revocationVars, distVars, Inv, NowInPast, BodiesInPast, BarsInPast,
                 EntriesOutliveBar, LiftsBarred, BarStands, BodiesOk, BodyOk, Barred, Bars,
                 Names, NamesHost
  <2> QED BY <2>1, <2>2, <2>3, <2>4, <2>5, <2>6, <2>7, <2>8, <2>9, <2>10, <2>11 DEF Next
<1> QED BY <1>1, <1>2, TypeCorrect, PTL DEF Spec

\* The working set and every CRL body carry a bar for its whole lifetime.
THEOREM BarsPublished == Spec => []BarsArePublished
<1>1. Inv => BarsArePublished
  BY DEF Inv, BarStands, BodiesOk, BodyOk, BarsArePublished, Bodies
<1> QED BY <1>1, Invariant, PTL

\* A revocation stops minting within the maximum age of a CRL.
THEOREM StopsMinting == Spec => []RevocationStopsMinting
<1>1. TypeOK /\ Inv => RevocationStopsMinting
  <2> SUFFICES ASSUME TypeOK, Inv, NEW h \in Hosts, Barred(h),
                      clock > barred_since[h] + CRL_MAX_AGE_SECS + MiaLag
               PROVE  gate(h) # "ok"
    BY DEF RevocationStopsMinting
  <2> USE DEF TypeOK, RevocationTypeOK
  <2>1. BodyOk(crl_cache[h], h)
    BY DEF Inv, BodiesOk
  <2>2. crl_cache[h].issued_at \in Nat /\ barred_since[h] \in Nat /\ clock \in Nat
    BY DEF CrlBodies, Barred, NotBarred
  <2>3. CASE Bars(crl_cache[h].entries, h)
    BY <2>3 DEF gate
  <2>4. CASE crl_cache[h].issued_at <= barred_since[h]
    <3>1. ~ is_fresh(crl_cache[h], clock - MiaLag)
      BY <2>2, <2>4, CrlDistributionAssumption DEF is_fresh
    <3> QED BY <3>1 DEF gate
  <2> QED BY <2>1, <2>3, <2>4 DEF BodyOk
<1> QED BY <1>1, TypeCorrect, Invariant, PTL

(***************************************************************************)
(* II.  AgentRenewal                                                       *)
(***************************************************************************)

-----------------------------------------------------------------------------
(* The inductive invariant, one conjunct per concern.                      *)

Svids == {NoSvid} \cup [id : {1, 2}, exp : Int]

AnswersTyped == [kind : {"none", "issued", "limited", "reattest", "transient", "failed"},
                 svid : Svids, after : Int]
CallsTyped   == [kind : {"none", "rotate", "attest"}, svid : Svids, answer : AnswersTyped]

Runs  == [held : Svids, last : Int, identity : 0 .. 2, failures : Nat, rotate_failures : Nat,
          disabled : BOOLEAN, next_at : Int]
Loops == [pc : {"sleep", "rotating", "attesting", "installing", "after", "disabling",
                "stopped", "dead", "starting"},
          timer : Nat, at : Int, cut : BOOLEAN, path : {"none", "rotate", "attest"},
          then : {"none", "attest", "expired", "fatal"}, cand : Svids]

RenewalTypes ==
    /\ ahead \in Nat /\ host \in {1, 2}
    /\ cmis \in [svid : Svids, at : Int]
    /\ call \in CallsTyped /\ late \in CallsTyped
    /\ run \in Runs /\ loop \in Loops
    /\ slots \in [creds : Svids, minter : Svids, cell : Svids, sealed : 0 .. 2]
    /\ mint \in Svids
    /\ faults \in 0 .. MaxFaults
    /\ over \in Nat /\ off \in Nat /\ calm \in BOOLEAN /\ refused \in BOOLEAN

\* The SVID of the run is the one in force, unless it was taken out.
InForce == Holds /\ ~run.disabled

\* Each step of the task with the call it waits for.
CallOfTask ==
    /\ call.kind = CASE loop.pc = "rotating" -> "rotate"
                     [] loop.pc \in {"attesting", "starting"} -> "attest"
                     [] OTHER -> "none"
    /\ call.kind = "none" => call = NoCall

\* What is in force follows the run, outside the swap itself.
MinterFollows ==
    loop.pc \in {"sleep", "rotating", "attesting", "disabling", "installing", "starting"} =>
        slots.minter = IF InForce THEN run.held ELSE NoSvid

SwapInv ==
    /\ InForceTogether
    /\ MinterFollows
    /\ loop.pc = "starting" => ~Holds /\ mint = NoSvid
    /\ loop.pc = "installing" => slots.creds = Credentials(loop.cand)
    /\ loop.pc = "after" => slots.minter = loop.cand

\* How far the clocks have leapt.
Leapt == faults * Jump

\* The task's own time, and how the deadlines stand to the expiry.
TaskTime ==
    /\ loop.at <= 0 /\ -Leapt <= loop.at
    /\ loop.pc = "rotating" => InForce /\ loop.timer <= ROTATE_TIMEOUT
    /\ loop.pc \in {"attesting", "starting"} => loop.timer <= ATTEST_TIMEOUT
    /\ loop.pc \in {"rotating", "attesting"} /\ loop.cut =>
          InForce /\ run.held.exp - loop.at <= loop.timer
    /\ loop.pc = "attesting" /\ ~InForce => ~Holds \/ run.held.exp <= loop.at
    /\ loop.pc = "disabling" /\ loop.then # "fatal" => InForce /\ run.held.exp <= loop.at
    /\ run.disabled /\ loop.pc # "stopped" => Holds /\ run.held.exp <= 0
    /\ loop.pc \in {"installing", "after"} => loop.cand # NoSvid /\ loop.path # "none"
    /\ loop.pc \in {"installing", "after"} /\ loop.path = "rotate" => InForce

\* Whose SVIDs the run meets.
IdentityInv ==
    /\ IdentityBound
    /\ run.held.id = run.identity
    /\ slots.sealed <= host
    /\ \A s \in {run.held, loop.cand, call.svid, call.answer.svid} : s.id <= host
    /\ call.answer.kind = "issued" =>
          call.answer.svid # NoSvid /\ slots.sealed <= call.answer.svid.id
    /\ call.kind = "rotate" => call.svid = run.held
    /\ loop.pc \in {"installing", "after"} =>
          slots.sealed <= loop.cand.id /\ run.identity \in {0, loop.cand.id}

IntervalBound == (11 * REATTEST_INTERVAL) \div 10

\* Time spent without a minter, and how long until the next attestation ends.
OffInv ==
    /\ slots.minter # NoSvid => off = 0
    /\ off <= IntervalBound + ATTEST_TIMEOUT
    /\ slots.minter = NoSvid /\ loop.pc = "sleep" =>
          off + loop.timer <= IntervalBound /\ off + run.next_at <= IntervalBound
    /\ slots.minter = NoSvid /\ loop.pc \in {"attesting", "starting"} =>
          off + loop.timer <= IntervalBound + ATTEST_TIMEOUT

\* Time an expired SVID has been in force, and how long it can last.
OverInv ==
    /\ over > 0 => slots.minter # NoSvid /\ slots.minter.exp < 0
    /\ over <= ROTATE_TIMEOUT + ATTEST_TIMEOUT + MAX_SLEEP
    /\ loop.pc = "sleep" => over + loop.timer <= ROTATE_TIMEOUT + ATTEST_TIMEOUT + MAX_SLEEP
    /\ loop.pc = "rotating" => over + loop.timer <= ROTATE_TIMEOUT
    /\ loop.pc = "attesting" => over + loop.timer <= ROTATE_TIMEOUT + ATTEST_TIMEOUT
    /\ loop.pc = "after" => over + loop.timer <= AFTER_TIMEOUT

\* As long as nothing happened to the clocks or the agent: the host takes its
\* attestation for at most so much younger than CMIS does.
Younger == ATTEST_TIMEOUT + AFTER_TIMEOUT

WindowInv ==
    /\ WindowRespected
    /\ run.last <= 0
    /\ faults = 0 =>
        /\ ahead = 0
        /\ cmis.svid # NoSvid =>
            /\ InForce => run.last <= cmis.at + Younger
            /\ call.kind = "attest" /\ call.answer.kind = "issued" =>
                  loop.timer - cmis.at <= ATTEST_TIMEOUT
            /\ loop.path = "attest" /\ loop.pc = "installing" => -cmis.at <= ATTEST_TIMEOUT
            /\ loop.path = "attest" /\ loop.pc = "after" => loop.timer - cmis.at <= Younger
        /\ loop.pc = "rotating" =>
              loop.timer - run.last < REATTEST_WINDOW - ROTATE_WINDOW_MARGIN + ROTATE_TIMEOUT

\* What is issued to a host whose clock is right has nearly its whole life.
FreshInv ==
    ahead = 0 /\ loop.at = 0 =>
        /\ call.answer.kind = "issued" =>
              call.answer.svid.exp - loop.timer >= TTL - ROTATE_TIMEOUT - ATTEST_TIMEOUT
        /\ loop.pc = "installing" => loop.cand.exp >= TTL - ROTATE_TIMEOUT - ATTEST_TIMEOUT
        /\ loop.pc = "after" =>
              loop.cand.exp - loop.timer >= TTL - ROTATE_TIMEOUT - ATTEST_TIMEOUT - AFTER_TIMEOUT

\* The life left when the task is next at work, while all goes well.
CalmInv ==
    calm =>
        /\ ahead = 0 /\ loop.at = 0
        /\ loop.pc \in {"sleep", "rotating", "attesting", "installing", "after"}
        /\ slots.minter # NoSvid /\ slots.minter.exp > 0 /\ slots.minter.id = host
        /\ call.answer.kind = "issued" => call.answer.svid.id = host
        /\ loop.pc = "sleep" =>
              /\ slots.minter.exp - loop.timer > ATTEST_TIMEOUT
              /\ slots.minter.exp - run.next_at > ATTEST_TIMEOUT
        /\ loop.pc = "rotating" =>
              ~loop.cut /\ slots.minter.exp - loop.timer > ATTEST_TIMEOUT + RETRY_CAP
        /\ loop.pc = "attesting" => ~loop.cut /\ slots.minter.exp > loop.timer
        /\ loop.pc = "installing" => loop.cand.id = host

-----------------------------------------------------------------------------
(* The operators.                                                          *)

\* What the constants are.
LEMMA ConstantsTyped ==
    /\ {TTL, REATTEST_WINDOW, RETRY_BASE, RETRY_CAP, REATTEST_INTERVAL, MAX_SLEEP,
        MAX_ROTATE_FAILURES, ROTATE_TIMEOUT, ATTEST_TIMEOUT, AFTER_TIMEOUT,
        MaxFailures, Jump} \subseteq Nat \ {0}
    /\ ROTATE_WINDOW_MARGIN \in Nat /\ EXPIRY_MARGIN \in Nat /\ MaxFaults \in Nat
    /\ RetryAfters \subseteq Nat /\ Jitters \subseteq 0 .. 9
    /\ HostKeyTier \in BOOLEAN
BY RenewalAssumption

\* Least and Greatest are the smaller and the greater of two integers.
LEMMA LeastIs ==
    ASSUME NEW a \in Int, NEW b \in Int
    PROVE  Least(a, b) = IF a <= b THEN a ELSE b
<1>1. \E x \in {a, b} : \A y \in {a, b} : x <= y
  OBVIOUS
<1> QED
  BY <1>1 DEF Least, Min

LEMMA GreatestIs ==
    ASSUME NEW a \in Int, NEW b \in Int
    PROVE  Greatest(a, b) = IF a >= b THEN a ELSE b
<1>1. \E x \in {a, b} : \A y \in {a, b} : x >= y
  OBVIOUS
<1> QED
  BY <1>1 DEF Greatest, Max

LEMMA SecsIs ==
    ASSUME NEW d \in Int
    PROVE  secs(d) = IF d >= 0 THEN d ELSE 0
BY GreatestIs DEF secs

\* The wait of a host without an SVID is within a tenth of the interval.
LEMMA ReattestWait ==
    ASSUME NEW u \in Jitters
    PROVE  reattest_wait(u) \in Nat /\ reattest_wait(u) <= IntervalBound
<1>1. REATTEST_INTERVAL \in Nat /\ u \in 0 .. 9
  BY ConstantsTyped
<1>2. u = 0 \/ u = 1 \/ u = 2 \/ u = 3 \/ u = 4 \/ u = 5 \/ u = 6 \/ u = 7 \/ u = 8 \/ u = 9
  BY <1>1
<1> QED
  BY <1>1, <1>2 DEF reattest_wait, IntervalBound

\* A back-off is at least a second, and at most the cap.
LEMMA NextWait ==
    ASSUME NEW t \in Int, NEW s \in Svids, NEW f \in Nat \ {0}, NEW u \in Jitters
    PROVE  /\ next_wait(t, s, f, u) \in Nat
           /\ t >= s.exp => next_wait(t, s, f, u) <= IntervalBound
           /\ t < s.exp => next_wait(t, s, f, u) <= RETRY_CAP
<1>0. RETRY_BASE \in Nat /\ RETRY_CAP \in Nat \ {0} /\ EXPIRY_MARGIN \in Nat /\ u \in 0 .. 9
  BY ConstantsTyped
<1>1. s.exp \in Int
  BY DEF Svids, NoSvid
<1>2. CASE t >= s.exp
  <2>1. next_wait(t, s, f, u) = reattest_wait(u)
    BY <1>2 DEF next_wait
  <2> QED
    BY <2>1, <1>1, <1>2, ReattestWait
<1>3. CASE t < s.exp
  <2> DEFINE left == s.exp - t
             base == Min({RETRY_BASE * 2 ^ (f - 1), RETRY_CAP, left \div 4})
             d == (base * (10 + u)) \div 20
  <2>1. RETRY_BASE * 2 ^ (f - 1) \in Int
    BY <1>0
  <2>2. left \in Int /\ left >= 1 /\ left \div 4 \in Int
    BY <1>1, <1>3
  <2>3. base \in Int /\ base <= RETRY_CAP
    <3> DEFINE p == RETRY_BASE * 2 ^ (f - 1)
               q == left \div 4
    <3>1. p \in Int /\ q \in Int /\ RETRY_CAP \in Int
      BY <2>1, <2>2, <1>0
    <3> HIDE DEF p, q, left
    <3>2. \E x \in {p, RETRY_CAP, q} : \A y \in {p, RETRY_CAP, q} : x <= y
      BY <3>1
    <3> DEFINE m == Min({p, RETRY_CAP, q})
    <3>3. m \in {p, RETRY_CAP, q} /\ \A y \in {p, RETRY_CAP, q} : m <= y
      BY <3>2 DEF Min
    <3> HIDE DEF m
    <3>4. m \in Int /\ m <= RETRY_CAP
      BY <3>1, <3>3
    <3> QED
      BY <3>4 DEF m, p, q
  <2> HIDE DEF base, left
  <2>4. d \in Int /\ d <= RETRY_CAP
    <3>1. u = 0 \/ u = 1 \/ u = 2 \/ u = 3 \/ u = 4 \/ u = 5 \/ u = 6 \/ u = 7 \/ u = 8 \/ u = 9
      BY <1>0
    <3> QED
      BY <3>1, <2>3, <1>0
  <2> HIDE DEF d
  <2>5. next_wait(t, s, f, u) = bound_before_expiry(d, left)
    <3>1. ~ (t >= s.exp)
      BY <1>1, <1>3
    <3> QED
      BY <3>1 DEF next_wait, d, base, left
  <2>6. Greatest(d, 1) \in Int /\ Greatest(d, 1) >= 1 /\ Greatest(d, 1) <= RETRY_CAP
    BY <2>4, <1>0, GreatestIs
  <2>7. bound_before_expiry(d, left) \in Nat /\ bound_before_expiry(d, left) <= RETRY_CAP
    <3> DEFINE x == IF left > EXPIRY_MARGIN THEN left - EXPIRY_MARGIN ELSE left
               g == Greatest(d, 1)
    <3>1. x \in Int /\ x >= 1
      BY <2>2, <1>0
    <3>1a. g \in Int /\ g >= 1 /\ g <= RETRY_CAP
      BY <2>6
    <3> HIDE DEF x, g
    <3>2. Least(g, x) = IF g <= x THEN g ELSE x
      BY <3>1, <3>1a, LeastIs
    <3>3. Least(g, x) \in Nat /\ Least(g, x) <= RETRY_CAP
      BY <3>1, <3>1a, <3>2, <1>0
    <3> QED
      BY <3>3 DEF bound_before_expiry, x, g
  <2> QED
    BY <2>5, <2>7, <1>1, <1>3
<1> QED
  BY <1>1, <1>2, <1>3

\* So is what CMIS asks for, and it ends with the SVID.
LEMMA RetryAfterWait ==
    ASSUME NEW t \in Int, NEW s \in Svids, NEW after \in Int, t < s.exp
    PROVE  retry_after_wait(t, s, after) \in Nat /\ retry_after_wait(t, s, after) <= RETRY_CAP
<1>0. RETRY_CAP \in Nat \ {0}
  BY ConstantsTyped
<1>1. s.exp \in Int
  BY DEF Svids, NoSvid
<1> DEFINE d == Least(Greatest(after, 1), RETRY_CAP)
<1>2. d \in Int /\ d >= 1 /\ d <= RETRY_CAP
  BY <1>0, GreatestIs, LeastIs
<1> HIDE DEF d
<1>3. retry_after_wait(t, s, after) = Least(d, s.exp - t)
  BY DEF retry_after_wait, d
<1> QED
  BY <1>0, <1>1, <1>2, <1>3, LeastIs

\* A sleep is a slice of the wait.
LEMMA AsleepIs ==
    ASSUME NEW w \in Nat
    PROVE  /\ Asleep(w) \in Loops
           /\ Asleep(w) = [pc |-> "sleep", timer |-> Asleep(w).timer, at |-> 0, cut |-> FALSE,
                           path |-> "none", then |-> "none", cand |-> NoSvid]
           /\ Asleep(w).timer \in Nat /\ Asleep(w).timer <= w /\ Asleep(w).timer <= MAX_SLEEP
<1>1. Least(w, MAX_SLEEP) \in Nat /\ Least(w, MAX_SLEEP) <= w /\ Least(w, MAX_SLEEP) <= MAX_SLEEP
  BY LeastIs, ConstantsTyped
<1> QED
  BY <1>1 DEF Asleep, Loops, Svids

\* A call runs until its deadline or until the SVID expires.
LEMMA BoundedIs ==
    ASSUME NEW pc, NEW t, NEW limit \in Nat, NEW left \in Nat
    PROVE  Bounded(pc, t, limit, left) =
             [pc |-> pc, timer |-> IF limit <= left THEN limit ELSE left, at |-> t,
              cut |-> (left <= limit), path |-> "none", then |-> "none", cand |-> NoSvid]
<1>1. Least(limit, left) = IF limit <= left THEN limit ELSE left
  BY LeastIs
<1> DEFINE m == Least(limit, left)
           c == left <= limit
<1>2. Bounded(pc, t, limit, left) =
        [Asleep(0) EXCEPT !.pc = pc, !.at = t, !.timer = m, !.cut = c]
  BY DEF Bounded
<1> HIDE DEF m, c
<1>3. Bounded(pc, t, limit, left) =
        [pc |-> pc, timer |-> m, at |-> t, cut |-> c, path |-> "none", then |-> "none", cand |-> NoSvid]
  BY <1>2 DEF Asleep
<1> QED
  BY <1>1, <1>3 DEF m, c

LEMMA SvidFields ==
    ASSUME NEW s \in Svids
    PROVE  /\ s.exp \in Int /\ s.id \in 0 .. 2
           /\ s = NoSvid <=> s.id = 0
           /\ s = [id |-> s.id, exp |-> s.exp]
BY DEF Svids, NoSvid

LEMMA NoSvidTyped == NoSvid \in Svids /\ NoSvid.id = 0 /\ NoSvid.exp = 0
BY DEF Svids, NoSvid

LEMMA CredentialsTyped ==
    ASSUME NEW s \in Svids
    PROVE  /\ Credentials(s) \in Svids /\ Credentials(s).id \in {0, s.id}
           /\ Credentials(NoSvid) = NoSvid
BY NoSvidTyped DEF Credentials

\* An SVID that grows older keeps its identity.
LEMMA OlderIs ==
    ASSUME NEW s \in Svids, NEW d \in Nat
    PROVE  /\ Older(s, d) \in Svids
           /\ Older(s, d).id = s.id
           /\ Older(s, d) = NoSvid <=> s = NoSvid
           /\ s # NoSvid => Older(s, d).exp = IF s.exp - d >= -Skips THEN s.exp - d ELSE -Skips
           /\ Older(NoSvid, d) = NoSvid
           /\ Older(Credentials(s), d) = Credentials(Older(s, d))
<1>0. Skips \in Int
  BY ConstantsTyped DEF Skips
<1>1. s.exp \in Int /\ (s = NoSvid <=> s.id = 0)
  BY SvidFields
<1>2. Older(NoSvid, d) = NoSvid
  BY NoSvidTyped DEF Older
<1>3. CASE s = NoSvid
  BY <1>2, <1>3, NoSvidTyped DEF Credentials
<1>4. CASE s # NoSvid
  <2>1. s \in [id : {1, 2}, exp : Int]
    BY <1>4 DEF Svids
  <2>2. Back(s.exp, d) = IF s.exp - d >= -Skips THEN s.exp - d ELSE -Skips
    BY <1>0, <1>1, GreatestIs DEF Back
  <2>3. Older(s, d) = [s EXCEPT !.exp = Back(s.exp, d)]
    BY <1>1, <1>4 DEF Older
  <2>4. Older(s, d) \in [id : {1, 2}, exp : Int] /\ Older(s, d).id = s.id
    BY <2>1, <2>2, <2>3, <1>0, <1>1
  <2>5. Older(s, d).exp = Back(s.exp, d)
    BY <2>1, <2>3
  <2>6. Older(s, d) # NoSvid
    BY <2>4 DEF NoSvid
  <2> QED
    BY <2>2, <2>4, <2>5, <2>6, <1>2, <1>4 DEF Svids, Credentials
<1> QED
  BY <1>3, <1>4

LEMMA BackIs ==
    ASSUME NEW t \in Int, NEW d \in Nat
    PROVE  /\ Skips \in Nat /\ Skips = MaxFaults * Jump + 1
           /\ Back(t, d) = IF t - d >= -Skips THEN t - d ELSE -Skips
           /\ FarBack(t, d) = IF t - d >= -(Skips + REATTEST_WINDOW)
                              THEN t - d ELSE -(Skips + REATTEST_WINDOW)
<1>1. Skips \in Nat
  BY ConstantsTyped DEF Skips
<1> QED
  BY <1>1, ConstantsTyped, GreatestIs DEF Back, FarBack, Skips

-----------------------------------------------------------------------------
(* Pieces of the actions.                                                  *)

\* The task sleeps for w from t.
BacksOff(t, w) ==
    /\ w \in Nat /\ loop' = Asleep(w)
    /\ run' = [run EXCEPT !.failures = run'.failures, !.next_at = t + w,
                          !.rotate_failures = run'.rotate_failures]
    /\ run'.failures \in Nat /\ run'.rotate_failures \in Nat
    /\ ~Holds \/ t >= run.held.exp => w <= IntervalBound

LEMMA RunFields ==
    ASSUME RenewalTypes
    PROVE  /\ run.held \in Svids /\ run.last \in Int /\ run.identity \in 0 .. 2
           /\ run.failures \in Nat /\ run.rotate_failures \in Nat
           /\ run.disabled \in BOOLEAN /\ run.next_at \in Int
           /\ run.held.exp \in Int /\ run.held.id \in 0 .. 2
BY SvidFields DEF RenewalTypes, Runs

LEMMA FailedBacksOff ==
    ASSUME RenewalTypes, NEW t \in Int, NEW after \in Int, failed(t, after)
    PROVE  \E w : BacksOff(t, w) /\ (Holds /\ t < run.held.exp => w <= RETRY_CAP)
<1>0. /\ run \in Runs /\ run.held \in Svids /\ run.failures \in Nat
      /\ run.rotate_failures \in Nat /\ run.held.exp \in Int
  BY RunFields DEF RenewalTypes
<1>1. PICK u \in Jitters :
        BackOff(t, IF ~Holds THEN reattest_wait(u)
                   ELSE IF after >= 0 /\ t < run.held.exp
                        THEN retry_after_wait(t, run.held, after)
                        ELSE next_wait(t, run.held, Least(run.failures + 1, MaxFailures), u))
  BY DEF failed
<1> DEFINE f == Least(run.failures + 1, MaxFailures)
           w == IF ~Holds THEN reattest_wait(u)
                   ELSE IF after >= 0 /\ t < run.held.exp
                        THEN retry_after_wait(t, run.held, after)
                        ELSE next_wait(t, run.held, f, u)
<1>2. f \in Nat \ {0}
  BY <1>0, ConstantsTyped, LeastIs
<1> HIDE DEF f
<1>3. reattest_wait(u) \in Nat /\ reattest_wait(u) <= IntervalBound
  BY ReattestWait
<1>4. /\ next_wait(t, run.held, f, u) \in Nat
      /\ t >= run.held.exp => next_wait(t, run.held, f, u) <= IntervalBound
      /\ t < run.held.exp => next_wait(t, run.held, f, u) <= RETRY_CAP
  BY <1>0, <1>2, NextWait
<1>5. t < run.held.exp =>
        retry_after_wait(t, run.held, after) \in Nat /\ retry_after_wait(t, run.held, after) <= RETRY_CAP
  BY <1>0, RetryAfterWait
<1>6. /\ w \in Nat
      /\ ~Holds \/ t >= run.held.exp => w <= IntervalBound
      /\ Holds /\ t < run.held.exp => w <= RETRY_CAP
  BY <1>0, <1>3, <1>4, <1>5
<1>7. BackOff(t, w)
  BY <1>1 DEF f
<1> HIDE DEF w
<1>8. run' = [run EXCEPT !.failures = f, !.next_at = t + w] /\ loop' = Asleep(w)
  BY <1>7 DEF BackOff, f
<1>9. run'.failures = f /\ run'.rotate_failures = run.rotate_failures
  BY <1>8, <1>0 DEF Runs
<1>10. BacksOff(t, w)
  BY <1>0, <1>2, <1>6, <1>8, <1>9 DEF BacksOff, Runs
<1> QED
  BY <1>6, <1>10

LEMMA SkewedBacksOff ==
    ASSUME RenewalTypes, NEW t \in Int, skewed(t)
    PROVE  \E w : BacksOff(t, w)
<1>0. /\ run \in Runs /\ run.held \in Svids /\ run.failures \in Nat
      /\ run.rotate_failures \in Nat /\ run.held.exp \in Int
  BY RunFields DEF RenewalTypes
<1>1. PICK u \in Jitters :
        BackOff(t, IF Holds /\ t < run.held.exp
                   THEN Least(reattest_wait(u), run.held.exp - t) ELSE reattest_wait(u))
  BY DEF skewed
<1> DEFINE f == Least(run.failures + 1, MaxFailures)
           w == IF Holds /\ t < run.held.exp
                THEN Least(reattest_wait(u), run.held.exp - t) ELSE reattest_wait(u)
<1>2. f \in Nat \ {0}
  BY <1>0, ConstantsTyped, LeastIs
<1> HIDE DEF f
<1>3. reattest_wait(u) \in Nat /\ reattest_wait(u) <= IntervalBound
  BY ReattestWait
<1>4. t < run.held.exp => Least(reattest_wait(u), run.held.exp - t) \in Nat
  BY <1>0, <1>3, LeastIs
<1>6. w \in Nat /\ (~Holds \/ t >= run.held.exp => w <= IntervalBound)
  BY <1>0, <1>3, <1>4
<1>7. BackOff(t, w)
  BY <1>1
<1> HIDE DEF w
<1>8. run' = [run EXCEPT !.failures = f, !.next_at = t + w] /\ loop' = Asleep(w)
  BY <1>7 DEF BackOff, f
<1>9. run'.failures = f /\ run'.rotate_failures = run.rotate_failures
  BY <1>8, <1>0 DEF Runs
<1> QED
  BY <1>0, <1>2, <1>6, <1>8, <1>9 DEF BacksOff, Runs

LEMMA RotateFailedBacksOff ==
    ASSUME RenewalTypes, Holds, NEW t \in Int, RotateFailed(t)
    PROVE  \E w : BacksOff(t, w) /\ (t < run.held.exp => w <= RETRY_CAP)
<1>0. /\ run \in Runs /\ run.held \in Svids /\ run.failures \in Nat
      /\ run.rotate_failures \in Nat /\ run.held.exp \in Int
  BY RunFields DEF RenewalTypes
<1> DEFINE f == Least(run.failures + 1, MaxFailures)
           r == Least(run.rotate_failures + 1, MAX_ROTATE_FAILURES)
<1>1. PICK u \in Jitters :
        /\ run' = [run EXCEPT !.failures = f, !.next_at = t + next_wait(t, run.held, f, u),
                              !.rotate_failures = r]
        /\ loop' = Asleep(next_wait(t, run.held, f, u))
  BY DEF RotateFailed
<1>2. f \in Nat \ {0} /\ r \in Nat
  BY <1>0, ConstantsTyped, LeastIs
<1> HIDE DEF f, r
<1> DEFINE w == next_wait(t, run.held, f, u)
<1>4. /\ w \in Nat
      /\ t >= run.held.exp => w <= IntervalBound
      /\ t < run.held.exp => w <= RETRY_CAP
  BY <1>0, <1>2, NextWait
<1>5. run' = [run EXCEPT !.failures = f, !.next_at = t + w, !.rotate_failures = r] /\ loop' = Asleep(w)
  BY <1>1
<1> HIDE DEF w
<1>6. run'.failures = f /\ run'.rotate_failures = r
  BY <1>5, <1>0 DEF Runs
<1>7. BacksOff(t, w)
  BY <1>0, <1>2, <1>4, <1>5, <1>6 DEF BacksOff, Runs
<1> QED
  BY <1>4, <1>7

-----------------------------------------------------------------------------
(* The invariant, action by action.                                        *)

RenewalInv ==
    /\ RenewalTypes /\ CallOfTask /\ SwapInv /\ TaskTime /\ IdentityInv
    /\ OffInv /\ OverInv /\ WindowInv /\ FreshInv /\ CalmInv

\* Every constant on its own.
LEMMA Constants ==
    /\ TTL \in Nat /\ REATTEST_WINDOW \in Nat /\ RETRY_BASE \in Nat /\ RETRY_CAP \in Nat
    /\ REATTEST_INTERVAL \in Nat /\ MAX_SLEEP \in Nat /\ MAX_ROTATE_FAILURES \in Nat
    /\ ROTATE_TIMEOUT \in Nat /\ ATTEST_TIMEOUT \in Nat /\ AFTER_TIMEOUT \in Nat
    /\ Jump \in Nat /\ Jump > 0 /\ RETRY_CAP > 0 /\ RETRY_BASE > 0 /\ MAX_SLEEP > 0
    /\ ROTATE_WINDOW_MARGIN \in Nat /\ EXPIRY_MARGIN \in Nat /\ MaxFaults \in Nat
    /\ IntervalBound \in Nat /\ REATTEST_INTERVAL <= IntervalBound /\ MAX_SLEEP <= IntervalBound
    /\ AFTER_TIMEOUT <= ROTATE_TIMEOUT + ATTEST_TIMEOUT
    /\ RETRY_BASE <= RETRY_CAP
    /\ ROTATE_TIMEOUT + ATTEST_TIMEOUT + AFTER_TIMEOUT <= ROTATE_WINDOW_MARGIN
    /\ ROTATE_TIMEOUT + ATTEST_TIMEOUT + RETRY_CAP < TTL \div 4
BY ConstantsTyped, ScheduleAssumption DEF IntervalBound

\* Every field on its own.
LEMMA Fields ==
    ASSUME RenewalTypes
    PROVE  /\ loop.pc \in {"sleep", "rotating", "attesting", "installing", "after", "disabling",
                           "stopped", "dead", "starting"}
           /\ loop.timer \in Nat /\ loop.at \in Int /\ loop.cut \in BOOLEAN
           /\ loop.cand \in Svids /\ loop.cand.exp \in Int /\ loop.cand.id \in 0 .. 2
           /\ run.held \in Svids /\ run.held.exp \in Int /\ run.held.id \in 0 .. 2
           /\ run.last \in Int /\ run.identity \in 0 .. 2 /\ run.next_at \in Int
           /\ run.disabled \in BOOLEAN
           /\ slots.creds \in Svids /\ slots.minter \in Svids /\ slots.cell \in Svids
           /\ slots.minter.exp \in Int /\ slots.minter.id \in 0 .. 2 /\ slots.sealed \in 0 .. 2
           /\ cmis.svid \in Svids /\ cmis.at \in Int
           /\ call.svid \in Svids /\ call.answer.svid \in Svids /\ call.answer.after \in Int
           /\ call.answer.svid.exp \in Int /\ call.answer.svid.id \in 0 .. 2
           /\ call.svid.id \in 0 .. 2
           /\ ahead \in Nat /\ host \in {1, 2} /\ faults \in Nat /\ faults <= MaxFaults
           /\ over \in Nat /\ off \in Nat /\ calm \in BOOLEAN /\ refused \in BOOLEAN
<1>1. /\ loop.cand \in Svids /\ run.held \in Svids /\ slots.minter \in Svids
      /\ call.answer.svid \in Svids /\ call.svid \in Svids
  BY DEF RenewalTypes, Loops, Runs, CallsTyped, AnswersTyped
<1> QED
  BY <1>1, SvidFields, Constants DEF RenewalTypes, Loops, Runs, CallsTyped, AnswersTyped

\* However many faults there were, the clocks leapt no further than this.
LEMMA LeaptWithin ==
    ASSUME NEW n \in 0 .. MaxFaults
    PROVE  n * Jump \in Nat /\ n * Jump <= MaxFaults * Jump
<1>1. n \in Nat /\ n <= MaxFaults /\ MaxFaults \in Nat /\ Jump \in Nat
  BY Constants
<1>2. PICK k \in Nat : MaxFaults = n + k
  <2>1. MaxFaults - n \in Nat /\ MaxFaults = n + (MaxFaults - n)
    BY <1>1
  <2> QED
    BY <2>1
<1>3. MaxFaults * Jump = n * Jump + k * Jump
  BY <1>1, <1>2
<1>4. k * Jump \in Nat /\ n * Jump \in Nat
  BY <1>1, <1>2
<1> QED
  BY <1>3, <1>4

LEMMA LeaptIs ==
    ASSUME RenewalTypes
    PROVE  Leapt \in Nat /\ Leapt <= MaxFaults * Jump /\ (faults = 0 => Leapt = 0)
<1>1. faults \in 0 .. MaxFaults /\ Jump \in Nat
  BY Constants DEF RenewalTypes
<1>2. 0 * Jump = 0
  BY <1>1
<1> QED
  BY <1>1, <1>2, LeaptWithin DEF Leapt

LEMMA BeginMintStep == RenewalInv /\ BeginMint => RenewalInv'
<1> SUFFICES ASSUME RenewalInv, BeginMint PROVE RenewalInv'
  OBVIOUS
<1>0. mint' = slots.minter /\ slots.minter # NoSvid
  BY DEF BeginMint
<1>1. RenewalTypes'
  BY Fields DEF RenewalInv, RenewalTypes, BeginMint, ghosts
<1>2. CallOfTask'
  BY DEF RenewalInv, CallOfTask, BeginMint
<1>3. SwapInv'
  BY DEF RenewalInv, SwapInv, InForceTogether, InSwap, MinterFollows, InForce, Holds, Leapt, BeginMint
<1>4. TaskTime' /\ IdentityInv'
  BY DEF RenewalInv, TaskTime, IdentityInv, IdentityBound, InForce, Holds, Leapt, BeginMint
<1>5. OffInv' /\ OverInv'
  BY DEF RenewalInv, OffInv, OverInv, BeginMint, ghosts
<1>6. WindowInv' /\ FreshInv' /\ CalmInv'
  BY DEF RenewalInv, WindowInv, WindowRespected, FreshInv, CalmInv, InForce, Holds, BeginMint, ghosts
<1> QED
  BY <1>1, <1>2, <1>3, <1>4, <1>5, <1>6 DEF RenewalInv

LEMMA EndMintStep == RenewalInv /\ EndMint => RenewalInv'
<1> SUFFICES ASSUME RenewalInv, EndMint PROVE RenewalInv'
  OBVIOUS
<1>0. mint' = NoSvid
  BY DEF EndMint
<1>1. RenewalTypes'
  BY NoSvidTyped DEF RenewalInv, RenewalTypes, EndMint, ghosts
<1>2. CallOfTask'
  BY DEF RenewalInv, CallOfTask, EndMint
<1>3. SwapInv'
  BY DEF RenewalInv, SwapInv, InForceTogether, InSwap, MinterFollows, InForce, Holds, Leapt, EndMint
<1>4. TaskTime' /\ IdentityInv'
  BY DEF RenewalInv, TaskTime, IdentityInv, IdentityBound, InForce, Holds, Leapt, EndMint
<1>5. OffInv' /\ OverInv'
  BY DEF RenewalInv, OffInv, OverInv, EndMint, ghosts
<1>6. WindowInv' /\ FreshInv' /\ CalmInv'
  BY DEF RenewalInv, WindowInv, WindowRespected, FreshInv, CalmInv, InForce, Holds, EndMint, ghosts
<1> QED
  BY <1>1, <1>2, <1>3, <1>4, <1>5, <1>6 DEF RenewalInv

\* A step that only sends the task to sleep for w, or into a swap.
LEMMA StepWaitStep == RenewalInv /\ StepWait => RenewalInv'
<1> SUFFICES ASSUME RenewalInv, StepWait PROVE RenewalInv'
  OBVIOUS
<1>a. RenewalTypes
  BY DEF RenewalInv
<1> DEFINE w == IF Holds /\ ~Expired(Now) THEN Least(run.next_at, run.held.exp) - Now
                ELSE run.next_at - Now
<1>b. loop' = Asleep(w) /\ loop.pc = "sleep" /\ loop.timer = 0 /\ run.next_at > 0
  BY <1>a, Fields DEF StepWait, Awake, Due, Now
<1>c. w \in Nat /\ w <= run.next_at
  BY <1>a, <1>b, Fields, LeastIs DEF Expired, Now
<1> HIDE DEF w
<1>d. /\ loop' \in Loops /\ loop'.pc = "sleep" /\ loop'.timer \in Nat /\ loop'.timer <= w
      /\ loop'.timer <= MAX_SLEEP /\ loop'.at = 0 /\ ~loop'.cut /\ loop'.cand = NoSvid
      /\ loop'.path = "none"
  BY <1>b, <1>c, AsleepIs DEF Loops
<1>e. UNCHANGED <<ahead, host, cmis, call, late, run, slots, mint, faults, ghosts>>
  BY DEF StepWait
<1>1. RenewalTypes'
  BY <1>d, <1>e DEF RenewalInv, RenewalTypes, ghosts
<1>2. CallOfTask'
  BY <1>b, <1>d, <1>e DEF RenewalInv, CallOfTask
<1>3. SwapInv'
  BY <1>b, <1>d, <1>e DEF RenewalInv, SwapInv, InForceTogether, InSwap, MinterFollows, InForce, Holds
<1>4. TaskTime'
  BY <1>a, <1>b, <1>d, <1>e, Fields, LeaptIs DEF RenewalInv, TaskTime, InForce, Holds, Leapt
<1>5. IdentityInv'
  BY <1>b, <1>d, <1>e, NoSvidTyped, Fields, <1>a DEF RenewalInv, IdentityInv, IdentityBound
<1>6. OffInv'
  BY <1>a, <1>b, <1>c, <1>d, <1>e, Fields, Constants DEF RenewalInv, OffInv, ghosts
<1>7. OverInv'
  <2>1. over = 0
    <3>1. Expired(Now) => run.disabled
      BY DEF StepWait
    <3> QED
      BY <3>1, <1>a, <1>b, Fields DEF RenewalInv, OverInv, SwapInv, MinterFollows, InForce, Holds, Expired, Now
  <2> QED
    BY <2>1, <1>a, <1>b, <1>d, <1>e, Fields, Constants DEF RenewalInv, OverInv, ghosts
<1>8. WindowInv'
  BY <1>b, <1>d, <1>e DEF RenewalInv, CallOfTask, WindowInv, WindowRespected, InForce, Holds, ghosts
<1>9. FreshInv'
  BY <1>b, <1>d, <1>e DEF RenewalInv, CallOfTask, FreshInv, NoCall, NoAnswer
<1>10. CalmInv'
  BY <1>a, <1>b, <1>c, <1>d, <1>e, Fields, Constants DEF RenewalInv, CalmInv, ghosts
<1> QED
  BY <1>1, <1>2, <1>3, <1>4, <1>5, <1>6, <1>7, <1>8, <1>9, <1>10 DEF RenewalInv

\* The loop in a state of its own: no wait is over.
LEMMA AtOnce ==
    /\ Asleep(0) \in Loops /\ Asleep(0).pc = "sleep" /\ Asleep(0).timer = 0
    /\ Asleep(0).at = 0 /\ ~Asleep(0).cut /\ Asleep(0).path = "none"
    /\ Asleep(0).then = "none" /\ Asleep(0).cand = NoSvid
<1>1. Least(0, MAX_SLEEP) = 0
  BY LeastIs, Constants
<1> QED
  BY <1>1, NoSvidTyped DEF Asleep, Loops

LEMMA DisablingIs ==
    ASSUME NEW then \in {"attest", "expired", "fatal"}, NEW t \in Int
    PROVE  /\ Disabling(then, t) \in Loops /\ Disabling(then, t).pc = "disabling"
           /\ Disabling(then, t).timer = 0 /\ Disabling(then, t).at = t
           /\ ~Disabling(then, t).cut /\ Disabling(then, t).path = "none"
           /\ Disabling(then, t).then = then /\ Disabling(then, t).cand = NoSvid
BY AtOnce DEF Disabling, Loops

\* The task backs off after a call, with or without an answer.
LEMMA BackOffStep ==
    ASSUME RenewalInv, loop.pc \in {"rotating", "attesting"},
           NEW w, BacksOff(loop.at, w),
           call' = NoCall, late' \in CallsTyped, cmis' \in {cmis, Unheard},
           UNCHANGED <<ahead, host, slots, mint, faults, over, refused>>,
           \/ off' = 0 /\ calm' = FALSE
           \/ /\ UNCHANGED <<off, calm>> /\ loop.pc = "rotating"
              /\ loop.at < run.held.exp => w <= RETRY_CAP
    PROVE  RenewalInv'
<1>a. RenewalTypes
  BY DEF RenewalInv
<1>b. /\ w \in Nat /\ loop' = Asleep(w)
      /\ ~Holds \/ loop.at >= run.held.exp => w <= IntervalBound
  BY DEF BacksOff
<1>c. /\ run' \in Runs /\ run'.held = run.held /\ run'.last = run.last
      /\ run'.identity = run.identity /\ run'.disabled = run.disabled
      /\ run'.next_at = loop.at + w
  <2> DEFINE f == run'.failures
             r == run'.rotate_failures
  <2>1. f \in Nat /\ r \in Nat
    BY DEF BacksOff
  <2>2. run' = [run EXCEPT !.failures = f, !.next_at = loop.at + w, !.rotate_failures = r]
    BY DEF BacksOff
  <2>3. loop.at + w \in Int /\ run \in Runs
    BY <1>a, <1>b, Fields DEF RenewalTypes
  <2> HIDE DEF f, r
  <2> QED
    BY <2>1, <2>2, <2>3 DEF Runs
<1>d. /\ loop' \in Loops /\ loop'.pc = "sleep" /\ loop'.timer \in Nat /\ loop'.timer <= w
      /\ loop'.timer <= MAX_SLEEP /\ loop'.at = 0 /\ ~loop'.cut /\ loop'.cand = NoSvid
      /\ loop'.path = "none"
  BY <1>b, AsleepIs DEF Loops
<1>e. off' \in Nat /\ calm' \in BOOLEAN /\ (calm' => calm /\ loop.pc = "rotating" /\ off' = off)
  <2>1. CASE off' = 0 /\ calm' = FALSE
    BY <2>1
  <2>2. CASE UNCHANGED <<off, calm>> /\ loop.pc = "rotating"
    <3>1. off \in Nat /\ calm \in BOOLEAN
      BY <1>a DEF RenewalTypes
    <3> QED
      BY <2>2, <3>1
  <2> QED
    BY <2>1, <2>2
<1>f. call'.answer.kind = "none" /\ call'.kind = "none" /\ call'.svid = NoSvid /\ call'.answer.svid = NoSvid
  BY DEF NoCall, NoAnswer
<1>g. call' \in CallsTyped /\ cmis' \in [svid : Svids, at : Int]
  BY <1>a, NoSvidTyped DEF RenewalTypes, NoCall, NoAnswer, CallsTyped, AnswersTyped, Unheard
<1>h. (InForce <=> InForce') /\ (Holds <=> Holds')
  BY <1>c DEF InForce, Holds
<1>1. RenewalTypes'
  BY <1>a, <1>c, <1>d, <1>e, <1>g DEF RenewalTypes
<1>2. CallOfTask'
  BY <1>d, <1>f DEF CallOfTask
<1>3. SwapInv'
  BY <1>c, <1>d, <1>h DEF RenewalInv, SwapInv, InForceTogether, InSwap, MinterFollows
<1>4. TaskTime'
  BY <1>a, <1>c, <1>d, <1>h, Fields, LeaptIs DEF RenewalInv, TaskTime, Leapt
<1>5. IdentityInv'
  BY <1>a, <1>c, <1>d, <1>f, NoSvidTyped, Fields DEF RenewalInv, IdentityInv, IdentityBound
<1>6. OffInv'
  <2>1. CASE slots.minter # NoSvid
    <3>1. off = 0 /\ off' = 0
      BY <2>1, <1>a, Fields DEF RenewalInv, OffInv
    <3> QED
      BY <2>1, <3>1, Constants DEF OffInv
  <2>2. CASE slots.minter = NoSvid
    <3>1. ~InForce
      BY <2>2 DEF RenewalInv, SwapInv, MinterFollows, InForce, Holds
    <3>2. loop.pc = "attesting" /\ off' = 0
      BY <3>1 DEF RenewalInv, TaskTime
    <3>3. w <= IntervalBound
      BY <1>a, <1>b, <3>1, <3>2, Fields DEF RenewalInv, TaskTime
    <3>4. loop.at <= 0
      BY DEF RenewalInv, TaskTime
    <3> QED
      BY <1>a, <1>b, <1>c, <1>d, <2>2, <3>2, <3>3, <3>4, Fields, Constants DEF OffInv
  <2> QED
    BY <2>1, <2>2
<1>7. OverInv'
  BY <1>a, <1>d, Fields, Constants DEF RenewalInv, OverInv
<1>8. WindowInv'
  BY <1>c, <1>d, <1>f, <1>h DEF RenewalInv, WindowInv, WindowRespected, Unheard
<1>9. FreshInv'
  BY <1>d, <1>f DEF FreshInv
<1>10. CalmInv'
  <2> SUFFICES ASSUME calm' PROVE CalmInv'
    BY DEF CalmInv
  <2>1. calm /\ loop.pc = "rotating" /\ (loop.at < run.held.exp => w <= RETRY_CAP)
    BY <1>e
  <2>2. /\ ahead = 0 /\ loop.at = 0 /\ slots.minter # NoSvid /\ slots.minter.exp > 0
        /\ slots.minter.id = host /\ slots.minter.exp - loop.timer > ATTEST_TIMEOUT + RETRY_CAP
    BY <2>1 DEF RenewalInv, CalmInv
  <2>3. slots.minter = run.held
    BY <2>1, <2>2 DEF RenewalInv, SwapInv, MinterFollows
  <2>4. w <= RETRY_CAP
    BY <2>1, <2>2, <2>3
  <2> QED
    BY <1>a, <1>b, <1>c, <1>d, <1>f, <2>2, <2>4, Fields, Constants DEF CalmInv
<1> QED
  BY <1>1, <1>2, <1>3, <1>4, <1>5, <1>6, <1>7, <1>8, <1>9, <1>10 DEF RenewalInv

\* The task goes to switch everything off.
LEMMA ToDisabling ==
    ASSUME RenewalInv, loop.pc \in {"sleep", "rotating", "attesting"}, ~calm,
           NEW t \in Int, t <= 0, -Leapt <= t,
           NEW then \in {"attest", "expired", "fatal"}, loop' = Disabling(then, t),
           then # "fatal" => InForce /\ run.held.exp <= t,
           call' = NoCall, late' \in CallsTyped, cmis' \in {cmis, Unheard},
           UNCHANGED <<ahead, host, run, slots, mint, faults, over, off, calm, refused>>
    PROVE  RenewalInv'
<1>a. RenewalTypes
  BY DEF RenewalInv
<1>d. /\ loop' \in Loops /\ loop'.pc = "disabling" /\ loop'.timer = 0
      /\ loop'.at = t /\ ~loop'.cut /\ loop'.cand = NoSvid
      /\ loop'.path = "none" /\ loop'.then = then
  BY DisablingIs
<1>f. call'.answer.kind = "none" /\ call'.kind = "none" /\ call'.svid = NoSvid /\ call'.answer.svid = NoSvid
  BY DEF NoCall, NoAnswer
<1>g. call' \in CallsTyped /\ cmis' \in [svid : Svids, at : Int]
  BY <1>a, NoSvidTyped DEF RenewalTypes, NoCall, NoAnswer, CallsTyped, AnswersTyped, Unheard
<1>h. (InForce <=> InForce') /\ (Holds <=> Holds')
  BY DEF InForce, Holds
<1>1. RenewalTypes'
  BY <1>a, <1>d, <1>g DEF RenewalTypes
<1>2. CallOfTask'
  BY <1>d, <1>f DEF CallOfTask
<1>3. SwapInv'
  BY <1>d, <1>h DEF RenewalInv, SwapInv, InForceTogether, InSwap, MinterFollows
<1>4. TaskTime'
  BY <1>a, <1>d, <1>h, Fields, LeaptIs DEF RenewalInv, TaskTime, Leapt
<1>5. IdentityInv'
  BY <1>a, <1>d, <1>f, NoSvidTyped, Fields DEF RenewalInv, IdentityInv, IdentityBound
<1>6. OffInv' /\ OverInv'
  BY <1>d DEF RenewalInv, OffInv, OverInv
<1>8. WindowInv'
  BY <1>d, <1>f, <1>h DEF RenewalInv, WindowInv, WindowRespected, Unheard
<1>9. FreshInv'
  BY <1>d, <1>f DEF FreshInv
<1>10. CalmInv'
  BY DEF CalmInv
<1> QED
  BY <1>1, <1>2, <1>3, <1>4, <1>5, <1>6, <1>8, <1>9, <1>10 DEF RenewalInv

LEMMA StepExpireStep == RenewalInv /\ StepExpire => RenewalInv'
<1> SUFFICES ASSUME RenewalInv, StepExpire PROVE RenewalInv'
  OBVIOUS
<1>a. RenewalTypes
  BY DEF RenewalInv
<1>1. /\ loop.pc = "sleep" /\ loop' = Disabling("attest", 0) /\ InForce /\ run.held.exp <= 0
      /\ UNCHANGED <<ahead, host, cmis, call, late, run, slots, mint, faults, over, off, calm, refused>>
  BY <1>a, Fields DEF StepExpire, Awake, Expired, InForce, Now, ghosts
<1>2. call' = NoCall /\ late' \in CallsTyped /\ cmis' \in {cmis, Unheard}
  BY <1>a, <1>1 DEF RenewalInv, CallOfTask, RenewalTypes
<1>3. ~calm
  BY <1>a, <1>1, Fields DEF RenewalInv, CalmInv, SwapInv, MinterFollows
<1>4. -Leapt <= 0
  BY <1>a, LeaptIs
<1> QED
  BY <1>1, <1>2, <1>3, <1>4, ToDisabling

\* A full attestation ends at its deadline, and a renewal at the expiry.
LEMMA AttestingIs ==
    ASSUME RenewalTypes, NEW t \in Int, NEW renewing \in BOOLEAN
    PROVE  /\ Attesting(t, renewing) \in Loops /\ Attesting(t, renewing).pc = "attesting"
           /\ Attesting(t, renewing).at = t /\ Attesting(t, renewing).timer \in Nat
           /\ Attesting(t, renewing).timer <= ATTEST_TIMEOUT
           /\ Attesting(t, renewing).path = "none" /\ Attesting(t, renewing).cand = NoSvid
           /\ Attesting(t, renewing).cut =>
                 renewing /\ run.held.exp - t <= Attesting(t, renewing).timer
           /\ run.held.exp - t > ATTEST_TIMEOUT => ~Attesting(t, renewing).cut
<1>0. ATTEST_TIMEOUT \in Nat /\ run.held.exp \in Int
  BY Fields, Constants
<1> DEFINE left == secs(run.held.exp - t)
<1>1. left \in Nat /\ left >= run.held.exp - t
      /\ (run.held.exp - t > ATTEST_TIMEOUT => left > ATTEST_TIMEOUT)
  BY <1>0, SecsIs
<1> HIDE DEF left
<1>2. CASE renewing
  <2>1. Attesting(t, renewing) =
          [pc |-> "attesting", timer |-> IF ATTEST_TIMEOUT <= left THEN ATTEST_TIMEOUT ELSE left,
           at |-> t, cut |-> (left <= ATTEST_TIMEOUT), path |-> "none", then |-> "none", cand |-> NoSvid]
    BY <1>0, <1>1, <1>2, BoundedIs DEF Attesting, left
  <2> DEFINE m == IF ATTEST_TIMEOUT <= left THEN ATTEST_TIMEOUT ELSE left
             c == left <= ATTEST_TIMEOUT
  <2>2. m \in Nat /\ m <= ATTEST_TIMEOUT /\ c \in BOOLEAN
        /\ (c => run.held.exp - t <= m) /\ (run.held.exp - t > ATTEST_TIMEOUT => ~c)
    BY <1>0, <1>1
  <2> HIDE DEF m, c
  <2>3. Attesting(t, renewing) = [pc |-> "attesting", timer |-> m, at |-> t, cut |-> c,
                                  path |-> "none", then |-> "none", cand |-> NoSvid]
    BY <2>1 DEF m, c
  <2>4. /\ Attesting(t, renewing).timer = m /\ Attesting(t, renewing).cut = c
        /\ Attesting(t, renewing).pc = "attesting" /\ Attesting(t, renewing).at = t
        /\ Attesting(t, renewing).path = "none" /\ Attesting(t, renewing).cand = NoSvid
    BY <2>3
  <2>5. Attesting(t, renewing) \in Loops
    BY <2>2, <2>3, NoSvidTyped DEF Loops
  <2> QED
    BY <2>2, <2>4, <2>5, <1>2
<1>3. CASE ~renewing
  <2> DEFINE b == Bounded("attesting", t, ATTEST_TIMEOUT, ATTEST_TIMEOUT)
  <2>1. b = [pc |-> "attesting", timer |-> IF ATTEST_TIMEOUT <= ATTEST_TIMEOUT THEN ATTEST_TIMEOUT ELSE ATTEST_TIMEOUT,
             at |-> t, cut |-> (ATTEST_TIMEOUT <= ATTEST_TIMEOUT), path |-> "none",
             then |-> "none", cand |-> NoSvid]
    BY <1>0, BoundedIs
  <2> HIDE DEF b
  <2>2. b \in Loops /\ b.pc = "attesting" /\ b.timer = ATTEST_TIMEOUT /\ b.at = t
        /\ b.path = "none" /\ b.cand = NoSvid
    BY <2>1, <1>0, NoSvidTyped DEF Loops
  <2>3. Attesting(t, renewing) = [b EXCEPT !.cut = FALSE]
    BY <1>3 DEF Attesting, b
  <2>4. Attesting(t, renewing) \in Loops /\ ~Attesting(t, renewing).cut
    BY <2>2, <2>3 DEF Loops
  <2>5. /\ Attesting(t, renewing).timer = ATTEST_TIMEOUT
        /\ Attesting(t, renewing).pc = "attesting" /\ Attesting(t, renewing).at = t
        /\ Attesting(t, renewing).path = "none" /\ Attesting(t, renewing).cand = NoSvid
    BY <2>2, <2>3 DEF Loops
  <2> QED
    BY <2>4, <2>5, <1>0
<1> QED
  BY <1>2, <1>3

\* A new call has no answer.
LEMMA AskIs ==
    ASSUME RenewalTypes, NEW k \in {"rotate", "attest"}, Ask(k)
    PROVE  /\ call' \in CallsTyped /\ call'.kind = k
           /\ call'.svid = IF k = "rotate" THEN run.held ELSE NoSvid
           /\ call'.answer.kind = "none" /\ call'.answer.svid = NoSvid
<1> DEFINE s == IF k = "rotate" THEN run.held ELSE NoSvid
<1>1. s \in Svids
  BY NoSvidTyped, Fields
<1>2. NoCall \in CallsTyped /\ NoCall.answer.kind = "none" /\ NoCall.answer.svid = NoSvid
  BY NoSvidTyped DEF NoCall, NoAnswer, CallsTyped, AnswersTyped
<1>3. call' = [NoCall EXCEPT !.kind = k, !.svid = s]
  BY DEF Ask
<1> HIDE DEF s
<1>4. call' \in CallsTyped /\ call'.kind = k /\ call'.svid = s /\ call'.answer = NoCall.answer
  BY <1>1, <1>2, <1>3 DEF CallsTyped
<1> QED
  BY <1>2, <1>4 DEF s

\* The task starts a full attestation.
LEMMA ToAttesting ==
    ASSUME RenewalInv, loop.pc \in {"sleep", "rotating"},
           NEW t \in Int, t <= 0, -Leapt <= t,
           NEW renewing \in BOOLEAN, loop' = Attesting(t, renewing), Ask("attest"),
           renewing => InForce,
           ~InForce => ~Holds \/ run.held.exp <= t,
           slots.minter = NoSvid => off <= IntervalBound,
           over <= ROTATE_TIMEOUT,
           calm => t = 0 /\ slots.minter.exp > ATTEST_TIMEOUT,
           UNCHANGED <<ahead, host, cmis, late, run, slots, mint, faults, over, off, calm, refused>>
    PROVE  RenewalInv'
<1>a. RenewalTypes
  BY DEF RenewalInv
<1>d. /\ loop' \in Loops /\ loop'.pc = "attesting" /\ loop'.at = t /\ loop'.timer \in Nat
      /\ loop'.timer <= ATTEST_TIMEOUT /\ loop'.path = "none" /\ loop'.cand = NoSvid
      /\ loop'.cut => renewing /\ run.held.exp - t <= loop'.timer
      /\ run.held.exp - t > ATTEST_TIMEOUT => ~loop'.cut
  BY <1>a, AttestingIs
<1>f. /\ call'.answer.kind = "none" /\ call'.kind = "attest" /\ call'.svid = NoSvid
      /\ call'.answer.svid = NoSvid /\ call' \in CallsTyped
  BY <1>a, AskIs
<1>h. (InForce <=> InForce') /\ (Holds <=> Holds')
  BY DEF InForce, Holds
<1>1. RenewalTypes'
  BY <1>a, <1>d, <1>f DEF RenewalTypes
<1>2. CallOfTask'
  BY <1>d, <1>f DEF CallOfTask
<1>3. SwapInv'
  BY <1>d, <1>h DEF RenewalInv, SwapInv, InForceTogether, InSwap, MinterFollows
<1>4. TaskTime'
  BY <1>a, <1>d, <1>h, Fields, LeaptIs DEF RenewalInv, TaskTime, Leapt
<1>5. IdentityInv'
  BY <1>a, <1>d, <1>f, NoSvidTyped, Fields DEF RenewalInv, IdentityInv, IdentityBound
<1>6. OffInv'
  BY <1>a, <1>d, Fields, Constants DEF RenewalInv, OffInv
<1>7. OverInv'
  BY <1>a, <1>d, Fields, Constants DEF RenewalInv, OverInv
<1>8. WindowInv'
  BY <1>d, <1>f, <1>h DEF RenewalInv, WindowInv, WindowRespected
<1>9. FreshInv'
  BY <1>d, <1>f DEF FreshInv
<1>10. CalmInv'
  <2> SUFFICES ASSUME calm PROVE CalmInv'
    BY DEF CalmInv
  <2>1. slots.minter # NoSvid /\ slots.minter = run.held /\ t = 0
    BY DEF RenewalInv, CalmInv, SwapInv, MinterFollows
  <2> QED
    BY <1>a, <1>d, <1>f, <2>1, Fields, Constants DEF RenewalInv, CalmInv
<1> QED
  BY <1>1, <1>2, <1>3, <1>4, <1>5, <1>6, <1>7, <1>8, <1>9, <1>10 DEF RenewalInv

LEMMA StepAttestStep == RenewalInv /\ StepAttest => RenewalInv'
<1> SUFFICES ASSUME RenewalInv, StepAttest PROVE RenewalInv'
  OBVIOUS
<1>a. RenewalTypes
  BY DEF RenewalInv
<1>1. /\ loop.pc = "sleep" /\ loop.timer = 0 /\ loop' = Attesting(0, FALSE) /\ Ask("attest")
      /\ ~InForce /\ (~Holds \/ run.held.exp <= 0)
      /\ UNCHANGED <<ahead, host, cmis, late, run, slots, mint, faults, over, off, calm, refused>>
  BY <1>a, Fields DEF StepAttest, Awake, Expired, InForce, Now, ghosts
<1>2. slots.minter = NoSvid
  BY <1>1 DEF RenewalInv, SwapInv, MinterFollows
<1>3. ~calm /\ over <= ROTATE_TIMEOUT /\ off <= IntervalBound /\ -Leapt <= 0
  BY <1>a, <1>1, <1>2, Fields, Constants, LeaptIs DEF RenewalInv, CalmInv, OverInv, OffInv
<1>4. 0 \in Int /\ 0 <= 0 /\ FALSE \in BOOLEAN
  OBVIOUS
<1> QED
  BY <1>1, <1>2, <1>3, <1>4, ToAttesting

LEMMA RotatingIs ==
    ASSUME RenewalTypes, NEW t \in Int
    PROVE  /\ Rotating(t) \in Loops /\ Rotating(t).pc = "rotating"
           /\ Rotating(t).at = t /\ Rotating(t).timer \in Nat
           /\ Rotating(t).timer <= ROTATE_TIMEOUT
           /\ Rotating(t).path = "none" /\ Rotating(t).cand = NoSvid
           /\ Rotating(t).cut => run.held.exp - t <= Rotating(t).timer
           /\ run.held.exp - t > ROTATE_TIMEOUT => ~Rotating(t).cut
<1>0. ROTATE_TIMEOUT \in Nat /\ run.held.exp \in Int
  BY Fields, Constants
<1> DEFINE left == secs(run.held.exp - t)
<1>1. left \in Nat /\ left >= run.held.exp - t
      /\ (run.held.exp - t > ROTATE_TIMEOUT => left > ROTATE_TIMEOUT)
  BY <1>0, SecsIs
<1> HIDE DEF left
<1>2. Rotating(t) =
        [pc |-> "rotating", timer |-> IF ROTATE_TIMEOUT <= left THEN ROTATE_TIMEOUT ELSE left,
         at |-> t, cut |-> (left <= ROTATE_TIMEOUT), path |-> "none", then |-> "none", cand |-> NoSvid]
  BY <1>0, <1>1, BoundedIs DEF Rotating, left
<1> DEFINE m == IF ROTATE_TIMEOUT <= left THEN ROTATE_TIMEOUT ELSE left
           c == left <= ROTATE_TIMEOUT
<1>3. m \in Nat /\ m <= ROTATE_TIMEOUT /\ c \in BOOLEAN
      /\ (c => run.held.exp - t <= m) /\ (run.held.exp - t > ROTATE_TIMEOUT => ~c)
  BY <1>0, <1>1
<1> HIDE DEF m, c
<1>4. Rotating(t) = [pc |-> "rotating", timer |-> m, at |-> t, cut |-> c,
                     path |-> "none", then |-> "none", cand |-> NoSvid]
  BY <1>2 DEF m, c
<1>5. /\ Rotating(t).timer = m /\ Rotating(t).cut = c
      /\ Rotating(t).pc = "rotating" /\ Rotating(t).at = t
      /\ Rotating(t).path = "none" /\ Rotating(t).cand = NoSvid
  BY <1>4
<1>6. Rotating(t) \in Loops
  BY <1>3, <1>4, NoSvidTyped DEF Loops
<1> QED
  BY <1>3, <1>5, <1>6

LEMMA StepRenewStep == RenewalInv /\ StepRenew => RenewalInv'
<1> SUFFICES ASSUME RenewalInv, StepRenew PROVE RenewalInv'
  OBVIOUS
<1>a. RenewalTypes
  BY DEF RenewalInv
<1>b. /\ loop.pc = "sleep" /\ loop.timer = 0 /\ Holds /\ run.held.exp > 0
      /\ UNCHANGED <<ahead, host, cmis, late, run, slots, mint, faults, over, off, calm, refused>>
  BY <1>a, Fields DEF StepRenew, Awake, Expired, Now, ghosts
<1>c. InForce /\ slots.minter = run.held /\ slots.minter # NoSvid
  BY <1>a, <1>b, Fields DEF RenewalInv, TaskTime, SwapInv, MinterFollows, InForce, Holds
<1>d. over = 0 /\ -Leapt <= 0 /\ over <= ROTATE_TIMEOUT
  BY <1>a, <1>b, <1>c, Fields, Constants, LeaptIs DEF RenewalInv, OverInv
<1>e. calm => slots.minter.exp > ATTEST_TIMEOUT
  BY <1>a, <1>b, Fields, Constants DEF RenewalInv, CalmInv
<1>1. CASE loop' = Attesting(Now, TRUE) /\ Ask("attest")
  <2>1. loop' = Attesting(0, TRUE) /\ Ask("attest")
    BY <1>1 DEF Now
  <2>2. 0 \in Int /\ 0 <= 0 /\ TRUE \in BOOLEAN
    OBVIOUS
  <2> QED
    BY <1>b, <1>c, <1>d, <1>e, <2>1, <2>2, ToAttesting
<1>2. CASE UseRotate(Now) /\ loop' = Rotating(Now) /\ Ask("rotate")
  <2>1. /\ loop' = Rotating(0) /\ Ask("rotate")
        /\ run.held.exp >= TTL \div 4 /\ 0 < run.last + REATTEST_WINDOW - ROTATE_WINDOW_MARGIN
    BY <1>2, <1>a, Fields DEF UseRotate, rotate_allowed, Now
  <2>d. /\ loop' \in Loops /\ loop'.pc = "rotating" /\ loop'.at = 0 /\ loop'.timer \in Nat
        /\ loop'.timer <= ROTATE_TIMEOUT /\ loop'.path = "none" /\ loop'.cand = NoSvid
        /\ loop'.cut => run.held.exp - 0 <= loop'.timer
        /\ run.held.exp - 0 > ROTATE_TIMEOUT => ~loop'.cut
    BY <2>1, <1>a, RotatingIs
  <2>f. /\ call'.answer.kind = "none" /\ call'.kind = "rotate" /\ call'.svid = run.held
        /\ call'.answer.svid = NoSvid /\ call' \in CallsTyped
    BY <1>a, <2>1, AskIs
  <2>h. InForce' /\ Holds'
    BY <1>b, <1>c DEF InForce, Holds
  <2>3. RenewalTypes' /\ CallOfTask'
    BY <1>a, <1>b, <2>d, <2>f DEF RenewalTypes, CallOfTask
  <2>4. SwapInv'
    BY <1>b, <1>c, <2>d, <2>h DEF RenewalInv, SwapInv, InForceTogether, InSwap, MinterFollows
  <2>5. TaskTime'
    BY <1>a, <1>b, <1>c, <1>d, <2>d, <2>h, Fields DEF RenewalInv, TaskTime, Leapt
  <2>6. IdentityInv'
    BY <1>a, <1>b, <2>d, <2>f, NoSvidTyped, Fields DEF RenewalInv, IdentityInv, IdentityBound
  <2>7. OffInv' /\ OverInv'
    BY <1>a, <1>b, <1>c, <1>d, <2>d, Fields, Constants DEF RenewalInv, OffInv, OverInv
  <2>8. WindowInv'
    <3>1. loop'.timer - run.last < REATTEST_WINDOW - ROTATE_WINDOW_MARGIN + ROTATE_TIMEOUT
      BY <1>a, <2>1, <2>d, Fields, Constants
    <3> QED
      BY <1>b, <1>c, <2>d, <2>f, <3>1 DEF RenewalInv, WindowInv, WindowRespected, InForce, Holds
  <2>9. FreshInv'
    BY <2>d, <2>f DEF FreshInv
  <2>10. CalmInv'
    BY <1>a, <1>b, <1>c, <2>1, <2>d, <2>f, Fields, Constants DEF RenewalInv, CalmInv
  <2> QED
    BY <2>3, <2>4, <2>5, <2>6, <2>7, <2>8, <2>9, <2>10 DEF RenewalInv
<1> QED
  BY <1>1, <1>2 DEF StepRenew

LEMMA UnheardTyped == Unheard \in [svid : Svids, at : Int] /\ Unheard.svid = NoSvid
BY NoSvidTyped DEF Unheard

LEMMA CmisServesLateStep == RenewalInv /\ CmisServesLate => RenewalInv'
<1> SUFFICES ASSUME RenewalInv, CmisServesLate PROVE RenewalInv'
  OBVIOUS
<1>a. cmis' = Unheard /\ late' = NoCall
      /\ UNCHANGED <<ahead, host, call, run, loop, slots, mint, faults, over, off, calm, refused>>
  BY DEF CmisServesLate, ghosts
<1>b. NoCall \in CallsTyped
  BY NoSvidTyped DEF NoCall, NoAnswer, CallsTyped, AnswersTyped
<1>1. RenewalTypes' /\ CallOfTask'
  BY <1>a, <1>b, UnheardTyped DEF RenewalInv, RenewalTypes, CallOfTask
<1>2. SwapInv' /\ TaskTime' /\ IdentityInv'
  BY <1>a DEF RenewalInv, SwapInv, InForceTogether, InSwap, MinterFollows, InForce, Holds,
              TaskTime, Leapt, IdentityInv, IdentityBound
<1>3. OffInv' /\ OverInv' /\ FreshInv' /\ CalmInv'
  BY <1>a DEF RenewalInv, OffInv, OverInv, FreshInv, CalmInv
<1>4. WindowInv'
  BY <1>a, UnheardTyped DEF RenewalInv, WindowInv, WindowRespected
<1> QED
  BY <1>1, <1>2, <1>3, <1>4 DEF RenewalInv

LEMMA AnswersAre ==
    /\ \A k \in {"reattest", "transient", "failed"} :
          Answer(k) \in AnswersTyped /\ Answer(k).kind = k /\ Answer(k).svid = NoSvid
    /\ \A r \in RetryAfters :
          Limited(r) \in AnswersTyped /\ Limited(r).kind = "limited" /\ Limited(r).svid = NoSvid
    /\ \A s \in Svids : Issued(s) \in AnswersTyped /\ Issued(s).kind = "issued" /\ Issued(s).svid = s
<1>1. NoAnswer \in AnswersTyped /\ NoAnswer.svid = NoSvid
  BY NoSvidTyped DEF NoAnswer, AnswersTyped
<1>2. RetryAfters \subseteq Int
  BY ConstantsTyped
<1> QED
  BY <1>1, <1>2 DEF Answer, Limited, Issued, AnswersTyped

\* CMIS answers a call, with an SVID or without.
LEMMA AnswerStep ==
    ASSUME RenewalInv, NEW a \in AnswersTyped, call' = [call EXCEPT !.answer = a],
           call.kind # "none", late' = NoCall,
           cmis' \in [svid : Svids, at : Int],
           refused' = FALSE,
           a.kind = "issued" \/ a.svid = NoSvid,
           a.kind = "issued" => /\ a.svid # NoSvid /\ a.svid.id <= host /\ slots.sealed <= a.svid.id
                                /\ calm => a.svid.id = host
                                /\ a.svid.exp = TTL - ahead,
           \/ cmis' = Unheard
           \/ cmis'.at = cmis.at /\ (cmis.svid = NoSvid => cmis'.svid = NoSvid)
                                 /\ (a.kind = "issued" => call.kind = "rotate")
           \/ cmis'.at = 0 - ahead,
           UNCHANGED <<ahead, host, run, loop, slots, mint, faults, over, off, calm>>
    PROVE  RenewalInv'
<1>a. RenewalTypes
  BY DEF RenewalInv
<1>b. call' \in CallsTyped /\ call'.kind = call.kind /\ call'.svid = call.svid /\ call'.answer = a
  BY <1>a DEF RenewalTypes, CallsTyped
<1>c. NoCall \in CallsTyped
  BY NoSvidTyped DEF NoCall, NoAnswer, CallsTyped, AnswersTyped
<1>d. a.svid \in Svids /\ a.svid.exp \in Int /\ a.svid.id \in 0 .. 2
  BY SvidFields DEF AnswersTyped
<1>1. RenewalTypes' /\ CallOfTask'
  BY <1>a, <1>b, <1>c DEF RenewalInv, RenewalTypes, CallOfTask
<1>2. SwapInv' /\ TaskTime'
  BY DEF RenewalInv, SwapInv, InForceTogether, InSwap, MinterFollows, InForce, Holds, TaskTime, Leapt
<1>3. IdentityInv'
  BY <1>a, <1>b, <1>d, NoSvidTyped, Fields DEF RenewalInv, IdentityInv, IdentityBound
<1>4. OffInv' /\ OverInv'
  BY DEF RenewalInv, OffInv, OverInv
<1>5. loop.timer <= ROTATE_TIMEOUT + ATTEST_TIMEOUT
      /\ (call.kind = "attest" => loop.timer <= ATTEST_TIMEOUT)
  BY <1>a, Fields, Constants DEF RenewalInv, CallOfTask, TaskTime
<1>6. FreshInv'
  BY <1>a, <1>b, <1>d, <1>5, Fields, Constants DEF RenewalInv, FreshInv
<1>7. CalmInv'
  BY <1>b DEF RenewalInv, CalmInv
<1>8. WindowInv'
  <2>1. (InForce <=> InForce') /\ WindowRespected' /\ run'.last <= 0
    BY DEF RenewalInv, InForce, Holds, WindowInv, WindowRespected
  <2>2. CASE cmis' = Unheard
    BY <2>1, <2>2, UnheardTyped DEF RenewalInv, WindowInv
  <2>3. CASE cmis'.at = cmis.at /\ (cmis.svid = NoSvid => cmis'.svid = NoSvid)
                                /\ (a.kind = "issued" => call.kind = "rotate")
    BY <2>1, <2>3, <1>b DEF RenewalInv, WindowInv
  <2>4. CASE cmis'.at = 0 - ahead
    <3> SUFFICES ASSUME faults = 0 PROVE WindowInv'
      BY <2>1 DEF WindowInv
    <3>0. ahead = 0 /\ run.last <= 0
      BY DEF RenewalInv, WindowInv
    <3>1. ahead = 0 /\ cmis'.at = 0 /\ run.last <= 0
      BY <2>4, <3>0
    <3>2. loop.pc \notin {"installing", "after"}
      BY DEF RenewalInv, CallOfTask
    <3> QED
      BY <2>1, <3>1, <3>2, <1>a, <1>5, Fields, Constants DEF RenewalInv, WindowInv, Younger
  <2> QED
    BY <2>2, <2>3, <2>4
<1> QED
  BY <1>1, <1>2, <1>3, <1>4, <1>6, <1>7, <1>8 DEF RenewalInv

LEMMA CmisServesStep == RenewalInv /\ CmisServes => RenewalInv'
<1> SUFFICES ASSUME RenewalInv, CmisServes PROVE RenewalInv'
  OBVIOUS
<1>a. RenewalTypes
  BY DEF RenewalInv
<1>b. /\ call.kind # "none" /\ late' = NoCall
      /\ UNCHANGED <<ahead, host, run, loop, slots, mint, faults, over, off, calm>>
  BY DEF CmisServes
<1>c. PICK a \in Answers :
        /\ call' = [call EXCEPT !.answer = a]
        /\ \/ call.kind = "rotate" /\ ServeRotate(call.svid, a)
           \/ call.kind = "attest" /\ ServeAttest(a) /\ UNCHANGED refused
  BY DEF CmisServes
<1>d. refused = FALSE /\ cmis \in [svid : Svids, at : Int]
  BY <1>a DEF RenewalInv, WindowInv, WindowRespected, RenewalTypes
<1>e. ASSUME NEW id \in {1, 2}
      PROVE  /\ Fresh(id) \in Svids /\ Fresh(id) # NoSvid /\ Fresh(id).id = id
             /\ Fresh(id).exp = TTL - ahead
  BY <1>a, Fields, Constants DEF Fresh, CmisNow, Now, Svids, NoSvid
<1>1. CASE call.kind = "attest" /\ ServeAttest(a) /\ UNCHANGED refused
  <2>1. CASE cmis' = [svid |-> Fresh(host), at |-> CmisNow] /\ a = Issued(Fresh(host))
    <3>1. host \in {1, 2} /\ CmisNow = 0 - ahead /\ CmisNow \in Int
      BY <1>a, Fields DEF CmisNow, Now
    <3>2. /\ a \in AnswersTyped /\ a.kind = "issued" /\ a.svid = Fresh(host)
          /\ a.svid # NoSvid /\ a.svid.id = host /\ a.svid.exp = TTL - ahead
      BY <2>1, <3>1, <1>e, AnswersAre
    <3>3. cmis' \in [svid : Svids, at : Int] /\ cmis'.at = 0 - ahead
      BY <2>1, <3>1, <1>e
    <3>4. slots.sealed <= host /\ host <= host
      BY <1>a, Fields DEF RenewalInv, IdentityInv
    <3> QED
      BY <1>b, <1>c, <1>1, <1>d, <3>2, <3>3, <3>4, AnswerStep
  <2>2. CASE a = Answer("failed") /\ UNCHANGED cmis
    <3>1. a \in AnswersTyped /\ a.kind # "issued" /\ a.svid = NoSvid
      BY <2>2, AnswersAre
    <3> QED
      BY <1>b, <1>c, <1>1, <1>d, <2>2, <3>1, AnswerStep
  <2> QED
    BY <1>1, <2>1, <2>2 DEF ServeAttest
<1>2. CASE call.kind = "rotate" /\ ServeRotate(call.svid, a)
  <2>a. /\ loop.pc = "rotating" /\ call.svid = run.held /\ InForce /\ call.svid # NoSvid
        /\ call.svid.id \in {1, 2} /\ call.svid.id = run.identity /\ call.svid.id <= host
        /\ slots.minter = run.held
    BY <1>2, <1>a, Fields, SvidFields
       DEF RenewalInv, CallOfTask, IdentityInv, TaskTime, InForce, Holds, SwapInv, MinterFollows
  <2>b. slots.sealed <= call.svid.id
    BY <2>a DEF RenewalInv, IdentityInv, IdentityBound
  <2>c. calm => call.svid.id = host
    BY <2>a DEF RenewalInv, CalmInv
  <2>1. CASE /\ Renews(call.svid) /\ UNCHANGED refused
             /\ a = Issued(Fresh(call.svid.id)) /\ cmis' = [cmis EXCEPT !.svid = Fresh(call.svid.id)]
    <3>2. /\ a \in AnswersTyped /\ a.kind = "issued" /\ a.svid = Fresh(call.svid.id)
          /\ a.svid # NoSvid /\ a.svid.id = call.svid.id /\ a.svid.exp = TTL - ahead
      BY <2>1, <2>a, <1>e, AnswersAre
    <3>3. cmis' \in [svid : Svids, at : Int] /\ cmis'.at = cmis.at
      BY <2>1, <2>a, <1>d, <1>e
    <3>4. cmis.svid # NoSvid
      BY <2>1 DEF Renews
    <3> QED
      BY <1>b, <1>c, <1>2, <1>d, <2>1, <2>a, <2>b, <2>c, <3>2, <3>3, <3>4, AnswerStep
  <2>2. CASE a = Answer("transient") /\ cmis' = Unheard /\ UNCHANGED refused
    <3>1. a \in AnswersTyped /\ a.kind # "issued" /\ a.svid = NoSvid
      BY <2>2, AnswersAre
    <3> QED
      BY <1>b, <1>c, <1>2, <1>d, <2>2, <3>1, UnheardTyped, AnswerStep
  <2>3. CASE /\ a \in {Answer("reattest"), Answer("transient")} \cup {Limited(r) : r \in RetryAfters}
             /\ refused' = (refused \/ (a.kind = "reattest" /\ faults = 0 /\ Renews(call.svid) /\ ~InWindow))
             /\ UNCHANGED cmis
    <3>1. a \in AnswersTyped /\ a.kind # "issued" /\ a.svid = NoSvid
      BY <2>3, AnswersAre
    <3>2. faults = 0 /\ Renews(call.svid) => InWindow
      <4> SUFFICES ASSUME faults = 0, Renews(call.svid) PROVE InWindow
        OBVIOUS
      <4>1. cmis.svid # NoSvid
        BY DEF Renews
      <4>2. /\ ahead = 0 /\ run.last <= cmis.at + ATTEST_TIMEOUT + AFTER_TIMEOUT
            /\ loop.timer - run.last < REATTEST_WINDOW - ROTATE_WINDOW_MARGIN + ROTATE_TIMEOUT
        BY <4>1, <2>a, <1>a, Fields, Constants DEF RenewalInv, WindowInv, Younger
      <4> QED
        BY <4>2, <1>a, Fields, Constants DEF InWindow, CmisNow, Now
    <3>3. refused' = FALSE
      BY <2>3, <3>2, <1>d
    <3> QED
      BY <1>b, <1>c, <1>2, <1>d, <2>3, <3>1, <3>3, AnswerStep
  <2> QED
    BY <1>2, <2>1, <2>2, <2>3 DEF ServeRotate
<1> QED
  BY <1>c, <1>1, <1>2


LEMMA NoCallTyped ==
    /\ NoCall \in CallsTyped /\ NoCall.kind = "none" /\ NoCall.svid = NoSvid
    /\ NoCall.answer.kind = "none" /\ NoCall.answer.svid = NoSvid
BY NoSvidTyped DEF NoCall, NoAnswer, CallsTyped, AnswersTyped

\* The credentials of an accepted SVID are swapped first.
LEMMA ToInstalling ==
    ASSUME RenewalInv, NEW path \in {"rotate", "attest"},
           loop.pc = (IF path = "rotate" THEN "rotating" ELSE "attesting"),
           call.answer.kind = "issued", ~OtherIdentity(call.answer.svid),
           slots' = [slots EXCEPT !.creds = Credentials(call.answer.svid)],
           loop' = [Asleep(0) EXCEPT !.pc = "installing", !.at = loop.at, !.path = path,
                                     !.cand = call.answer.svid],
           call' = NoCall,
           UNCHANGED <<ahead, host, cmis, late, run, mint, faults, over, off, calm, refused>>
    PROVE  RenewalInv'
<1>a. RenewalTypes
  BY DEF RenewalInv
<1> DEFINE s == call.answer.svid
<1>b. s \in Svids /\ s # NoSvid /\ s.exp \in Int /\ s.id \in {1, 2}
  BY <1>a, Fields, SvidFields DEF RenewalInv, IdentityInv
<1>c. /\ slots' \in [creds : Svids, minter : Svids, cell : Svids, sealed : 0 .. 2]
      /\ slots'.creds = Credentials(s) /\ slots'.minter = slots.minter
      /\ slots'.cell = slots.cell /\ slots'.sealed = slots.sealed
  BY <1>a, <1>b, CredentialsTyped DEF RenewalTypes
<1>d. /\ loop' \in Loops /\ loop'.pc = "installing" /\ loop'.timer = 0 /\ loop'.at = loop.at
      /\ ~loop'.cut /\ loop'.path = path /\ loop'.cand = s
  BY <1>a, <1>b, AtOnce, Fields DEF Loops
<1>e. run.identity \in {0, s.id}
  BY DEF OtherIdentity
<1>f. /\ call' \in CallsTyped /\ call'.kind = "none" /\ call'.svid = NoSvid
      /\ call'.answer.kind = "none" /\ call'.answer.svid = NoSvid
  BY NoCallTyped
<1>h. (InForce <=> InForce') /\ (Holds <=> Holds')
  BY DEF InForce, Holds
<1> HIDE DEF s
<1>1. RenewalTypes' /\ CallOfTask'
  BY <1>a, <1>c, <1>d, <1>f DEF RenewalTypes, CallOfTask
<1>2. SwapInv'
  BY <1>c, <1>d, <1>h DEF RenewalInv, SwapInv, InForceTogether, InSwap, MinterFollows
<1>3. TaskTime'
  BY <1>a, <1>b, <1>d, <1>h, Fields DEF RenewalInv, TaskTime, Leapt
<1>4. IdentityInv'
  <2>1. slots.sealed <= s.id /\ s.id <= host
    BY DEF RenewalInv, IdentityInv, s
  <2>2. Credentials(s).id \in {0, s.id}
    BY <1>b, CredentialsTyped
  <2> QED
    BY <1>a, <1>b, <1>c, <1>d, <1>e, <1>f, <2>1, <2>2, NoSvidTyped, Fields DEF RenewalInv, IdentityInv, IdentityBound
<1>5. OffInv' /\ OverInv'
  BY <1>c, <1>d DEF RenewalInv, OffInv, OverInv
<1>6. WindowInv'
  <2>1. path = "attest" => call.kind = "attest"
    BY DEF RenewalInv, CallOfTask
  <2> QED
    BY <1>a, <1>d, <1>f, <1>h, <2>1, Fields, Constants DEF RenewalInv, WindowInv, WindowRespected
<1>7. FreshInv'
  BY <1>a, <1>b, <1>d, <1>f, Fields, Constants DEF RenewalInv, FreshInv, s
<1>8. CalmInv'
  BY <1>c, <1>d, <1>f DEF RenewalInv, CalmInv, s
<1> QED
  BY <1>1, <1>2, <1>3, <1>4, <1>5, <1>6, <1>7, <1>8 DEF RenewalInv

LEMMA AcceptStep ==
    ASSUME RenewalInv, NEW path \in {"rotate", "attest"},
           loop.pc = (IF path = "rotate" THEN "rotating" ELSE "attesting"),
           call.answer.kind = "issued", Accept(call.answer.svid, loop.at, path), Heard,
           UNCHANGED <<ahead, host, cmis, late, mint, faults, over, refused>>
    PROVE  RenewalInv'
<1>a. RenewalTypes
  BY DEF RenewalInv
<1>b. call' = NoCall /\ late' \in CallsTyped /\ cmis' \in {cmis, Unheard}
  BY <1>a DEF Heard, RenewalTypes
<1>c. loop.at \in Int /\ loop.at <= 0 /\ -Leapt <= loop.at
  BY <1>a, Fields DEF RenewalInv, TaskTime
<1> DEFINE s == call.answer.svid
<1>1. CASE /\ OtherIdentity(s) /\ loop' = Disabling("fatal", loop.at)
           /\ UNCHANGED <<run, slots, off, calm>>
  <2>1. ~calm
    BY <1>1 DEF RenewalInv, CalmInv, SwapInv, MinterFollows, IdentityInv, OtherIdentity
  <2> QED
    BY <1>1, <1>b, <1>c, <2>1, ToDisabling
<1>2. CASE skewed(loop.at) /\ off' = 0 /\ calm' = FALSE /\ UNCHANGED slots
  <2>1. PICK w : BacksOff(loop.at, w)
    BY <1>a, <1>c, <1>2, SkewedBacksOff
  <2> QED
    BY <1>2, <1>b, <2>1, BackOffStep
<1>3. CASE /\ ~OtherIdentity(s)
           /\ slots' = [slots EXCEPT !.creds = Credentials(s)]
           /\ loop' = [Asleep(0) EXCEPT !.pc = "installing", !.at = loop.at, !.path = path, !.cand = s]
           /\ UNCHANGED <<run, off, calm>>
  BY <1>3, <1>b, ToInstalling
<1> QED
  BY <1>1, <1>2, <1>3 DEF Accept

LEMMA AttestAnsweredStep == RenewalInv /\ AttestAnswered => RenewalInv'
<1> SUFFICES ASSUME RenewalInv, AttestAnswered PROVE RenewalInv'
  OBVIOUS
<1>a. RenewalTypes
  BY DEF RenewalInv
<1>b. loop.pc = "attesting" /\ Heard /\ UNCHANGED <<ahead, host, cmis, late, mint, faults, over, refused>>
  BY DEF AttestAnswered
<1>1. CASE call.answer.kind = "issued" /\ Accept(call.answer.svid, loop.at, "attest")
  BY <1>1, <1>b, AcceptStep
<1>2. CASE /\ call.answer.kind = "failed" /\ failed(loop.at, -1)
           /\ off' = 0 /\ calm' = FALSE /\ UNCHANGED slots
  <2>1. PICK w : BacksOff(loop.at, w)
    BY <1>a, <1>2, Fields, FailedBacksOff
  <2>2. call' = NoCall /\ late' \in CallsTyped /\ cmis' \in {cmis, Unheard}
    BY <1>a, <1>b DEF Heard, RenewalTypes
  <2> QED
    BY <1>2, <1>b, <2>1, <2>2, BackOffStep
<1> QED
  BY <1>1, <1>2 DEF AttestAnswered

LEMMA RotateAnsweredStep == RenewalInv /\ RotateAnswered => RenewalInv'
<1> SUFFICES ASSUME RenewalInv, RotateAnswered PROVE RenewalInv'
  OBVIOUS
<1>a. RenewalTypes
  BY DEF RenewalInv
<1>b. loop.pc = "rotating" /\ UNCHANGED <<ahead, host, cmis, late, mint, faults, over, refused>>
  BY DEF RotateAnswered
<1>c. /\ loop.at \in Int /\ loop.at <= 0 /\ -Leapt <= loop.at /\ InForce /\ Holds
      /\ call.answer.after \in Int /\ slots.minter = run.held /\ slots.minter # NoSvid
  BY <1>a, <1>b, Fields DEF RenewalInv, TaskTime, InForce, Holds, SwapInv, MinterFollows
<1>d. late' \in CallsTyped /\ cmis' \in {cmis, Unheard}
  BY <1>a, <1>b DEF RenewalTypes
<1>1. CASE call.answer.kind = "issued" /\ Accept(call.answer.svid, loop.at, "rotate") /\ Heard
  BY <1>1, <1>b, AcceptStep
<1>2. CASE RotateFailed(loop.at) /\ Heard /\ UNCHANGED <<slots, off, calm>>
  <2>1. PICK w : BacksOff(loop.at, w) /\ (loop.at < run.held.exp => w <= RETRY_CAP)
    BY <1>a, <1>c, <1>2, RotateFailedBacksOff
  <2> QED
    BY <1>2, <1>b, <1>d, <2>1, BackOffStep DEF Heard
<1>3. CASE failed(loop.at, call.answer.after) /\ Heard /\ UNCHANGED <<slots, off, calm>>
  <2>1. PICK w : BacksOff(loop.at, w) /\ (loop.at < run.held.exp => w <= RETRY_CAP)
    BY <1>a, <1>c, <1>3, FailedBacksOff
  <2> QED
    BY <1>3, <1>b, <1>d, <2>1, BackOffStep DEF Heard
<1>4. CASE Expired(loop.at) /\ loop' = Disabling("expired", loop.at) /\ Heard /\ UNCHANGED <<run, slots, off, calm>>
  <2>1. run.held.exp <= loop.at
    BY <1>a, <1>4, Fields DEF Expired
  <2>2. ~calm
    BY <1>a, <1>b, <1>c, <2>1, Fields DEF RenewalInv, CalmInv
  <2> QED
    BY <1>4, <1>b, <1>c, <1>d, <2>1, <2>2, ToDisabling DEF Heard
<1>5. CASE ~Expired(loop.at) /\ loop' = Attesting(loop.at, TRUE) /\ Ask("attest") /\ UNCHANGED <<run, slots, off, calm>>
  <2>1. over <= ROTATE_TIMEOUT
    BY <1>a, <1>b, Fields, Constants DEF RenewalInv, OverInv
  <2>2. calm => loop.at = 0 /\ slots.minter.exp > ATTEST_TIMEOUT
    BY <1>a, <1>b, Fields, Constants DEF RenewalInv, CalmInv
  <2>3. TRUE \in BOOLEAN
    OBVIOUS
  <2> QED
    BY <1>5, <1>b, <1>c, <2>1, <2>2, <2>3, ToAttesting
<1> QED
  BY <1>1, <1>2, <1>3, <1>4, <1>5 DEF RotateAnswered

LEMMA HangUpIs ==
    ASSUME RenewalTypes, HangUp
    PROVE  late' \in CallsTyped /\ cmis' \in {cmis, Unheard}
BY DEF HangUp, RenewalTypes

LEMMA CallTimesOutStep == RenewalInv /\ CallTimesOut => RenewalInv'
<1> SUFFICES ASSUME RenewalInv, CallTimesOut PROVE RenewalInv'
  OBVIOUS
<1>a. RenewalTypes
  BY DEF RenewalInv
<1>b. /\ loop.pc \in {"rotating", "attesting"} /\ call' = NoCall /\ late' \in CallsTyped
      /\ cmis' \in {cmis, Unheard}
      /\ UNCHANGED <<ahead, host, slots, mint, faults, over, refused>>
  BY <1>a, HangUpIs DEF CallTimesOut, Heard
<1>c. loop.at \in Int
  BY <1>a, Fields
<1>1. CASE loop.pc = "rotating" /\ RotateFailed(loop.at) /\ UNCHANGED <<off, calm>>
  <2>1. Holds
    BY <1>1 DEF RenewalInv, TaskTime, InForce
  <2>2. PICK w : BacksOff(loop.at, w) /\ (loop.at < run.held.exp => w <= RETRY_CAP)
    BY <1>a, <1>c, <1>1, <2>1, RotateFailedBacksOff
  <2> QED
    BY <1>1, <1>b, <2>2, BackOffStep
<1>2. CASE loop.pc = "attesting" /\ failed(loop.at, -1) /\ off' = 0 /\ calm' = FALSE
  <2>1. PICK w : BacksOff(loop.at, w)
    BY <1>a, <1>c, <1>2, FailedBacksOff
  <2> QED
    BY <1>2, <1>b, <2>1, BackOffStep
<1> QED
  BY <1>1, <1>2 DEF CallTimesOut

LEMMA ExpiresDuringCallStep == RenewalInv /\ ExpiresDuringCall => RenewalInv'
<1> SUFFICES ASSUME RenewalInv, ExpiresDuringCall PROVE RenewalInv'
  OBVIOUS
<1>a. RenewalTypes
  BY DEF RenewalInv
<1>b. /\ loop.pc \in {"rotating", "attesting"} /\ call' = NoCall /\ late' \in CallsTyped
      /\ cmis' \in {cmis, Unheard} /\ loop.timer = 0 /\ loop.cut
      /\ loop' = Disabling("expired", loop.at)
      /\ UNCHANGED <<ahead, host, run, slots, mint, faults, over, off, calm, refused>>
  BY <1>a, HangUpIs DEF ExpiresDuringCall, Heard, ghosts
<1>c. /\ loop.at \in Int /\ loop.at <= 0 /\ -Leapt <= loop.at /\ InForce
      /\ run.held.exp <= loop.at
  BY <1>a, <1>b, Fields DEF RenewalInv, TaskTime
<1>d. ~calm
  BY <1>b DEF RenewalInv, CalmInv
<1> QED
  BY <1>b, <1>c, <1>d, ToDisabling

LEMMA InstallStep == RenewalInv /\ Install => RenewalInv'
<1> SUFFICES ASSUME RenewalInv, Install PROVE RenewalInv'
  OBVIOUS
<1>a. RenewalTypes
  BY DEF RenewalInv
<1> DEFINE s == loop.cand
<1>b. /\ loop.pc = "installing" /\ mint = NoSvid /\ over' = 0 /\ off' = 0
      /\ calm' = (ahead = 0 /\ loop.at = 0 /\ s.id = host)
      /\ UNCHANGED <<ahead, host, cmis, call, late, run, mint, faults, refused>>
  BY DEF Install, Now
<1>c. s \in Svids /\ s # NoSvid /\ s.exp \in Int /\ s.id \in {1, 2}
  BY <1>a, <1>b, Fields, SvidFields DEF RenewalInv, TaskTime
<1>d. PICK sealed \in {s.id, slots.sealed} :
        slots' = [slots EXCEPT !.minter = s, !.cell = s, !.sealed = sealed]
  BY DEF Install
<1>e. /\ slots' \in [creds : Svids, minter : Svids, cell : Svids, sealed : 0 .. 2]
      /\ slots'.creds = slots.creds /\ slots'.minter = s /\ slots'.cell = s
      /\ slots'.sealed \in {s.id, slots.sealed}
  <2>1. sealed \in 0 .. 2 /\ slots \in [creds : Svids, minter : Svids, cell : Svids, sealed : 0 .. 2]
    BY <1>a, <1>c, Fields DEF RenewalTypes
  <2> HIDE DEF s
  <2> QED
    BY <1>c, <1>d, <2>1
<1> DEFINE left == secs(s.exp - loop.at)
           b == Bounded("after", loop.at, AFTER_TIMEOUT, left)
<1>f. left \in Nat
  BY <1>a, <1>c, Fields, SecsIs
<1>g. /\ b \in Loops /\ b.pc = "after" /\ b.timer \in Nat /\ b.timer <= AFTER_TIMEOUT
      /\ b.at = loop.at
  <2> HIDE DEF left
  <2> DEFINE m == IF AFTER_TIMEOUT <= left THEN AFTER_TIMEOUT ELSE left
             c == left <= AFTER_TIMEOUT
  <2>1. m \in Nat /\ m <= AFTER_TIMEOUT /\ c \in BOOLEAN
    BY <1>f, Constants
  <2>2. b = [pc |-> "after", timer |-> m, at |-> loop.at, cut |-> c, path |-> "none",
             then |-> "none", cand |-> NoSvid]
    BY <1>f, Constants, BoundedIs
  <2> HIDE DEF m, c, b
  <2> QED
    BY <1>a, <2>1, <2>2, NoSvidTyped, Fields DEF Loops
<1>h. loop' = [b EXCEPT !.path = loop.path, !.cand = s]
  BY DEF Install
<1> HIDE DEF b, left
<1>i. /\ loop' \in Loops /\ loop'.pc = "after" /\ loop'.timer \in Nat
      /\ loop'.timer <= AFTER_TIMEOUT /\ loop'.at = loop.at /\ loop'.path = loop.path
      /\ loop'.cand = s
  BY <1>a, <1>c, <1>g, <1>h DEF Loops, RenewalTypes
<1>j. (InForce <=> InForce') /\ (Holds <=> Holds')
  BY <1>b DEF InForce, Holds
<1>k. calm' \in BOOLEAN /\ call = NoCall
  BY <1>b DEF RenewalInv, CallOfTask
<1> HIDE DEF s
<1>1. RenewalTypes' /\ CallOfTask'
  BY <1>a, <1>b, <1>e, <1>i, <1>k, NoCallTyped DEF RenewalTypes, CallOfTask
<1>2. SwapInv'
  BY <1>b, <1>e, <1>i, <1>j DEF RenewalInv, SwapInv, InForceTogether, InSwap, MinterFollows, s
<1>3. TaskTime'
  BY <1>a, <1>b, <1>c, <1>i, <1>j, Fields DEF RenewalInv, TaskTime, Leapt
<1>4. IdentityInv'
  <2>1. slots.sealed <= s.id /\ run.identity \in {0, s.id} /\ s.id <= host
    BY <1>b DEF RenewalInv, IdentityInv, s
  <2> QED
    BY <1>a, <1>b, <1>c, <1>e, <1>i, <1>k, <2>1, Fields, NoCallTyped, NoSvidTyped DEF RenewalInv, IdentityInv, IdentityBound
<1>5. OffInv' /\ OverInv'
  BY <1>a, <1>b, <1>c, <1>e, <1>i, Fields, Constants DEF RenewalInv, OffInv, OverInv
<1>6. WindowInv'
  BY <1>a, <1>b, <1>i, <1>j, <1>k, Fields, Constants, NoCallTyped DEF RenewalInv, WindowInv, WindowRespected, Younger
<1>7. FreshInv'
  BY <1>a, <1>b, <1>c, <1>i, <1>k, Fields, Constants, NoCallTyped DEF RenewalInv, FreshInv, s
<1>8. CalmInv'
  <2> SUFFICES ASSUME calm' PROVE CalmInv'
    BY DEF CalmInv
  <2>1. ahead = 0 /\ loop.at = 0 /\ s.id = host
    BY <1>b
  <2>2. s.exp >= TTL - ROTATE_TIMEOUT - ATTEST_TIMEOUT
    BY <1>b, <2>1 DEF RenewalInv, FreshInv, s
  <2>3. s.exp > 0
    BY <1>c, <2>2, Constants
  <2> QED
    BY <1>b, <1>c, <1>e, <1>i, <1>k, <2>1, <2>3, NoCallTyped DEF CalmInv
<1> QED
  BY <1>1, <1>2, <1>3, <1>4, <1>5, <1>6, <1>7, <1>8 DEF RenewalInv

\* A rotation is due well before the expiry.
LEMMA RotationAt ==
    ASSUME NEW s \in Svids, NEW u \in Jitters
    PROVE  rotation_at(s, u) \in Int /\ s.exp - rotation_at(s, u) > ATTEST_TIMEOUT
<1>1. u = 0 \/ u = 1 \/ u = 2 \/ u = 3 \/ u = 4 \/ u = 5 \/ u = 6 \/ u = 7 \/ u = 8 \/ u = 9
  BY ConstantsTyped
<1>2. s.exp \in Int
  BY SvidFields
<1> QED
  BY <1>1, <1>2, Constants DEF rotation_at

LEMMA AcceptedStep == RenewalInv /\ Accepted => RenewalInv'
<1> SUFFICES ASSUME RenewalInv, Accepted PROVE RenewalInv'
  OBVIOUS
<1>a. RenewalTypes
  BY DEF RenewalInv
<1> DEFINE s == loop.cand
<1>b. /\ loop.pc = "after"
      /\ UNCHANGED <<ahead, host, cmis, call, late, slots, mint, faults, over, off, calm, refused>>
  BY DEF Accepted, ghosts
<1>c. s \in Svids /\ s # NoSvid /\ s.exp \in Int /\ s.id \in {1, 2}
  BY <1>a, <1>b, Fields, SvidFields DEF RenewalInv, TaskTime
<1>d. PICK u \in Jitters :
        LET wait == Least(Greatest(secs(rotation_at(s, u) - loop.at), RETRY_BASE), secs(s.exp - loop.at))
        IN /\ run' = [held |-> s, identity |-> s.id, failures |-> 0, rotate_failures |-> 0,
                      disabled |-> FALSE, next_at |-> loop.at + wait,
                      last |-> IF loop.path = "rotate" /\ Holds THEN run.last ELSE loop.at]
           /\ loop' = Asleep(wait)
  BY DEF Accepted
<1> DEFINE w == Least(Greatest(secs(rotation_at(s, u) - loop.at), RETRY_BASE), secs(s.exp - loop.at))
           l == IF loop.path = "rotate" /\ Holds THEN run.last ELSE loop.at
<1>e. /\ rotation_at(s, u) \in Int /\ loop.at \in Int /\ loop.at <= 0
      /\ s.exp - rotation_at(s, u) > ATTEST_TIMEOUT
  BY <1>a, <1>c, Fields, RotationAt DEF RenewalInv, TaskTime
<1>f. /\ w \in Nat
      /\ w <= rotation_at(s, u) - loop.at \/ w <= RETRY_BASE
  <2> DEFINE r == secs(rotation_at(s, u) - loop.at)
             e == secs(s.exp - loop.at)
  <2>1. r \in Nat /\ e \in Nat /\ (r = rotation_at(s, u) - loop.at \/ r = 0)
    BY <1>c, <1>e, SecsIs
  <2> HIDE DEF r, e
  <2> DEFINE g == Greatest(r, RETRY_BASE)
  <2>2. g \in Nat /\ ((g = r /\ g >= RETRY_BASE) \/ g = RETRY_BASE)
    BY <2>1, Constants, GreatestIs
  <2> HIDE DEF g
  <2>3. Least(g, e) \in Nat /\ Least(g, e) <= g
    BY <2>1, <2>2, LeastIs
  <2>4. w = Least(g, e)
    BY DEF g, r, e
  <2> HIDE DEF w
  <2> QED
    BY <2>1, <2>2, <2>3, <2>4, <1>c, <1>e, Constants
<1>g. /\ run' = [held |-> s, identity |-> s.id, failures |-> 0, rotate_failures |-> 0,
                 disabled |-> FALSE, next_at |-> loop.at + w, last |-> l]
      /\ loop' = Asleep(w)
  BY <1>d
<1>h. l \in Int
  BY <1>a, Fields
<1> HIDE DEF w, l
<1>i. /\ run' \in Runs /\ run'.held = s /\ run'.identity = s.id /\ ~run'.disabled
      /\ run'.next_at = loop.at + w /\ run'.last = l
  BY <1>c, <1>e, <1>f, <1>g, <1>h DEF Runs
<1>j. /\ loop' \in Loops /\ loop'.pc = "sleep" /\ loop'.timer \in Nat /\ loop'.timer <= w
      /\ loop'.timer <= MAX_SLEEP /\ loop'.at = 0 /\ ~loop'.cut /\ loop'.cand = NoSvid
      /\ loop'.path = "none"
  BY <1>f, <1>g, AsleepIs DEF Loops
<1>k. call = NoCall /\ slots.minter = s
  BY <1>b DEF RenewalInv, CallOfTask, SwapInv
<1>l. InForce' /\ Holds'
  BY <1>c, <1>i DEF InForce, Holds
<1> HIDE DEF s
<1>1. RenewalTypes' /\ CallOfTask'
  BY <1>a, <1>b, <1>i, <1>j, <1>k, NoCallTyped DEF RenewalTypes, CallOfTask
<1>2. SwapInv'
  BY <1>b, <1>i, <1>j, <1>k, <1>l DEF RenewalInv, SwapInv, InForceTogether, InSwap, MinterFollows
<1>3. TaskTime'
  BY <1>a, <1>b, <1>i, <1>j, <1>l, Fields, LeaptIs DEF RenewalInv, TaskTime, Leapt
<1>4. IdentityInv'
  <2>1. slots.sealed <= s.id /\ run.identity \in {0, s.id} /\ s.id <= host
    BY <1>b DEF RenewalInv, IdentityInv, s
  <2>2. slots.cell = s /\ slots.creds = Credentials(s) /\ Credentials(s).id \in {0, s.id}
    BY <1>b, <1>c, <1>k, CredentialsTyped DEF RenewalInv, SwapInv, InForceTogether, InSwap
  <2> QED
    BY <1>a, <1>b, <1>c, <1>i, <1>j, <1>k, <2>1, <2>2, Fields, NoCallTyped, NoSvidTyped DEF RenewalInv, IdentityInv, IdentityBound
<1>5. OffInv' /\ OverInv'
  BY <1>a, <1>b, <1>c, <1>j, <1>k, Fields, Constants DEF RenewalInv, OffInv, OverInv
<1>6. WindowInv'
  <2>1. l <= 0
    BY <1>e DEF RenewalInv, WindowInv, l
  <2>2. faults = 0 => loop.at = 0
    BY <1>a, <1>e, LeaptIs, Fields DEF RenewalInv, TaskTime
  <2>3. loop.path \in {"none", "rotate", "attest"}
    BY <1>a DEF RenewalTypes, Loops
  <2>4. ASSUME faults = 0, cmis.svid # NoSvid PROVE l <= cmis.at + Younger
    <3>1. CASE loop.path = "rotate" /\ Holds
      BY <2>4, <3>1, <1>b DEF RenewalInv, TaskTime, WindowInv, l
    <3>2. CASE ~(loop.path = "rotate" /\ Holds)
      <4>1. loop.path = "attest"
        BY <1>b, <2>3, <3>2 DEF RenewalInv, TaskTime, InForce
      <4> QED
        BY <2>2, <2>4, <3>2, <4>1, <1>a, <1>b, Fields, Constants DEF RenewalInv, WindowInv, l, Younger
    <3> QED
      BY <3>1, <3>2
  <2> QED
    BY <1>b, <1>i, <1>j, <1>k, <2>1, <2>4, NoCallTyped DEF RenewalInv, WindowInv, WindowRespected
<1>7. FreshInv'
  BY <1>b, <1>j, <1>k, NoCallTyped DEF FreshInv
<1>8. CalmInv'
  <2> SUFFICES ASSUME calm PROVE CalmInv'
    BY <1>b DEF CalmInv
  <2>1. ahead = 0 /\ loop.at = 0 /\ s.exp > 0 /\ s.id = host
    BY <1>b, <1>k DEF RenewalInv, CalmInv
  <2>2. s.exp - loop.timer >= TTL - ROTATE_TIMEOUT - ATTEST_TIMEOUT - AFTER_TIMEOUT
    BY <1>b, <2>1 DEF RenewalInv, FreshInv, s
  <2>3. s.exp - RETRY_BASE > ATTEST_TIMEOUT
    BY <1>a, <1>c, <2>2, Fields, Constants
  <2>4. s.exp - w > ATTEST_TIMEOUT
    BY <1>c, <1>e, <1>f, <2>1, <2>3, Constants
  <2> QED
    BY <1>b, <1>c, <1>f, <1>i, <1>j, <1>k, <2>1, <2>4, NoCallTyped, Constants DEF CalmInv
<1> QED
  BY <1>1, <1>2, <1>3, <1>4, <1>5, <1>6, <1>7, <1>8 DEF RenewalInv

LEMMA AllOutIs ==
    ASSUME RenewalTypes, slots' = AllOut
    PROVE  /\ slots' \in [creds : Svids, minter : Svids, cell : Svids, sealed : 0 .. 2]
           /\ slots'.creds = NoSvid /\ slots'.minter = NoSvid /\ slots'.cell = NoSvid
           /\ slots'.sealed = slots.sealed
BY NoSvidTyped DEF AllOut, RenewalTypes

LEMMA DisableStep == RenewalInv /\ Disable => RenewalInv'
<1> SUFFICES ASSUME RenewalInv, Disable PROVE RenewalInv'
  OBVIOUS
<1>a. RenewalTypes
  BY DEF RenewalInv
<1>b. /\ loop.pc = "disabling" /\ mint = NoSvid /\ slots' = AllOut /\ over' = 0
      /\ UNCHANGED <<ahead, host, cmis, late, mint, faults, off, calm, refused>>
  BY DEF Disable
<1>c. /\ slots' \in [creds : Svids, minter : Svids, cell : Svids, sealed : 0 .. 2]
      /\ slots'.creds = NoSvid /\ slots'.minter = NoSvid /\ slots'.cell = NoSvid
      /\ slots'.sealed = slots.sealed
  BY <1>a, <1>b, AllOutIs
<1>d. ~calm /\ call = NoCall /\ run \in Runs /\ loop.at \in Int /\ loop.at <= 0 /\ -Leapt <= loop.at
  BY <1>a, <1>b, Fields DEF RenewalInv, CalmInv, CallOfTask, RenewalTypes, TaskTime
<1>e. Credentials(NoSvid) = NoSvid
  BY NoSvidTyped, CredentialsTyped
<1>1. CASE /\ loop.then = "attest" /\ run' = [run EXCEPT !.disabled = TRUE]
           /\ loop' = Attesting(loop.at, FALSE) /\ Ask("attest")
  <2>a. InForce /\ Holds /\ run.held.exp <= loop.at /\ slots.minter # NoSvid /\ off = 0
    BY <1>1, <1>b DEF RenewalInv, TaskTime, SwapInv, MinterFollows, InForce, Holds, OffInv
  <2>b. /\ run' \in Runs /\ run'.held = run.held /\ run'.last = run.last
        /\ run'.identity = run.identity /\ run'.disabled /\ run'.next_at = run.next_at
    BY <1>1, <1>d DEF Runs
  <2>c. /\ loop' \in Loops /\ loop'.pc = "attesting" /\ loop'.at = loop.at /\ loop'.timer \in Nat
        /\ loop'.timer <= ATTEST_TIMEOUT /\ loop'.path = "none" /\ loop'.cand = NoSvid
        /\ ~loop'.cut
    BY <1>a, <1>d, <1>1, AttestingIs
  <2>d. /\ call' \in CallsTyped /\ call'.kind = "attest" /\ call'.svid = NoSvid
        /\ call'.answer.kind = "none" /\ call'.answer.svid = NoSvid
    BY <1>a, <1>1, AskIs
  <2>e. Holds' /\ ~InForce'
    BY <2>a, <2>b DEF InForce, Holds
  <2>1. RenewalTypes' /\ CallOfTask'
    BY <1>a, <1>b, <1>c, <2>b, <2>c, <2>d DEF RenewalTypes, CallOfTask
  <2>2. SwapInv'
    BY <1>b, <1>c, <1>e, <2>c, <2>e DEF SwapInv, InForceTogether, InSwap, MinterFollows
  <2>3. TaskTime'
    BY <1>a, <1>b, <1>d, <2>a, <2>b, <2>c, <2>e, Fields DEF TaskTime, Leapt
  <2>4. IdentityInv'
    BY <1>a, <1>b, <1>c, <2>b, <2>c, <2>d, NoSvidTyped, Fields DEF RenewalInv, IdentityInv, IdentityBound
  <2>5. OffInv' /\ OverInv'
    BY <1>b, <1>c, <2>a, <2>c, Constants DEF OffInv, OverInv
  <2>6. WindowInv' /\ FreshInv' /\ CalmInv'
    BY <1>b, <1>d, <2>b, <2>c, <2>d, <2>e DEF RenewalInv, WindowInv, WindowRespected, FreshInv, CalmInv
  <2> QED
    BY <2>1, <2>2, <2>3, <2>4, <2>5, <2>6 DEF RenewalInv
<1>2. CASE /\ loop.then = "expired"
           /\ \E u \in Jitters :
              /\ run' = [run EXCEPT !.disabled = TRUE, !.failures = Least(@ + 1, MaxFailures),
                                    !.next_at = run.held.exp + reattest_wait(u)]
              /\ loop' = Asleep(reattest_wait(u))
           /\ UNCHANGED call
  <2>a. InForce /\ Holds /\ run.held.exp <= loop.at /\ slots.minter # NoSvid /\ off = 0
    BY <1>2, <1>b DEF RenewalInv, TaskTime, SwapInv, MinterFollows, InForce, Holds, OffInv
  <2> DEFINE f == Least(run.failures + 1, MaxFailures)
  <2>f. PICK u \in Jitters :
          /\ run' = [run EXCEPT !.disabled = TRUE, !.failures = f,
                                !.next_at = run.held.exp + reattest_wait(u)]
          /\ loop' = Asleep(reattest_wait(u))
    BY <1>2
  <2> DEFINE w == reattest_wait(u)
  <2>g. f \in Nat /\ w \in Nat /\ w <= IntervalBound /\ run.held.exp + w \in Int
    <3>1. run.failures \in Nat /\ MaxFailures \in Nat /\ run.held.exp \in Int
      BY <1>a, RunFields, ConstantsTyped
    <3> QED
      BY <3>1, LeastIs, ReattestWait
  <2>h. /\ run' = [run EXCEPT !.disabled = TRUE, !.failures = f, !.next_at = run.held.exp + w]
        /\ loop' = Asleep(w)
    BY <2>f
  <2> HIDE DEF f, w
  <2>b. /\ run' \in Runs /\ run'.held = run.held /\ run'.last = run.last
        /\ run'.identity = run.identity /\ run'.disabled /\ run'.next_at = run.held.exp + w
    BY <2>g, <2>h, <1>d DEF Runs
  <2>c. /\ loop' \in Loops /\ loop'.pc = "sleep" /\ loop'.timer \in Nat /\ loop'.timer <= w
        /\ loop'.timer <= MAX_SLEEP /\ loop'.at = 0 /\ ~loop'.cut /\ loop'.cand = NoSvid
        /\ loop'.path = "none"
    BY <2>g, <2>h, AsleepIs DEF Loops
  <2>d. /\ call' \in CallsTyped /\ call'.kind = "none" /\ call'.svid = NoSvid /\ call' = NoCall
        /\ call'.answer.kind = "none" /\ call'.answer.svid = NoSvid
    BY <1>d, <1>2, NoCallTyped
  <2>e. Holds' /\ ~InForce'
    BY <2>a, <2>b DEF InForce, Holds
  <2>1. RenewalTypes' /\ CallOfTask'
    BY <1>a, <1>b, <1>c, <2>b, <2>c, <2>d DEF RenewalTypes, CallOfTask
  <2>2. SwapInv'
    BY <1>b, <1>c, <1>e, <2>c, <2>e DEF SwapInv, InForceTogether, InSwap, MinterFollows
  <2>3. TaskTime'
    BY <1>a, <1>b, <1>d, <2>a, <2>b, <2>c, <2>e, Fields, LeaptIs DEF TaskTime, Leapt
  <2>4. IdentityInv'
    BY <1>a, <1>b, <1>c, <2>b, <2>c, <2>d, NoSvidTyped, Fields DEF RenewalInv, IdentityInv, IdentityBound
  <2>5. OffInv' /\ OverInv'
    BY <1>a, <1>b, <1>c, <1>d, <2>a, <2>b, <2>c, <2>g, Fields, Constants DEF OffInv, OverInv
  <2>6. WindowInv' /\ FreshInv' /\ CalmInv'
    BY <1>b, <1>d, <2>b, <2>c, <2>d, <2>e DEF RenewalInv, WindowInv, WindowRespected, FreshInv, CalmInv
  <2> QED
    BY <2>1, <2>2, <2>3, <2>4, <2>5, <2>6 DEF RenewalInv
<1>3. CASE /\ run' = [run EXCEPT !.disabled = TRUE]
           /\ loop' = [Asleep(0) EXCEPT !.pc = "stopped"] /\ UNCHANGED call
  <2>b. /\ run' \in Runs /\ run'.held = run.held /\ run'.last = run.last
        /\ run'.identity = run.identity /\ run'.disabled /\ run'.next_at = run.next_at
    BY <1>3, <1>d DEF Runs
  <2>c. /\ loop' \in Loops /\ loop'.pc = "stopped" /\ loop'.timer = 0 /\ loop'.at = 0
        /\ ~loop'.cut /\ loop'.cand = NoSvid /\ loop'.path = "none"
    BY <1>3, AtOnce DEF Loops
  <2>d. /\ call' \in CallsTyped /\ call'.kind = "none" /\ call'.svid = NoSvid /\ call' = NoCall
        /\ call'.answer.kind = "none" /\ call'.answer.svid = NoSvid
    BY <1>d, <1>3, NoCallTyped
  <2>e. ~InForce'
    BY <2>b DEF InForce
  <2>1. RenewalTypes' /\ CallOfTask'
    BY <1>a, <1>b, <1>c, <2>b, <2>c, <2>d DEF RenewalTypes, CallOfTask
  <2>2. SwapInv'
    BY <1>b, <1>c, <1>e, <2>c, <2>e DEF SwapInv, InForceTogether, InSwap, MinterFollows
  <2>3. TaskTime'
    BY <1>a, <1>b, <2>b, <2>c, <2>e, Fields, LeaptIs DEF TaskTime, Leapt
  <2>4. IdentityInv'
    BY <1>a, <1>b, <1>c, <2>b, <2>c, <2>d, NoSvidTyped, Fields DEF RenewalInv, IdentityInv, IdentityBound
  <2>5. OffInv' /\ OverInv'
    BY <1>a, <1>b, <1>c, <2>c, Fields, Constants DEF RenewalInv, OffInv, OverInv
  <2>6. WindowInv' /\ FreshInv' /\ CalmInv'
    BY <1>b, <1>d, <2>b, <2>c, <2>d, <2>e DEF RenewalInv, WindowInv, WindowRespected, FreshInv, CalmInv
  <2> QED
    BY <2>1, <2>2, <2>3, <2>4, <2>5, <2>6 DEF RenewalInv
<1> QED
  BY <1>1, <1>2, <1>3 DEF Disable

\* A fault is counted.
LEMMA FaultIs ==
    ASSUME RenewalTypes, Fault
    PROVE  /\ faults' \in 0 .. MaxFaults /\ faults' # 0
           /\ Leapt' \in Nat /\ Leapt' = Leapt + Jump /\ -Leapt' <= 0
<1>1. faults \in Nat /\ faults' = faults + 1 /\ faults' <= MaxFaults /\ MaxFaults \in Nat /\ Jump \in Nat
  BY Fields, Constants DEF Fault
<1>2. (faults + 1) * Jump = faults * Jump + Jump
  BY <1>1
<1>3. faults * Jump \in Nat
  BY <1>1
<1>4. faults' \in 0 .. MaxFaults /\ faults' # 0
  BY <1>1
<1>5. Leapt' = Leapt + Jump /\ Leapt \in Nat
  BY <1>1, <1>2, <1>3 DEF Leapt
<1> QED
  BY <1>1, <1>4, <1>5

LEMMA PanicStep == RenewalInv /\ Panic => RenewalInv'
<1> SUFFICES ASSUME RenewalInv, Panic PROVE RenewalInv'
  OBVIOUS
<1>a. RenewalTypes
  BY DEF RenewalInv
<1>b. /\ loop.pc \in {"rotating", "attesting", "installing", "disabling", "after"}
      /\ call' = NoCall /\ calm' = FALSE
      /\ UNCHANGED <<ahead, host, run, slots, mint, over, off, refused>>
  BY DEF Panic, Heard
<1>c. late' \in CallsTyped /\ cmis' \in {cmis, Unheard} /\ cmis' \in [svid : Svids, at : Int]
  BY <1>a, HangUpIs, UnheardTyped DEF Panic, RenewalTypes
<1>d. faults' \in 0 .. MaxFaults /\ faults' # 0 /\ -Leapt' <= 0
  BY <1>a, FaultIs DEF Panic
<1>e. /\ loop' \in Loops /\ loop'.pc = "dead" /\ loop'.timer = 0 /\ loop'.at = 0
      /\ ~loop'.cut /\ loop'.cand = NoSvid /\ loop'.path = "none"
  BY AtOnce DEF Panic, Loops
<1>f. /\ call' \in CallsTyped /\ call'.kind = "none" /\ call'.svid = NoSvid
      /\ call'.answer.kind = "none" /\ call'.answer.svid = NoSvid
  BY <1>b, NoCallTyped
<1>g. (InForce <=> InForce') /\ (Holds <=> Holds')
  BY <1>b DEF InForce, Holds
<1>1. RenewalTypes' /\ CallOfTask'
  BY <1>a, <1>b, <1>c, <1>d, <1>e, <1>f DEF RenewalTypes, CallOfTask
<1>2. SwapInv'
  BY <1>b, <1>e DEF RenewalInv, SwapInv, InForceTogether, InSwap, MinterFollows
<1>3. TaskTime'
  <2>1. loop'.at <= 0 /\ -Leapt' <= loop'.at
    BY <1>d, <1>e
  <2> QED
    BY <1>b, <1>e, <1>g, <2>1 DEF RenewalInv, TaskTime
<1>4. IdentityInv'
  BY <1>a, <1>b, <1>e, <1>f, NoSvidTyped, Fields DEF RenewalInv, IdentityInv, IdentityBound
<1>5. OffInv' /\ OverInv'
  BY <1>b, <1>e DEF RenewalInv, OffInv, OverInv
<1>6. WindowInv' /\ FreshInv' /\ CalmInv'
  BY <1>b, <1>d, <1>e, <1>f DEF RenewalInv, WindowInv, WindowRespected, FreshInv, CalmInv
<1> QED
  BY <1>1, <1>2, <1>3, <1>4, <1>5, <1>6 DEF RenewalInv

LEMMA SupervisorStep == RenewalInv /\ SupervisorDisables => RenewalInv'
<1> SUFFICES ASSUME RenewalInv, SupervisorDisables PROVE RenewalInv'
  OBVIOUS
<1>a. RenewalTypes
  BY DEF RenewalInv
<1>b. /\ loop.pc = "dead" /\ mint = NoSvid /\ slots' = AllOut /\ over' = 0
      /\ UNCHANGED <<ahead, host, cmis, call, late, run, mint, faults, off, calm, refused>>
  BY DEF SupervisorDisables
<1>c. /\ slots' \in [creds : Svids, minter : Svids, cell : Svids, sealed : 0 .. 2]
      /\ slots'.creds = NoSvid /\ slots'.minter = NoSvid /\ slots'.cell = NoSvid
      /\ slots'.sealed = slots.sealed
  BY <1>a, <1>b, AllOutIs
<1>d. ~calm /\ call = NoCall
  BY <1>b DEF RenewalInv, CalmInv, CallOfTask
<1>e. /\ loop' \in Loops /\ loop'.pc = "stopped" /\ loop'.timer = 0 /\ loop'.at = 0
      /\ ~loop'.cut /\ loop'.cand = NoSvid /\ loop'.path = "none"
  BY AtOnce DEF SupervisorDisables, Loops
<1>f. Credentials(NoSvid) = NoSvid
  BY NoSvidTyped, CredentialsTyped
<1>g. (InForce <=> InForce') /\ (Holds <=> Holds')
  BY <1>b DEF InForce, Holds
<1>1. RenewalTypes' /\ CallOfTask'
  BY <1>a, <1>b, <1>c, <1>d, <1>e, NoCallTyped DEF RenewalTypes, CallOfTask
<1>2. SwapInv'
  BY <1>b, <1>c, <1>e, <1>f DEF SwapInv, InForceTogether, InSwap, MinterFollows
<1>3. TaskTime'
  BY <1>a, <1>b, <1>e, <1>g, LeaptIs DEF RenewalInv, TaskTime, Leapt
<1>4. IdentityInv'
  BY <1>a, <1>b, <1>c, <1>e, NoSvidTyped, Fields DEF RenewalInv, IdentityInv, IdentityBound
<1>5. OffInv' /\ OverInv'
  BY <1>a, <1>b, <1>c, <1>e, Fields, Constants DEF RenewalInv, OffInv, OverInv
<1>6. WindowInv' /\ FreshInv' /\ CalmInv'
  BY <1>b, <1>d, <1>e, <1>g, NoCallTyped DEF RenewalInv, WindowInv, WindowRespected, FreshInv, CalmInv
<1> QED
  BY <1>1, <1>2, <1>3, <1>4, <1>5, <1>6 DEF RenewalInv

LEMMA ReenrolStep == RenewalInv /\ Reenrol => RenewalInv'
<1> SUFFICES ASSUME RenewalInv, Reenrol PROVE RenewalInv'
  OBVIOUS
<1>a. RenewalTypes
  BY DEF RenewalInv
<1>b. /\ host = 1 /\ host' = 2 /\ calm' = FALSE
      /\ UNCHANGED <<ahead, cmis, call, late, run, loop, slots, mint, over, off, refused>>
  BY DEF Reenrol
<1>d. faults' \in 0 .. MaxFaults /\ faults' # 0 /\ Leapt' \in Nat /\ Leapt' = Leapt + Jump
  BY <1>a, FaultIs DEF Reenrol
<1>g. (InForce <=> InForce') /\ (Holds <=> Holds')
  BY <1>b DEF InForce, Holds
<1>1. RenewalTypes' /\ CallOfTask'
  BY <1>a, <1>b, <1>d DEF RenewalInv, RenewalTypes, CallOfTask
<1>2. SwapInv'
  BY <1>b, <1>g DEF RenewalInv, SwapInv, InForceTogether, InSwap, MinterFollows
<1>3. TaskTime'
  BY <1>a, <1>b, <1>d, <1>g, LeaptIs, Constants, Fields DEF RenewalInv, TaskTime
<1>4. IdentityInv'
  BY <1>a, <1>b, Fields DEF RenewalInv, IdentityInv, IdentityBound
<1>5. OffInv' /\ OverInv'
  BY <1>b DEF RenewalInv, OffInv, OverInv
<1>6. WindowInv' /\ FreshInv' /\ CalmInv'
  BY <1>b, <1>d DEF RenewalInv, WindowInv, WindowRespected, FreshInv, CalmInv
<1> QED
  BY <1>1, <1>2, <1>3, <1>4, <1>5, <1>6 DEF RenewalInv

\* The agent starts with nothing but an attestation.
LEMMA StartingIs ==
    /\ Starting \in Loops /\ Starting.pc = "starting" /\ Starting.timer = ATTEST_TIMEOUT
    /\ Starting.at = 0 /\ ~Starting.cut /\ Starting.cand = NoSvid /\ Starting.path = "none"
<1> DEFINE b == Bounded("starting", Now, ATTEST_TIMEOUT, ATTEST_TIMEOUT)
<1>1. b = [pc |-> "starting", timer |-> ATTEST_TIMEOUT, at |-> 0, cut |-> TRUE, path |-> "none",
           then |-> "none", cand |-> NoSvid]
  <2>1. ATTEST_TIMEOUT \in Nat /\ ATTEST_TIMEOUT <= ATTEST_TIMEOUT
    BY Constants
  <2> QED
    BY <2>1, BoundedIs DEF Now
<1>2. Starting = [b EXCEPT !.cut = FALSE]
  BY DEF Starting
<1> HIDE DEF b
<1>3. /\ b \in Loops /\ b.pc = "starting" /\ b.timer = ATTEST_TIMEOUT /\ b.at = 0
      /\ b.cand = NoSvid /\ b.path = "none"
  BY <1>1, NoSvidTyped, Constants DEF Loops
<1> QED
  BY <1>2, <1>3 DEF Loops

LEMMA NothingIs ==
    ASSUME NEW t \in Int
    PROVE  /\ Nothing(t) \in Runs /\ Nothing(t).held = NoSvid /\ Nothing(t).last = 0
           /\ Nothing(t).identity = 0 /\ ~Nothing(t).disabled /\ Nothing(t).next_at = t
BY NoSvidTyped DEF Nothing, Runs

LEMMA FirstCall ==
    ASSUME call' = [NoCall EXCEPT !.kind = "attest"]
    PROVE  /\ call' \in CallsTyped /\ call'.kind = "attest" /\ call'.svid = NoSvid
           /\ call'.answer.kind = "none" /\ call'.answer.svid = NoSvid
BY NoSvidTyped DEF NoCall, NoAnswer, CallsTyped, AnswersTyped

LEMMA StartStep == RenewalInv /\ Start => RenewalInv'
<1> SUFFICES ASSUME RenewalInv, Start PROVE RenewalInv'
  OBVIOUS
<1>a. RenewalTypes
  BY DEF RenewalInv
<1>b. /\ loop.pc = "starting" /\ call' = NoCall /\ off' = 0 /\ over' = 0
      /\ UNCHANGED <<ahead, host, mint, faults, refused>>
  BY DEF Start, Heard
<1>c. /\ loop' \in Loops /\ loop'.pc = "sleep" /\ loop'.timer = 0 /\ loop'.at = 0
      /\ ~loop'.cut /\ loop'.cand = NoSvid /\ loop'.path = "none"
  BY AtOnce DEF Start
<1>d. ~Holds /\ mint = NoSvid /\ ~calm /\ slots.minter = NoSvid /\ call.kind = "attest"
  BY <1>b DEF RenewalInv, SwapInv, CalmInv, MinterFollows, InForce, CallOfTask
<1>e. /\ call' \in CallsTyped /\ call'.kind = "none" /\ call'.svid = NoSvid
      /\ call'.answer.kind = "none" /\ call'.answer.svid = NoSvid
  BY <1>b, NoCallTyped
<1>1. ASSUME call.answer.kind = "issued",
             NEW u \in Jitters,
             run' = [Nothing(rotation_at(call.answer.svid, u)) EXCEPT
                       !.held = call.answer.svid, !.last = Now, !.identity = call.answer.svid.id],
             NEW sealed \in {call.answer.svid.id, slots.sealed},
             slots' = [creds |-> Credentials(call.answer.svid), minter |-> call.answer.svid,
                       cell |-> call.answer.svid, sealed |-> sealed],
             calm' = (ahead = 0 /\ loop.at = Now /\ call.answer.svid.id = host),
             UNCHANGED <<cmis, late>>
      PROVE  RenewalInv'
  <2> DEFINE s == call.answer.svid
             at == rotation_at(s, u)
  <2>a. s \in Svids /\ s # NoSvid /\ s.exp \in Int /\ s.id \in {1, 2}
    BY <1>a, <1>1, Fields, SvidFields DEF RenewalInv, IdentityInv
  <2>b. at \in Int /\ s.exp - at > ATTEST_TIMEOUT
    BY <2>a, RotationAt
  <2>c. slots.sealed <= s.id /\ s.id <= host
    BY <1>1 DEF RenewalInv, IdentityInv
  <2>d. /\ run' = [Nothing(at) EXCEPT !.held = s, !.last = 0, !.identity = s.id]
        /\ slots' = [creds |-> Credentials(s), minter |-> s, cell |-> s, sealed |-> sealed]
        /\ calm' = (ahead = 0 /\ loop.at = 0 /\ s.id = host)
        /\ sealed \in {s.id, slots.sealed}
    BY <1>1 DEF Now
  <2>e. Credentials(s) \in Svids /\ Credentials(s).id \in {0, s.id}
    BY <2>a, CredentialsTyped
  <2>f. faults = 0 /\ cmis.svid # NoSvid => loop.timer - cmis.at <= ATTEST_TIMEOUT
    BY <1>1, <1>d DEF RenewalInv, WindowInv
  <2>g. ahead = 0 /\ loop.at = 0 => s.exp - loop.timer >= TTL - ROTATE_TIMEOUT - ATTEST_TIMEOUT
    BY <1>1 DEF RenewalInv, FreshInv
  <2> HIDE DEF s, at
  <2>h. /\ run' \in Runs /\ run'.held = s /\ run'.last = 0 /\ run'.identity = s.id
        /\ ~run'.disabled /\ run'.next_at = at
    <3> DEFINE n == Nothing(at)
    <3>1. n \in Runs /\ ~n.disabled /\ n.next_at = at
      BY <2>b, NothingIs
    <3>2. run' = [n EXCEPT !.held = s, !.last = 0, !.identity = s.id]
      BY <2>d
    <3> DEFINE i == s.id
    <3>3. i \in 0 .. 2 /\ s \in Svids /\ run' = [n EXCEPT !.held = s, !.last = 0, !.identity = i]
      BY <2>a, <3>2
    <3> HIDE DEF n, i
    <3>4. run' \in Runs
      <4>1. run' = [[[n EXCEPT !.held = s] EXCEPT !.last = 0] EXCEPT !.identity = i]
        BY <3>1, <3>3 DEF Runs
      <4>2. [n EXCEPT !.held = s] \in Runs
        BY <3>1, <3>3 DEF Runs
      <4>3. ASSUME NEW r \in Runs PROVE [r EXCEPT !.last = 0] \in Runs /\ [r EXCEPT !.identity = i] \in Runs
        BY <3>3 DEF Runs
      <4> QED
        BY <4>1, <4>2, <4>3
    <3>5. /\ run'.held = s /\ run'.last = 0 /\ run'.identity = i
          /\ run'.disabled = n.disabled /\ run'.next_at = at
      BY <3>1, <3>3 DEF Runs
    <3> QED
      BY <3>1, <3>4, <3>5 DEF i
  <2>i. /\ slots' \in [creds : Svids, minter : Svids, cell : Svids, sealed : 0 .. 2]
        /\ slots'.creds = Credentials(s) /\ slots'.minter = s /\ slots'.cell = s
        /\ slots'.sealed <= s.id
    BY <1>a, <2>a, <2>c, <2>d, <2>e, Fields
  <2>j. InForce' /\ Holds'
    BY <2>a, <2>h DEF InForce, Holds
  <2>k. calm' \in BOOLEAN /\ cmis' = cmis /\ late' = late
    BY <1>1
  <2>1. RenewalTypes' /\ CallOfTask'
    BY <1>a, <1>b, <1>c, <1>e, <2>h, <2>i, <2>k DEF RenewalTypes, CallOfTask
  <2>2. SwapInv'
    BY <1>b, <1>c, <1>d, <2>h, <2>i, <2>j DEF SwapInv, InForceTogether, InSwap, MinterFollows
  <2>3. TaskTime'
    BY <1>a, <1>b, <1>c, <2>h, LeaptIs DEF TaskTime, Leapt
  <2>4. IdentityInv'
    BY <1>a, <1>b, <1>c, <1>e, <2>a, <2>c, <2>e, <2>h, <2>i, NoSvidTyped, Fields
       DEF IdentityInv, IdentityBound
  <2>5. OffInv' /\ OverInv'
    BY <1>b, <1>c, <2>a, <2>i, Constants DEF OffInv, OverInv
  <2>6. WindowInv'
    BY <1>a, <1>b, <1>c, <1>e, <2>f, <2>h, <2>k, Fields, Constants
       DEF RenewalInv, WindowInv, WindowRespected, Younger
  <2>7. FreshInv'
    BY <1>c, <1>e DEF FreshInv
  <2>8. CalmInv'
    <3> SUFFICES ASSUME calm' PROVE CalmInv'
      BY DEF CalmInv
    <3>0. ahead = 0 /\ loop.at = 0 /\ s.id = host
      BY <2>d
    <3>1. ahead = 0 /\ s.id = host /\ s.exp > ATTEST_TIMEOUT
      BY <1>a, <2>a, <2>g, <3>0, Fields, Constants
    <3> QED
      BY <1>b, <1>c, <1>e, <2>a, <2>b, <2>h, <2>i, <3>1, Constants DEF CalmInv
  <2> QED
    BY <2>1, <2>2, <2>3, <2>4, <2>5, <2>6, <2>7, <2>8 DEF RenewalInv
<1>2. CASE run' = Nothing(Now + REATTEST_INTERVAL) /\ HangUp /\ UNCHANGED <<slots, calm>>
  <2>a. /\ run' \in Runs /\ run'.held = NoSvid /\ run'.last = 0 /\ run'.identity = 0
        /\ ~run'.disabled /\ run'.next_at = REATTEST_INTERVAL
    <3>1. Now + REATTEST_INTERVAL = REATTEST_INTERVAL /\ REATTEST_INTERVAL \in Int
      BY Constants DEF Now
    <3> QED
      BY <1>2, <3>1, NothingIs
  <2>b. late' \in CallsTyped /\ cmis' \in {cmis, Unheard} /\ cmis' \in [svid : Svids, at : Int]
    BY <1>a, <1>2, HangUpIs, UnheardTyped DEF RenewalTypes
  <2>c. ~InForce' /\ ~Holds'
    BY <2>a DEF InForce, Holds
  <2>d. slots.cell = slots.minter /\ slots.creds = Credentials(slots.minter)
    BY <1>b DEF RenewalInv, SwapInv, InForceTogether, InSwap
  <2>1. RenewalTypes' /\ CallOfTask'
    BY <1>a, <1>b, <1>c, <1>2, <1>e, <2>a, <2>b DEF RenewalTypes, CallOfTask
  <2>2. SwapInv'
    BY <1>b, <1>c, <1>d, <1>2, <2>a, <2>c, <2>d DEF SwapInv, InForceTogether, InSwap, MinterFollows
  <2>3. TaskTime'
    BY <1>a, <1>b, <1>c, <2>a, LeaptIs DEF TaskTime, Leapt
  <2>4. IdentityInv'
    BY <1>a, <1>b, <1>c, <1>2, <1>e, <2>a, NoSvidTyped, Fields DEF RenewalInv, IdentityInv, IdentityBound
  <2>5. OffInv' /\ OverInv'
    BY <1>b, <1>c, <1>d, <1>2, <2>a, Constants DEF OffInv, OverInv
  <2>6. WindowInv' /\ FreshInv' /\ CalmInv'
    BY <1>b, <1>c, <1>d, <1>2, <1>e, <2>a, <2>c DEF RenewalInv, WindowInv, WindowRespected, FreshInv, CalmInv
  <2> QED
    BY <2>1, <2>2, <2>3, <2>4, <2>5, <2>6 DEF RenewalInv
<1> QED
  BY <1>1, <1>2 DEF Start

LEMMA AgentRestartsStep == RenewalInv /\ AgentRestarts => RenewalInv'
<1> SUFFICES ASSUME RenewalInv, AgentRestarts PROVE RenewalInv'
  OBVIOUS
<1>a. RenewalTypes
  BY DEF RenewalInv
<1>b. /\ slots' = AllOut /\ mint' = NoSvid /\ over' = 0 /\ off' = 0 /\ calm' = FALSE
      /\ UNCHANGED <<ahead, host, refused>>
  BY DEF AgentRestarts
<1>c. /\ loop' \in Loops /\ loop'.pc = "starting" /\ loop'.timer = ATTEST_TIMEOUT
      /\ loop'.at = 0 /\ ~loop'.cut /\ loop'.cand = NoSvid /\ loop'.path = "none"
  BY StartingIs DEF AgentRestarts
<1>d. /\ run' \in Runs /\ run'.held = NoSvid /\ run'.last = 0 /\ run'.identity = 0
      /\ ~run'.disabled /\ run'.next_at = 0
  BY NothingIs DEF AgentRestarts
<1>e. /\ call' \in CallsTyped /\ call'.kind = "attest" /\ call'.svid = NoSvid
      /\ call'.answer.kind = "none" /\ call'.answer.svid = NoSvid
  BY FirstCall DEF AgentRestarts
<1>f. late' \in CallsTyped /\ cmis' \in {cmis, Unheard} /\ cmis' \in [svid : Svids, at : Int]
  BY <1>a, HangUpIs, UnheardTyped DEF AgentRestarts, RenewalTypes
<1>g. /\ slots' \in [creds : Svids, minter : Svids, cell : Svids, sealed : 0 .. 2]
      /\ slots'.creds = NoSvid /\ slots'.minter = NoSvid /\ slots'.cell = NoSvid
      /\ slots'.sealed = slots.sealed
  BY <1>a, <1>b, AllOutIs
<1>h. faults' \in 0 .. MaxFaults /\ (faults' = 0 => faults = 0) /\ -Leapt' <= 0
  <2>1. CASE UNCHANGED faults
    BY <1>a, <2>1, LeaptIs DEF Leapt, RenewalTypes
  <2>2. CASE Fault
    BY <1>a, <2>2, FaultIs
  <2> QED
    BY <2>1, <2>2 DEF AgentRestarts
<1>i. ~InForce' /\ ~Holds' /\ Credentials(NoSvid) = NoSvid
  BY <1>d, NoSvidTyped, CredentialsTyped DEF InForce, Holds
<1>1. RenewalTypes' /\ CallOfTask'
  BY <1>a, <1>b, <1>c, <1>d, <1>e, <1>f, <1>g, <1>h, NoSvidTyped DEF RenewalTypes, CallOfTask
<1>2. SwapInv'
  BY <1>b, <1>c, <1>g, <1>i DEF SwapInv, InForceTogether, InSwap, MinterFollows
<1>3. TaskTime'
  BY <1>c, <1>d, <1>h, <1>i, Constants DEF TaskTime
<1>4. IdentityInv'
  BY <1>a, <1>b, <1>c, <1>d, <1>e, <1>g, NoSvidTyped, Fields DEF RenewalInv, IdentityInv, IdentityBound
<1>5. OffInv' /\ OverInv'
  BY <1>b, <1>c, <1>g, Constants DEF OffInv, OverInv
<1>6. WindowInv' /\ FreshInv' /\ CalmInv'
  BY <1>b, <1>c, <1>d, <1>e, <1>h, <1>i DEF RenewalInv, WindowInv, WindowRespected, FreshInv, CalmInv
<1> QED
  BY <1>1, <1>2, <1>3, <1>4, <1>5, <1>6 DEF RenewalInv

-----------------------------------------------------------------------------
(* Time passes.                                                            *)

LEMMA OlderCallIs ==
    ASSUME NEW c \in CallsTyped, NEW d \in Nat
    PROVE  /\ OlderCall(c, d) \in CallsTyped
           /\ OlderCall(c, d).kind = c.kind /\ OlderCall(c, d).svid = Older(c.svid, d)
           /\ OlderCall(c, d).answer.kind = c.answer.kind
           /\ OlderCall(c, d).answer.svid = Older(c.answer.svid, d)
           /\ OlderCall(NoCall, d) = NoCall
<1>1. /\ c.svid \in Svids /\ c.answer.svid \in Svids /\ c.answer \in AnswersTyped
  BY DEF CallsTyped, AnswersTyped
<1> DEFINE s == Older(c.svid, d)
           a == Older(c.answer.svid, d)
<1>2. s \in Svids /\ a \in Svids
  BY <1>1, OlderIs
<1>3. OlderCall(c, d) = [c EXCEPT !.svid = s, !.answer.svid = a]
  BY DEF OlderCall
<1> HIDE DEF s, a
<1>4. /\ OlderCall(c, d) \in CallsTyped
      /\ OlderCall(c, d).kind = c.kind /\ OlderCall(c, d).svid = s
      /\ OlderCall(c, d).answer.kind = c.answer.kind /\ OlderCall(c, d).answer.svid = a
  BY <1>2, <1>3 DEF CallsTyped, AnswersTyped
<1>5. OlderCall(NoCall, d) = NoCall
  <2>1. Older(NoSvid, d) = NoSvid
    BY NoSvidTyped, OlderIs
  <2>2. NoCall.svid = NoSvid /\ NoCall.answer = NoAnswer /\ NoAnswer.svid = NoSvid
    BY DEF NoCall, NoAnswer
  <2>3. OlderCall(NoCall, d) = [NoCall EXCEPT !.svid = NoSvid, !.answer = [NoAnswer EXCEPT !.svid = NoSvid]]
    BY <2>1, <2>2 DEF OlderCall
  <2>4. [NoAnswer EXCEPT !.svid = NoSvid] = NoAnswer
    BY DEF NoAnswer
  <2>5. [NoCall EXCEPT !.svid = NoSvid] = NoCall
    BY DEF NoCall
  <2>6. [NoCall EXCEPT !.answer = NoAnswer] = NoCall
    BY DEF NoCall
  <2>7. [NoCall EXCEPT !.svid = NoSvid, !.answer = NoAnswer]
          = [[NoCall EXCEPT !.svid = NoSvid] EXCEPT !.answer = NoAnswer]
    OBVIOUS
  <2> QED
    BY <2>3, <2>4, <2>5, <2>6, <2>7
<1> QED
  BY <1>4, <1>5 DEF s, a

\* What time leaves of the state.
LEMMA PassesIs ==
    ASSUME RenewalTypes, NEW d \in Nat, Passes(d)
    PROVE  /\ cmis' \in [svid : Svids, at : Int] /\ cmis'.svid = Older(cmis.svid, d)
           /\ cmis.svid # NoSvid => cmis'.at = FarBack(cmis.at, d)
           /\ call' = OlderCall(call, d) /\ call' \in CallsTyped /\ late' \in CallsTyped
           /\ run' \in Runs /\ run'.held = Older(run.held, d) /\ run'.identity = run.identity
           /\ run'.disabled = run.disabled /\ run'.next_at = Back(run.next_at, d)
           /\ run'.last = IF InForce THEN FarBack(run.last, d) ELSE 0
           /\ slots' \in [creds : Svids, minter : Svids, cell : Svids, sealed : 0 .. 2]
           /\ slots'.creds = Older(slots.creds, d) /\ slots'.minter = Older(slots.minter, d)
           /\ slots'.cell = Older(slots.cell, d) /\ slots'.sealed = slots.sealed
           /\ mint' = Older(mint, d) /\ mint' \in Svids
           /\ (Holds' <=> Holds) /\ (InForce' <=> InForce)
<1>0. /\ cmis \in [svid : Svids, at : Int] /\ call \in CallsTyped /\ late \in CallsTyped
      /\ run \in Runs /\ mint \in Svids
      /\ slots \in [creds : Svids, minter : Svids, cell : Svids, sealed : 0 .. 2]
  BY DEF RenewalTypes
<1>1. ASSUME NEW t \in Int PROVE Back(t, d) \in Int /\ FarBack(t, d) \in Int
  <2>1. /\ Skips \in Nat /\ REATTEST_WINDOW \in Nat
        /\ Back(t, d) = IF t - d >= -Skips THEN t - d ELSE -Skips
        /\ FarBack(t, d) = IF t - d >= -(Skips + REATTEST_WINDOW)
                           THEN t - d ELSE -(Skips + REATTEST_WINDOW)
    BY <1>1, BackIs, Constants
  <2> QED
    BY <2>1
<1>2. /\ cmis' \in [svid : Svids, at : Int] /\ cmis'.svid = Older(cmis.svid, d)
      /\ cmis.svid # NoSvid => cmis'.at = FarBack(cmis.at, d)
  <2>1. CASE cmis = Unheard
    <3>1. cmis' = cmis /\ cmis.svid = NoSvid
      BY <2>1 DEF Passes, Unheard
    <3> QED
      BY <1>0, <3>1, NoSvidTyped, OlderIs
  <2>2. CASE cmis # Unheard
    <3>1. cmis' = [svid |-> Older(cmis.svid, d), at |-> FarBack(cmis.at, d)]
      BY <2>2 DEF Passes
    <3>2. Older(cmis.svid, d) \in Svids /\ FarBack(cmis.at, d) \in Int
      BY <1>0, <1>1, OlderIs
    <3> QED
      BY <3>1, <3>2
  <2> QED
    BY <2>1, <2>2
<1>3. call' = OlderCall(call, d) /\ call' \in CallsTyped /\ late' \in CallsTyped
  BY <1>0, OlderCallIs DEF Passes
<1>4. /\ run' \in Runs /\ run'.held = Older(run.held, d) /\ run'.identity = run.identity
      /\ run'.disabled = run.disabled /\ run'.next_at = Back(run.next_at, d)
      /\ run'.last = IF InForce THEN FarBack(run.last, d) ELSE 0
  <2> DEFINE h == Older(run.held, d)
             n == Back(run.next_at, d)
             l == IF InForce THEN FarBack(run.last, d) ELSE 0
  <2>1. h \in Svids /\ n \in Int /\ l \in Int
    <3>1. run.held \in Svids /\ run.next_at \in Int /\ run.last \in Int
      BY RunFields
    <3> QED
      BY <1>1, <3>1, OlderIs
  <2>2. run' = [run EXCEPT !.held = h, !.next_at = n, !.last = l]
    BY DEF Passes, InForce
  <2> HIDE DEF h, n, l
  <2>3. /\ run' \in Runs /\ run'.held = h /\ run'.identity = run.identity
        /\ run'.disabled = run.disabled /\ run'.next_at = n /\ run'.last = l
    BY <1>0, <2>1, <2>2 DEF Runs
  <2> QED
    BY <2>3 DEF h, n, l
<1>5. /\ slots' \in [creds : Svids, minter : Svids, cell : Svids, sealed : 0 .. 2]
      /\ slots'.creds = Older(slots.creds, d) /\ slots'.minter = Older(slots.minter, d)
      /\ slots'.cell = Older(slots.cell, d) /\ slots'.sealed = slots.sealed
  <2> DEFINE c == Older(slots.creds, d)
             m == Older(slots.minter, d)
             e == Older(slots.cell, d)
  <2>1. c \in Svids /\ m \in Svids /\ e \in Svids
    BY <1>0, OlderIs
  <2>2. slots' = [slots EXCEPT !.creds = c, !.minter = m, !.cell = e]
    BY DEF Passes
  <2> HIDE DEF c, m, e
  <2>3. /\ slots' \in [creds : Svids, minter : Svids, cell : Svids, sealed : 0 .. 2]
        /\ slots'.creds = c /\ slots'.minter = m /\ slots'.cell = e /\ slots'.sealed = slots.sealed
    BY <1>0, <2>1, <2>2
  <2> QED
    BY <2>3 DEF c, m, e
<1>6. mint' = Older(mint, d) /\ mint' \in Svids
  BY <1>0, OlderIs DEF Passes
<1>7. (Holds' <=> Holds) /\ (InForce' <=> InForce)
  BY <1>4, RunFields, OlderIs DEF Holds, InForce
<1> QED
  BY <1>2, <1>3, <1>4, <1>5, <1>6, <1>7

\* Time changes neither where the task is nor whose SVID is where.
LEMMA PassesKeeps ==
    ASSUME RenewalInv, NEW d \in Nat, Passes(d), loop' \in Loops, loop'.pc = loop.pc,
           loop'.cand = Older(loop.cand, d) \/ (loop.pc = "stopped" /\ loop' = loop), host' = host
    PROVE  CallOfTask' /\ SwapInv' /\ IdentityInv'
<1>a. RenewalTypes
  BY DEF RenewalInv
<1>b. /\ call' = OlderCall(call, d)
      /\ run'.held = Older(run.held, d) /\ run'.identity = run.identity
      /\ run'.disabled = run.disabled
      /\ slots'.creds = Older(slots.creds, d) /\ slots'.minter = Older(slots.minter, d)
      /\ slots'.cell = Older(slots.cell, d) /\ slots'.sealed = slots.sealed
      /\ mint' = Older(mint, d)
      /\ (Holds' <=> Holds) /\ (InForce' <=> InForce)
  BY <1>a, PassesIs
<1>c. /\ call'.kind = call.kind /\ call'.svid = Older(call.svid, d)
      /\ call'.answer.kind = call.answer.kind /\ call'.answer.svid = Older(call.answer.svid, d)
      /\ call = NoCall => call' = NoCall
  BY <1>a, <1>b, OlderCallIs DEF RenewalTypes
<1>d. /\ slots.creds \in Svids /\ slots.minter \in Svids /\ slots.cell \in Svids /\ mint \in Svids
      /\ run.held \in Svids /\ loop.cand \in Svids /\ call.svid \in Svids /\ call.answer.svid \in Svids
  BY <1>a, Fields DEF RenewalTypes
<1>e. ASSUME NEW s \in Svids
      PROVE  /\ Older(s, d).id = s.id /\ (Older(s, d) = NoSvid <=> s = NoSvid)
             /\ Older(Credentials(s), d) = Credentials(Older(s, d))
             /\ Older(NoSvid, d) = NoSvid
  BY <1>e, OlderIs
<1>1. CallOfTask'
  BY <1>c DEF RenewalInv, CallOfTask
<1>2. SwapInv'
  <2>1. InForceTogether'
    BY <1>b, <1>d, <1>e DEF RenewalInv, SwapInv, InForceTogether, InSwap
  <2>2. MinterFollows'
    BY <1>b, <1>d, <1>e DEF RenewalInv, SwapInv, MinterFollows
  <2> QED
    BY <1>b, <1>d, <1>e, <2>1, <2>2 DEF RenewalInv, SwapInv
<1>3. IdentityInv'
  <2>1. /\ run'.held.id = run.held.id /\ loop'.cand.id = loop.cand.id /\ call'.svid.id = call.svid.id
        /\ call'.answer.svid.id = call.answer.svid.id /\ slots'.creds.id = slots.creds.id
        /\ slots'.minter.id = slots.minter.id /\ slots'.cell.id = slots.cell.id
        /\ call'.answer.svid = NoSvid <=> call.answer.svid = NoSvid
    BY <1>b, <1>c, <1>d, <1>e
  <2> QED
    BY <1>b, <1>c, <2>1 DEF RenewalInv, IdentityInv, IdentityBound
<1> QED
  BY <1>1, <1>2, <1>3

\* How far back a time goes.
LEMMA Ages ==
    ASSUME RenewalTypes, NEW d \in Nat
    PROVE  /\ Skips \in Nat /\ Skips > 0 /\ Skips > MaxFaults * Jump
           /\ \A t \in Int : /\ Back(t, d) \in Int /\ FarBack(t, d) \in Int
                             /\ Back(t, d) = t - d \/ Back(t, d) = -Skips
                             /\ Back(t, d) >= t - d
                             /\ FarBack(t, d) >= t - d
           /\ \A s \in Svids : s # NoSvid =>
                  /\ Older(s, d).exp = s.exp - d \/ Older(s, d).exp = -Skips
                  /\ Older(s, d).exp >= s.exp - d
           /\ \A t, v \in Int, n \in Nat : t <= v + n => FarBack(t, d) <= FarBack(v, d) + n
           /\ \A t \in Int : t <= 0 => FarBack(t, d) <= 0
<1>0. MaxFaults * Jump \in Nat /\ REATTEST_WINDOW \in Nat
  BY Constants
<1>1. Skips \in Nat /\ Skips > 0 /\ Skips > MaxFaults * Jump
  BY <1>0 DEF Skips
<1>2. ASSUME NEW t \in Int
      PROVE  /\ Back(t, d) = IF t - d >= -Skips THEN t - d ELSE -Skips
             /\ FarBack(t, d) = IF t - d >= -(Skips + REATTEST_WINDOW)
                                THEN t - d ELSE -(Skips + REATTEST_WINDOW)
  BY <1>2, BackIs
<1>3. ASSUME NEW s \in Svids, s # NoSvid
      PROVE  /\ Older(s, d).exp = s.exp - d \/ Older(s, d).exp = -Skips
             /\ Older(s, d).exp >= s.exp - d
  <2>1. s.exp \in Int
    BY SvidFields
  <2>2. Older(s, d).exp = IF s.exp - d >= -Skips THEN s.exp - d ELSE -Skips
    BY <1>3, OlderIs
  <2> QED
    BY <1>1, <2>1, <2>2
<1>4. ASSUME NEW t \in Int
      PROVE  /\ Back(t, d) \in Int /\ FarBack(t, d) \in Int
             /\ Back(t, d) = t - d \/ Back(t, d) = -Skips
             /\ Back(t, d) >= t - d
             /\ FarBack(t, d) >= t - d
             /\ t <= 0 => FarBack(t, d) <= 0
  BY <1>0, <1>1, <1>2
<1>5. ASSUME NEW t \in Int, NEW v \in Int, NEW n \in Nat, t <= v + n
      PROVE  FarBack(t, d) <= FarBack(v, d) + n
  BY <1>0, <1>1, <1>2, <1>5
<1> QED
  BY <1>1, <1>3, <1>4, <1>5

LEMMA ClockTicksStep == RenewalInv /\ ClockTicks => RenewalInv'
<1> SUFFICES ASSUME RenewalInv, ClockTicks PROVE RenewalInv'
  OBVIOUS
<1>a. RenewalTypes
  BY DEF RenewalInv
<1>b. /\ Passes(1) /\ UNCHANGED <<ahead, host, faults, calm, refused>>
      /\ over' = IF slots.minter # NoSvid /\ 0 >= slots.minter.exp THEN over + 1 ELSE 0
      /\ off' = IF slots.minter = NoSvid /\ loop.pc # "stopped" THEN off + 1 ELSE 0
  BY DEF ClockTicks, Now
<1>p. 1 \in Nat
  OBVIOUS
<1>c. /\ loop' \in Loops /\ loop'.pc = loop.pc /\ loop'.at = loop.at /\ loop'.cut = loop.cut
      /\ loop'.path = loop.path /\ loop'.then = loop.then
      /\ \/ /\ loop.pc \in {"rotating", "attesting", "after", "starting", "sleep"}
            /\ loop.timer > 0 /\ loop'.timer = loop.timer - 1 /\ loop'.cand = Older(loop.cand, 1)
         \/ loop.pc = "stopped" /\ loop' = loop
  <2>0. loop \in Loops /\ loop.timer \in Nat /\ loop.cand \in Svids
    BY <1>a, Fields DEF RenewalTypes
  <2>1. CASE /\ InCall \/ loop.pc = "sleep"
             /\ loop.timer > 0
             /\ loop' = [loop EXCEPT !.timer = @ - 1, !.cand = Older(@, 1)]
    <3> DEFINE m == loop.timer - 1
               c == Older(loop.cand, 1)
    <3>1. m \in Nat /\ c \in Svids
      BY <2>0, <2>1, <1>p, OlderIs
    <3>2. loop' = [loop EXCEPT !.timer = m, !.cand = c]
      BY <2>1
    <3> HIDE DEF m, c
    <3>3. /\ loop' \in Loops /\ loop'.pc = loop.pc /\ loop'.at = loop.at /\ loop'.cut = loop.cut
          /\ loop'.path = loop.path /\ loop'.then = loop.then /\ loop'.timer = m /\ loop'.cand = c
      BY <2>0, <3>1, <3>2 DEF Loops
    <3> QED
      BY <2>1, <3>3 DEF m, c, InCall
  <2>2. CASE loop.pc = "stopped" /\ UNCHANGED loop
    BY <2>0, <2>2
  <2> QED
    BY <2>1, <2>2 DEF ClockTicks
<1>d. /\ cmis' \in [svid : Svids, at : Int] /\ cmis'.svid = Older(cmis.svid, 1)
      /\ cmis.svid # NoSvid => cmis'.at = FarBack(cmis.at, 1)
      /\ call' = OlderCall(call, 1) /\ call' \in CallsTyped /\ late' \in CallsTyped
      /\ run' \in Runs /\ run'.held = Older(run.held, 1) /\ run'.identity = run.identity
      /\ run'.disabled = run.disabled /\ run'.next_at = Back(run.next_at, 1)
      /\ run'.last = IF InForce THEN FarBack(run.last, 1) ELSE 0
      /\ slots' \in [creds : Svids, minter : Svids, cell : Svids, sealed : 0 .. 2]
      /\ slots'.minter = Older(slots.minter, 1)
      /\ mint' \in Svids
      /\ (Holds' <=> Holds) /\ (InForce' <=> InForce)
  BY <1>a, <1>b, <1>p, PassesIs
<1>e. /\ call'.kind = call.kind /\ call'.svid = Older(call.svid, 1)
      /\ call'.answer.kind = call.answer.kind /\ call'.answer.svid = Older(call.answer.svid, 1)
  BY <1>a, <1>d, <1>p, OlderCallIs DEF RenewalTypes
<1>f. ASSUME NEW s \in Svids
      PROVE  Older(s, 1).id = s.id /\ (Older(s, 1) = NoSvid <=> s = NoSvid)
  BY <1>f, <1>p, OlderIs
<1>g. /\ Skips \in Nat /\ Skips > 0 /\ Skips > MaxFaults * Jump
      /\ \A t \in Int : /\ Back(t, 1) \in Int /\ FarBack(t, 1) \in Int
                        /\ Back(t, 1) = t - 1 \/ Back(t, 1) = -Skips
                        /\ Back(t, 1) >= t - 1 /\ FarBack(t, 1) >= t - 1
      /\ \A s \in Svids : s # NoSvid =>
             /\ Older(s, 1).exp = s.exp - 1 \/ Older(s, 1).exp = -Skips
             /\ Older(s, 1).exp >= s.exp - 1
  BY <1>a, <1>p, Ages
<1>h. /\ \A t, v \in Int, n \in Nat : t <= v + n => FarBack(t, 1) <= FarBack(v, 1) + n
      /\ \A t \in Int : t <= 0 => FarBack(t, 1) <= 0
  BY <1>a, <1>p, Ages
<1>i. loop.pc = "stopped" => slots.minter = NoSvid
  BY DEF RenewalInv, SwapInv, InForceTogether
<1>1. RenewalTypes'
  BY <1>a, <1>b, <1>c, <1>d DEF RenewalTypes
<1>2. SwapInv' /\ CallOfTask' /\ IdentityInv'
  <2>1. loop'.cand = Older(loop.cand, 1) \/ (loop.pc = "stopped" /\ loop' = loop)
    BY <1>c
  <2>2. Passes(1) /\ loop' \in Loops /\ loop'.pc = loop.pc /\ host' = host
    BY <1>b, <1>c
  <2> QED
    BY <2>1, <2>2, <1>p, PassesKeeps
<1>3. TaskTime'
  <2> DEFINE e == run.held.exp
             f == run'.held.exp
  <2>1. /\ loop.at \in Int /\ loop.at <= 0 /\ -Leapt <= loop.at /\ Leapt \in Nat /\ -Skips < loop.at
        /\ Leapt' = Leapt
    <3>1. Leapt \in Nat /\ Leapt <= MaxFaults * Jump /\ MaxFaults * Jump \in Nat
      BY <1>a, LeaptIs, Constants
    <3> QED
      BY <1>a, <1>b, <1>g, <3>1, Fields DEF RenewalInv, TaskTime, Leapt
  <2>2. Holds => f \in Int /\ e \in Int /\ (f = e - 1 \/ f = -Skips)
    BY <1>a, <1>d, <1>g, Fields DEF Holds
  <2>3. loop.cand # NoSvid => loop.pc = "stopped" \/ loop'.cand # NoSvid
    BY <1>a, <1>c, <1>f, Fields
  <2>4. InForce => Holds
    BY DEF InForce
  <2>5. loop'.at <= 0 /\ -Leapt' <= loop'.at
    BY <1>c, <2>1
  <2>6. /\ loop'.pc = "rotating" => InForce' /\ loop'.timer <= ROTATE_TIMEOUT
        /\ loop'.pc \in {"attesting", "starting"} => loop'.timer <= ATTEST_TIMEOUT
    BY <1>a, <1>c, <1>d, Fields, Constants DEF RenewalInv, TaskTime
  <2>7. loop'.pc \in {"rotating", "attesting"} /\ loop'.cut => InForce' /\ f - loop'.at <= loop'.timer
    BY <1>a, <1>c, <1>d, <1>g, <2>1, <2>2, <2>4, Fields DEF RenewalInv, TaskTime
  <2>8. loop'.pc = "attesting" /\ ~InForce' => ~Holds' \/ f <= loop'.at
    BY <1>a, <1>c, <1>d, <1>g, <2>1, <2>2, Fields DEF RenewalInv, TaskTime
  <2>9. run'.disabled /\ loop'.pc # "stopped" => Holds' /\ f <= 0
    BY <1>a, <1>c, <1>d, <1>g, <2>2, Fields DEF RenewalInv, TaskTime
  <2>10. /\ loop'.pc \in {"installing", "after"} => loop'.cand # NoSvid /\ loop'.path # "none"
         /\ loop'.pc \in {"installing", "after"} /\ loop'.path = "rotate" => InForce'
    BY <1>c, <1>d, <2>3 DEF RenewalInv, TaskTime
  <2> QED
    BY <1>c, <2>5, <2>6, <2>7, <2>8, <2>9, <2>10 DEF TaskTime
<1>j. /\ loop.pc = "starting" => slots.minter = NoSvid
      /\ loop.pc \in {"rotating", "after"} => slots.minter # NoSvid
  BY DEF RenewalInv, SwapInv, MinterFollows, TaskTime, InForce, Holds
<1>k. slots'.minter = NoSvid <=> slots.minter = NoSvid
  BY <1>a, <1>d, <1>f, Fields
<1>4. OffInv'
  <2>1. run'.next_at \in Int /\ (run'.next_at = run.next_at - 1 \/ run'.next_at = -Skips)
    BY <1>a, <1>d, <1>g, Fields
  <2>2. CASE slots.minter # NoSvid
    BY <2>2, <1>b, <1>k, Constants DEF OffInv
  <2>3. CASE slots.minter = NoSvid /\ loop.pc = "stopped"
    BY <2>3, <1>b, <1>c, <1>k, Constants DEF OffInv
  <2>4. CASE slots.minter = NoSvid /\ loop.pc = "sleep"
    <3>1. off' = off + 1 /\ loop'.timer = loop.timer - 1 /\ loop.timer > 0 /\ loop'.pc = "sleep"
      BY <2>4, <1>b, <1>c
    <3>2. off + loop.timer <= IntervalBound /\ off + run.next_at <= IntervalBound
      BY <2>4 DEF RenewalInv, OffInv
    <3>3. off' + loop'.timer <= IntervalBound /\ off' + run'.next_at <= IntervalBound
      BY <1>a, <1>g, <2>1, <3>1, <3>2, Fields, Constants
    <3> QED
      BY <1>a, <2>4, <3>1, <3>2, <3>3, <1>k, Fields, Constants DEF OffInv
  <2>5. CASE slots.minter = NoSvid /\ loop.pc \in {"attesting", "starting"}
    <3>1. off' = off + 1 /\ loop'.timer = loop.timer - 1 /\ loop.timer > 0 /\ loop'.pc = loop.pc
      BY <2>5, <1>b, <1>c
    <3>2. off + loop.timer <= IntervalBound + ATTEST_TIMEOUT
      BY <2>5 DEF RenewalInv, OffInv
    <3> QED
      BY <1>a, <2>5, <3>1, <3>2, <1>k, Fields, Constants DEF OffInv
  <2> QED
    BY <1>c, <1>j, <2>2, <2>3, <2>4, <2>5
<1>5. OverInv'
  <2>1. CASE over' = 0
    BY <2>1, <1>a, <1>c, Fields, Constants DEF RenewalInv, TaskTime, OverInv
  <2>2. CASE over' # 0
    <3>1. slots.minter # NoSvid /\ slots.minter.exp <= 0 /\ over' = over + 1
      BY <2>2, <1>a, <1>b, Fields
    <3>2. /\ loop.pc \in {"rotating", "attesting", "after", "sleep"} /\ loop'.pc = loop.pc
          /\ loop.timer > 0 /\ loop'.timer = loop.timer - 1
      BY <3>1, <1>c, <1>i, <1>j
    <3>3. slots'.minter # NoSvid /\ slots'.minter.exp < 0
      <4>1. slots.minter \in Svids /\ slots.minter.exp \in Int
        BY <1>a, Fields
      <4>2. slots'.minter.exp = slots.minter.exp - 1 \/ slots'.minter.exp = -Skips
        BY <1>d, <1>g, <3>1, <4>1
      <4> QED
        BY <1>g, <1>k, <3>1, <4>1, <4>2
    <3> QED
      BY <1>a, <3>1, <3>2, <3>3, Fields, Constants DEF RenewalInv, OverInv
  <2> QED
    BY <2>1, <2>2
<1>6. WindowInv'
  <2>1. run'.last <= 0
    BY <1>a, <1>d, <1>h, Fields DEF RenewalInv, WindowInv
  <2>2. cmis'.svid # NoSvid <=> cmis.svid # NoSvid
    BY <1>a, <1>d, <1>f, Fields
  <2>3. ASSUME faults = 0, cmis.svid # NoSvid
        PROVE  /\ InForce' => run'.last <= cmis'.at + Younger
               /\ call'.kind = "attest" /\ call'.answer.kind = "issued" =>
                     loop'.timer - cmis'.at <= ATTEST_TIMEOUT
               /\ loop'.path = "attest" /\ loop'.pc = "after" => loop'.timer - cmis'.at <= Younger
    <3>1. cmis'.at \in Int /\ cmis'.at >= cmis.at - 1 /\ cmis'.at = FarBack(cmis.at, 1)
      BY <2>3, <1>a, <1>d, <1>g, Fields
    <3>2. InForce => run'.last <= cmis'.at + Younger
      BY <2>3, <3>1, <1>a, <1>d, <1>h, Fields, Constants DEF RenewalInv, WindowInv, Younger
    <3>3. call.kind = "attest" => loop.pc \in {"attesting", "starting"}
      BY DEF RenewalInv, CallOfTask
    <3> QED
      BY <2>3, <3>1, <3>2, <3>3, <1>a, <1>c, <1>d, <1>e, Fields, Constants DEF RenewalInv, WindowInv, Younger
  <2>4. ASSUME faults = 0, loop.pc = "rotating"
        PROVE  loop'.timer - run'.last < REATTEST_WINDOW - ROTATE_WINDOW_MARGIN + ROTATE_TIMEOUT
    <3>1. InForce /\ loop'.timer = loop.timer - 1
      BY <2>4, <1>c DEF RenewalInv, TaskTime
    <3>2. run'.last \in Int /\ run'.last >= run.last - 1
      BY <3>1, <1>a, <1>d, <1>g, Fields
    <3>3. loop.timer - run.last < REATTEST_WINDOW - ROTATE_WINDOW_MARGIN + ROTATE_TIMEOUT
      BY <2>4 DEF RenewalInv, WindowInv
    <3> QED
      BY <3>1, <3>2, <3>3, <1>a, Fields, Constants
  <2> QED
    BY <1>b, <1>c, <2>1, <2>2, <2>3, <2>4 DEF RenewalInv, WindowInv, WindowRespected
<1>7. FreshInv'
  <2> SUFFICES ASSUME ahead = 0, loop.at = 0 PROVE FreshInv'
    BY <1>b, <1>c DEF FreshInv
  <2>1. ASSUME call.answer.kind = "issued"
        PROVE  call'.answer.svid.exp - loop'.timer >= TTL - ROTATE_TIMEOUT - ATTEST_TIMEOUT
    <3>1. loop.pc # "stopped"
      BY <2>1 DEF RenewalInv, CallOfTask, NoCall, NoAnswer
    <3>2. call.answer.svid # NoSvid
      BY <2>1 DEF RenewalInv, IdentityInv
    <3>3. call'.answer.svid.exp \in Int /\ call'.answer.svid.exp >= call.answer.svid.exp - 1
      BY <3>2, <1>a, <1>e, <1>g, Fields, SvidFields
    <3>4. call.answer.svid.exp - loop.timer >= TTL - ROTATE_TIMEOUT - ATTEST_TIMEOUT
      BY <2>1 DEF RenewalInv, FreshInv
    <3> QED
      BY <1>a, <1>c, <3>1, <3>3, <3>4, Fields, Constants
  <2>2. ASSUME loop.pc = "after"
        PROVE  loop'.cand.exp - loop'.timer >= TTL - ROTATE_TIMEOUT - ATTEST_TIMEOUT - AFTER_TIMEOUT
    <3>1. loop.cand # NoSvid /\ loop'.cand = Older(loop.cand, 1) /\ loop'.timer = loop.timer - 1
      BY <2>2, <1>c DEF RenewalInv, TaskTime
    <3>2. loop'.cand.exp \in Int /\ loop'.cand.exp >= loop.cand.exp - 1
      BY <3>1, <1>a, <1>g, Fields, SvidFields
    <3>3. loop.cand.exp - loop.timer >= TTL - ROTATE_TIMEOUT - ATTEST_TIMEOUT - AFTER_TIMEOUT
      BY <2>2 DEF RenewalInv, FreshInv
    <3> QED
      BY <1>a, <3>1, <3>2, <3>3, Fields, Constants
  <2> QED
    BY <1>c, <1>e, <2>1, <2>2 DEF FreshInv
<1>8. CalmInv'
  <2> SUFFICES ASSUME calm PROVE CalmInv'
    BY <1>b DEF CalmInv
  <2>1. /\ ahead = 0 /\ loop.at = 0 /\ slots.minter # NoSvid /\ slots.minter.id = host
        /\ loop.pc \in {"sleep", "rotating", "attesting", "after"}
        /\ loop.timer > 0 /\ loop'.timer = loop.timer - 1
        /\ call.answer.kind = "issued" => call.answer.svid.id = host
    BY <1>c DEF RenewalInv, CalmInv
  <2>2. slots.minter.exp > loop.timer
    <3>1. CASE loop.pc = "sleep"
      BY <3>1, <1>a, Fields, Constants DEF RenewalInv, CalmInv
    <3>2. CASE loop.pc = "rotating"
      BY <3>2, <1>a, Fields, Constants DEF RenewalInv, CalmInv
    <3>3. CASE loop.pc = "attesting"
      BY <3>3, <1>a, Fields, Constants DEF RenewalInv, CalmInv
    <3>4. CASE loop.pc = "after"
      <4>1. slots.minter.exp - loop.timer >= TTL - ROTATE_TIMEOUT - ATTEST_TIMEOUT - AFTER_TIMEOUT
        BY <2>1, <3>4 DEF RenewalInv, FreshInv, SwapInv
      <4> QED
        BY <4>1, <1>a, Fields, Constants
    <3> QED
      BY <2>1, <3>1, <3>2, <3>3, <3>4
  <2>3. slots'.minter.exp = slots.minter.exp - 1 /\ slots'.minter.id = host
    BY <2>1, <2>2, <1>a, <1>d, <1>f, <1>g, Fields
  <2>4. run'.next_at \in Int /\ (run'.next_at = run.next_at - 1 \/ run'.next_at = -Skips)
    BY <1>a, <1>d, <1>g, Fields
  <2>5. call'.answer.svid.id = call.answer.svid.id
    BY <1>a, <1>e, <1>f, Fields
  <2>6. loop.pc = "sleep" =>
          /\ slots'.minter.exp - loop'.timer > ATTEST_TIMEOUT
          /\ slots'.minter.exp - run'.next_at > ATTEST_TIMEOUT
    BY <1>a, <1>g, <2>1, <2>2, <2>3, <2>4, Fields, Constants DEF RenewalInv, CalmInv
  <2>7. loop.pc = "rotating" =>
          ~loop'.cut /\ slots'.minter.exp - loop'.timer > ATTEST_TIMEOUT + RETRY_CAP
    BY <1>a, <1>c, <2>1, <2>3, Fields, Constants DEF RenewalInv, CalmInv
  <2>8. loop.pc = "attesting" => ~loop'.cut /\ slots'.minter.exp > loop'.timer
    BY <1>a, <1>c, <2>1, <2>3, Fields, Constants DEF RenewalInv, CalmInv
  <2>9. slots'.minter.exp > 0
    BY <1>a, <2>1, <2>2, <2>3, Fields
  <2> QED
    BY <1>b, <1>c, <1>e, <1>k, <2>1, <2>3, <2>5, <2>6, <2>7, <2>8, <2>9 DEF CalmInv
<1> QED
  BY <1>1, <1>2, <1>3, <1>4, <1>5, <1>6, <1>7, <1>8 DEF RenewalInv

LEMMA LeapStep == RenewalInv /\ Leap => RenewalInv'
<1> SUFFICES ASSUME RenewalInv, Leap PROVE RenewalInv'
  OBVIOUS
<1>a. RenewalTypes
  BY DEF RenewalInv
<1>b. /\ Passes(Jump) /\ off' = 0 /\ calm' = FALSE /\ UNCHANGED <<host, over, refused>>
      /\ ahead' \in {ahead, ahead + Jump}
  BY DEF Leap
<1>p. Jump \in Nat /\ Jump > 0
  BY Constants
<1>q. /\ faults' \in 0 .. MaxFaults /\ faults' # 0
      /\ Leapt' \in Nat /\ Leapt' = Leapt + Jump /\ -Leapt' <= 0
  BY <1>a, FaultIs DEF Leap
<1>c. /\ loop' \in Loops /\ loop'.pc = loop.pc /\ loop'.cut = loop.cut /\ loop'.timer = loop.timer
      /\ loop'.path = loop.path /\ loop'.then = loop.then /\ loop'.cand = Older(loop.cand, Jump)
      /\ loop'.at = IF Timed THEN loop.at - Jump ELSE loop.at
  <2> DEFINE t == IF Timed THEN loop.at - Jump ELSE loop.at
             c == Older(loop.cand, Jump)
  <2>0. loop.at \in Int /\ loop.cand \in Svids /\ loop \in Loops
    BY <1>a, Fields DEF RenewalTypes
  <2>1. t \in Int /\ c \in Svids /\ loop \in Loops
    <3>1. t \in Int
      BY <2>0, <1>p
    <3> QED
      BY <2>0, <3>1, <1>p, OlderIs
  <2>2. loop' = [loop EXCEPT !.cand = c, !.at = t]
    BY DEF Leap
  <2> HIDE DEF t, c
  <2>3. /\ loop' \in Loops /\ loop'.pc = loop.pc /\ loop'.cut = loop.cut /\ loop'.timer = loop.timer
        /\ loop'.path = loop.path /\ loop'.then = loop.then /\ loop'.cand = c /\ loop'.at = t
    BY <2>1, <2>2 DEF Loops
  <2> QED
    BY <2>3 DEF t, c
<1>d. /\ cmis' \in [svid : Svids, at : Int]
      /\ call' = OlderCall(call, Jump) /\ call' \in CallsTyped /\ late' \in CallsTyped
      /\ run' \in Runs /\ run'.held = Older(run.held, Jump) /\ run'.identity = run.identity
      /\ run'.disabled = run.disabled /\ run'.next_at = Back(run.next_at, Jump)
      /\ run'.last = IF InForce THEN FarBack(run.last, Jump) ELSE 0
      /\ slots' \in [creds : Svids, minter : Svids, cell : Svids, sealed : 0 .. 2]
      /\ slots'.minter = Older(slots.minter, Jump)
      /\ mint' \in Svids
      /\ (Holds' <=> Holds) /\ (InForce' <=> InForce)
  BY <1>a, <1>b, <1>p, PassesIs
<1>e. call'.kind = call.kind /\ call'.answer.kind = call.answer.kind
  BY <1>a, <1>d, <1>p, OlderCallIs DEF RenewalTypes
<1>f. ASSUME NEW s \in Svids
      PROVE  Older(s, Jump).id = s.id /\ (Older(s, Jump) = NoSvid <=> s = NoSvid)
  BY <1>f, <1>p, OlderIs
<1>g. /\ Skips \in Nat /\ Skips > 0 /\ Skips > MaxFaults * Jump
      /\ \A t \in Int : /\ Back(t, Jump) \in Int
                        /\ Back(t, Jump) = t - Jump \/ Back(t, Jump) = -Skips
      /\ \A s \in Svids : s # NoSvid =>
             Older(s, Jump).exp = s.exp - Jump \/ Older(s, Jump).exp = -Skips
  BY <1>a, <1>p, Ages
<1>h. \A t \in Int : t <= 0 => FarBack(t, Jump) <= 0
  BY <1>a, <1>p, Ages
<1>1. RenewalTypes'
  <2>1. ahead' \in Nat
    BY <1>a, <1>b, <1>p, Fields
  <2> QED
    BY <1>a, <1>b, <1>c, <1>d, <1>q, <2>1 DEF RenewalTypes
<1>2. SwapInv' /\ CallOfTask' /\ IdentityInv'
  <2>1. loop'.cand = Older(loop.cand, Jump) \/ (loop.pc = "stopped" /\ loop' = loop)
    BY <1>c
  <2>2. Passes(Jump) /\ loop' \in Loops /\ loop'.pc = loop.pc /\ host' = host
    BY <1>b, <1>c
  <2> QED
    BY <2>1, <2>2, <1>p, PassesKeeps
<1>3. TaskTime'
  <2> DEFINE e == run.held.exp
             f == run'.held.exp
  <2>1. /\ loop.at \in Int /\ loop.at <= 0 /\ -Leapt <= loop.at /\ Leapt \in Nat
    BY <1>a, LeaptIs, Fields DEF RenewalInv, TaskTime
  <2>2. /\ loop'.at \in Int /\ loop'.at <= 0 /\ -Leapt' <= loop'.at
        /\ Timed => loop'.at = loop.at - Jump
    BY <1>c, <1>p, <1>q, <2>1
  <2>3. -Skips < loop'.at
    <3>1. Leapt' <= MaxFaults * Jump /\ MaxFaults * Jump \in Nat
      <4>1. faults' * Jump <= MaxFaults * Jump
        BY <1>q, LeaptWithin
      <4> QED
        BY <4>1, Constants DEF Leapt
    <3> QED
      BY <1>g, <1>q, <2>2, <3>1
  <2>4. Holds => f \in Int /\ e \in Int /\ (f = e - Jump \/ f = -Skips)
    BY <1>a, <1>d, <1>g, <1>p, Fields DEF Holds
  <2>5. loop'.cand = NoSvid <=> loop.cand = NoSvid
    BY <1>a, <1>c, <1>f, Fields
  <2>6. InForce => Holds
    BY DEF InForce
  <2>7. loop.pc \in {"rotating", "attesting", "disabling"} => Timed
    BY DEF Timed, InCall
  <2>8. loop'.pc \in {"rotating", "attesting"} /\ loop'.cut => InForce' /\ f - loop'.at <= loop'.timer
    BY <1>a, <1>c, <1>d, <1>g, <1>p, <2>1, <2>2, <2>3, <2>4, <2>6, <2>7, Fields DEF RenewalInv, TaskTime
  <2>9. loop'.pc = "attesting" /\ ~InForce' => ~Holds' \/ f <= loop'.at
    BY <1>a, <1>c, <1>d, <1>g, <1>p, <2>1, <2>2, <2>3, <2>4, <2>7, Fields DEF RenewalInv, TaskTime
  <2>10. loop'.pc = "disabling" /\ loop'.then # "fatal" => InForce' /\ f <= loop'.at
    BY <1>a, <1>c, <1>d, <1>g, <1>p, <2>1, <2>2, <2>3, <2>4, <2>6, <2>7, Fields DEF RenewalInv, TaskTime
  <2>11. run'.disabled /\ loop'.pc # "stopped" => Holds' /\ f <= 0
    BY <1>a, <1>c, <1>d, <1>g, <1>p, <2>4, Fields DEF RenewalInv, TaskTime
  <2>12. /\ loop'.pc = "rotating" => InForce' /\ loop'.timer <= ROTATE_TIMEOUT
         /\ loop'.pc \in {"attesting", "starting"} => loop'.timer <= ATTEST_TIMEOUT
         /\ loop'.pc \in {"installing", "after"} => loop'.cand # NoSvid /\ loop'.path # "none"
         /\ loop'.pc \in {"installing", "after"} /\ loop'.path = "rotate" => InForce'
    BY <1>c, <1>d, <2>5 DEF RenewalInv, TaskTime
  <2> QED
    BY <2>2, <2>8, <2>9, <2>10, <2>11, <2>12 DEF TaskTime
<1>k. slots'.minter = NoSvid <=> slots.minter = NoSvid
  BY <1>a, <1>d, <1>f, Fields
<1>4. OffInv'
  <2>1. run'.next_at \in Int /\ (run'.next_at = run.next_at - Jump \/ run'.next_at = -Skips)
    BY <1>a, <1>d, <1>g, Fields
  <2>2. ASSUME slots.minter = NoSvid, loop.pc = "sleep"
        PROVE  loop'.timer <= IntervalBound /\ run'.next_at <= IntervalBound
    <3>1. off + loop.timer <= IntervalBound /\ off + run.next_at <= IntervalBound
      BY <2>2 DEF RenewalInv, OffInv
    <3> QED
      BY <1>a, <1>c, <1>g, <1>p, <2>1, <3>1, Fields, Constants
  <2>3. ASSUME slots.minter = NoSvid, loop.pc \in {"attesting", "starting"}
        PROVE  loop'.timer <= IntervalBound + ATTEST_TIMEOUT
    <3>1. off + loop.timer <= IntervalBound + ATTEST_TIMEOUT
      BY <2>3 DEF RenewalInv, OffInv
    <3> QED
      BY <1>a, <1>c, <3>1, Fields, Constants
  <2>4. loop'.timer \in Nat
    BY <1>c DEF Loops
  <2> QED
    BY <1>b, <1>c, <1>k, <2>1, <2>2, <2>3, <2>4, Constants DEF OffInv
<1>5. OverInv'
  <2>1. ASSUME over > 0 PROVE slots'.minter # NoSvid /\ slots'.minter.exp < 0
    <3>1. slots.minter # NoSvid /\ slots.minter.exp < 0
      BY <2>1 DEF RenewalInv, OverInv
    <3>2. slots.minter \in Svids /\ slots.minter.exp \in Int
      BY <1>a, Fields
    <3>3. slots'.minter.exp = slots.minter.exp - Jump \/ slots'.minter.exp = -Skips
      BY <1>d, <1>g, <3>1, <3>2
    <3> QED
      BY <1>g, <1>k, <1>p, <3>1, <3>2, <3>3
  <2> QED
    BY <1>b, <1>c, <2>1 DEF RenewalInv, OverInv
<1>6. WindowInv'
  <2>1. run'.last <= 0
    BY <1>a, <1>d, <1>h, Fields DEF RenewalInv, WindowInv
  <2> QED
    BY <1>b, <1>q, <2>1 DEF RenewalInv, WindowInv, WindowRespected
<1>7. FreshInv' /\ CalmInv'
  <2>1. CASE Timed
    <3>1. loop'.at < 0
      BY <2>1, <1>a, <1>c, <1>p, Fields DEF RenewalInv, TaskTime
    <3> QED
      BY <1>b, <3>1 DEF FreshInv, CalmInv
  <2>2. CASE ~Timed
    <3>1. loop.pc \notin {"rotating", "attesting", "starting", "installing", "after"}
      BY <2>2 DEF Timed, InCall
    <3>2. call.answer.kind = "none"
      BY <3>1 DEF RenewalInv, CallOfTask, NoCall, NoAnswer
    <3> QED
      BY <1>b, <1>c, <1>e, <3>1, <3>2 DEF FreshInv, CalmInv
  <2> QED
    BY <2>1, <2>2
<1> QED
  BY <1>1, <1>2, <1>3, <1>4, <1>5, <1>6, <1>7 DEF RenewalInv

-----------------------------------------------------------------------------
(* The invariant holds, and with it the properties.                        *)

LEMMA InitRenewalInv == RenewalInit => RenewalInv
<1> SUFFICES ASSUME RenewalInit PROVE RenewalInv
  OBVIOUS
<1>a. /\ ahead = 0 /\ host = 1 /\ cmis = Unheard /\ late = NoCall /\ loop = Starting
      /\ run = Nothing(0) /\ mint = NoSvid /\ faults = 0
      /\ over = 0 /\ off = 0 /\ calm = FALSE /\ refused = FALSE
  BY DEF RenewalInit
<1>b. /\ loop \in Loops /\ loop.pc = "starting" /\ loop.timer = ATTEST_TIMEOUT
      /\ loop.at = 0 /\ ~loop.cut /\ loop.cand = NoSvid /\ loop.path = "none"
  BY <1>a, StartingIs
<1>c. /\ run \in Runs /\ run.held = NoSvid /\ run.last = 0 /\ run.identity = 0
      /\ ~run.disabled /\ run.next_at = 0
  BY <1>a, NothingIs
<1>d. /\ call \in CallsTyped /\ call.kind = "attest" /\ call.svid = NoSvid
      /\ call.answer.kind = "none" /\ call.answer.svid = NoSvid
  BY NoSvidTyped DEF RenewalInit, NoCall, NoAnswer, CallsTyped, AnswersTyped
<1>e. /\ slots \in [creds : Svids, minter : Svids, cell : Svids, sealed : 0 .. 2]
      /\ slots.creds = NoSvid /\ slots.minter = NoSvid /\ slots.cell = NoSvid /\ slots.sealed = 0
  BY NoSvidTyped DEF RenewalInit
<1>f. ~Holds /\ ~InForce /\ Credentials(NoSvid) = NoSvid
  BY <1>c, NoSvidTyped, CredentialsTyped DEF Holds, InForce
<1>g. 0 \in 0 .. MaxFaults /\ 0 \in Nat /\ NoCall \in CallsTyped
  BY Constants, NoCallTyped
<1>1. RenewalTypes
  BY <1>a, <1>b, <1>c, <1>d, <1>e, <1>g, UnheardTyped, NoSvidTyped DEF RenewalTypes
<1>2. CallOfTask /\ SwapInv
  BY <1>a, <1>b, <1>d, <1>e, <1>f DEF CallOfTask, SwapInv, InForceTogether, InSwap, MinterFollows
<1>3. TaskTime
  BY <1>b, <1>c, <1>f, <1>1, LeaptIs, Constants DEF TaskTime
<1>4. IdentityInv
  BY <1>a, <1>b, <1>c, <1>d, <1>e, NoSvidTyped DEF IdentityInv, IdentityBound
<1>5. OffInv /\ OverInv
  BY <1>a, <1>b, <1>e, Constants DEF OffInv, OverInv
<1>6. WindowInv /\ FreshInv /\ CalmInv
  BY <1>a, <1>b, <1>c, <1>d, <1>f DEF WindowInv, WindowRespected, FreshInv, CalmInv
<1> QED
  BY <1>1, <1>2, <1>3, <1>4, <1>5, <1>6 DEF RenewalInv

LEMMA RenewalUnchanged == RenewalInv /\ UNCHANGED renewalVars => RenewalInv'
<1> SUFFICES ASSUME RenewalInv, UNCHANGED renewalVars PROVE RenewalInv'
  OBVIOUS
<1>1. /\ ahead' = ahead /\ host' = host /\ cmis' = cmis /\ call' = call /\ late' = late
      /\ run' = run /\ loop' = loop /\ slots' = slots /\ mint' = mint /\ faults' = faults
      /\ over' = over /\ off' = off /\ calm' = calm /\ refused' = refused
  BY DEF renewalVars, ghosts
<1>2. RenewalTypes' /\ CallOfTask'
  BY <1>1 DEF RenewalInv, RenewalTypes, CallOfTask
<1>3. SwapInv'
  BY <1>1 DEF RenewalInv, SwapInv, InForceTogether, InSwap, MinterFollows, InForce, Holds
<1>4. TaskTime' /\ IdentityInv'
  BY <1>1 DEF RenewalInv, TaskTime, IdentityInv, IdentityBound, InForce, Holds, Leapt
<1>5. OffInv' /\ OverInv'
  BY <1>1 DEF RenewalInv, OffInv, OverInv
<1>6. WindowInv' /\ FreshInv' /\ CalmInv'
  BY <1>1 DEF RenewalInv, WindowInv, WindowRespected, FreshInv, CalmInv, InForce, Holds
<1> QED
  BY <1>2, <1>3, <1>4, <1>5, <1>6 DEF RenewalInv

LEMMA RenewalStep == RenewalInv /\ [RenewalNext]_renewalVars => RenewalInv'
<1> SUFFICES ASSUME RenewalInv, [RenewalNext]_renewalVars PROVE RenewalInv'
  OBVIOUS
<1>1. CASE CmisServes \/ CmisServesLate \/ StepWait \/ StepExpire \/ StepAttest \/ StepRenew
  BY <1>1, CmisServesStep, CmisServesLateStep, StepWaitStep, StepExpireStep, StepAttestStep,
     StepRenewStep
<1>2. CASE RotateAnswered \/ AttestAnswered \/ CallTimesOut \/ ExpiresDuringCall
  BY <1>2, RotateAnsweredStep, AttestAnsweredStep, CallTimesOutStep, ExpiresDuringCallStep
<1>3. CASE Install \/ Accepted \/ Disable \/ BeginMint \/ EndMint
  BY <1>3, InstallStep, AcceptedStep, DisableStep, BeginMintStep, EndMintStep
<1>4. CASE Start \/ AgentRestarts \/ Panic \/ SupervisorDisables \/ Reenrol
  BY <1>4, StartStep, AgentRestartsStep, PanicStep, SupervisorStep, ReenrolStep
<1>5. CASE ClockTicks \/ Leap
  BY <1>5, ClockTicksStep, LeapStep
<1>6. CASE UNCHANGED renewalVars
  BY <1>6, RenewalUnchanged
<1> QED
  BY <1>1, <1>2, <1>3, <1>4, <1>5, <1>6 DEF RenewalNext

LEMMA RenewalInvariant == RenewalSpec => []RenewalInv
<1>1. RenewalInit => RenewalInv
  BY InitRenewalInv
<1>2. RenewalInv /\ [RenewalNext]_renewalVars => RenewalInv'
  BY RenewalStep
<1> QED
  BY <1>1, <1>2, PTL DEF RenewalSpec

\* Swap (renewal/swap.rs): whatever happens to the task, the clocks and the
\* calls, the credentials, the minter and the SVID of the proposals are of one
\* SVID outside a swap, a request mints under the minter in force, and a
\* stopped task leaves no minter.
THEOREM SwappedTogether == RenewalSpec => []InForceTogether
<1>1. RenewalInv => InForceTogether
  BY DEF RenewalInv, SwapInv
<1> QED
  BY <1>1, RenewalInvariant, PTL

\* accept (renewal/mod.rs): a run never puts an SVID of another identity in
\* force, and never seals one, after an expiry or a new enrolment either.
THEOREM OneIdentity == RenewalSpec => []IdentityBound
<1>1. RenewalInv => IdentityBound
  BY DEF RenewalInv, IdentityInv
<1> QED
  BY <1>1, RenewalInvariant, PTL

\* run (renewal/mod.rs): an expired SVID is out of force as soon as the calls
\* in progress and one sleep are over, however far the clocks leapt.
THEOREM TakenOut == RenewalSpec => []TakenOutInTime
<1>1. RenewalInv => TakenOutInTime
  BY DEF RenewalInv, OverInv, TakenOutInTime
<1> QED
  BY <1>1, RenewalInvariant, PTL

\* step (renewal/mod.rs): while attestations succeed and the clock is right,
\* Rotates that fail in any way never let the SVID in force expire.
THEOREM NeverWithout == RenewalSpec => []NoGap
<1>1. RenewalInv => NoGap
  BY DEF RenewalInv, CalmInv, NoGap, Now
<1> QED
  BY <1>1, RenewalInvariant, PTL

\* reattest_wait (renewal/schedule.rs): a task without an SVID has attested
\* again within an interval and the time of one attestation.
THEOREM Recovers == RenewalSpec => []RecoversInTime
<1>1. RenewalInv => RecoversInTime
  BY DEF RenewalInv, OffInv, RecoversInTime, IntervalBound
<1> QED
  BY <1>1, RenewalInvariant, PTL

\* rotate_allowed (renewal/schedule.rs): without a mishap of the clocks or the
\* agent, CMIS never refuses a Rotate of the last SVID for its age.
THEOREM WithinWindow == RenewalSpec => []WindowRespected
<1>1. RenewalInv => WindowRespected
  BY DEF RenewalInv, WindowInv
<1> QED
  BY <1>1, RenewalInvariant, PTL
=============================================================================

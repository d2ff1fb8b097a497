--------------------------- MODULE IssuanceProofs ---------------------------
(***************************************************************************)
(* Proofs about Issuance, for any hosts and tasks, any lifetimes with      *)
(* SvidTtl <= CRL_ENTRY_TTL_SECS and any bounds: types, that an SVID is    *)
(* renewed at most once, that renewals end with the window of their        *)
(* attestation, and that a revoked host is minted nothing.                 *)
(***************************************************************************)
EXTENDS Issuance, TLAPS

-----------------------------------------------------------------------------
(* What the locals of a handler refer to, by its stage.                    *)

HostStages == {"csr", "record", "lookup", "issue", "fetch", "swap", "unrevoke", "lift"}
SvidStages == {"record", "lookup", "issue", "fetch", "swap", "pair"}

RecordShape(rec) == rec = NoRecord \/ rec.svid \in 1 .. Len(svids)

Shape ==
    /\ \A t \in Tasks : task[t].pc \in HostStages => task[t].host \in Hosts
    /\ \A t \in Tasks : task[t].pc \in SvidStages => task[t].svid \in 1 .. Len(svids)
    /\ \A t \in Tasks : RecordShape(task[t].rec)
    /\ \A h \in Hosts : RecordShape(store[h])

-----------------------------------------------------------------------------
(* Sequences and records                                                   *)

\* Minting adds one SVID at the end and leaves the others in place.
LEMMA Minted ==
    ASSUME NEW seq \in Seq(Svids), NEW new \in Svids
    PROVE  /\ Append(seq, new) \in Seq(Svids)
           /\ Len(Append(seq, new)) = Len(seq) + 1
           /\ Append(seq, new)[Len(seq) + 1] = new
           /\ \A s \in 1 .. Len(seq) : Append(seq, new)[s] = seq[s]
OBVIOUS

\* The fields of a minted SVID.
LEMMA SvidFields ==
    ASSUME NEW seq \in Seq(Svids), NEW s \in 1 .. Len(seq)
    PROVE  /\ seq[s].host \in Hosts /\ seq[s].iat \in Nat /\ seq[s].exp \in Nat
           /\ seq[s].parent \in Nat /\ seq[s].root \in Nat
           /\ seq[s].epoch \in Nat /\ seq[s].evidence_epoch \in Nat
<1>1. seq[s] \in Svids
  OBVIOUS
<1> QED BY <1>1 DEF Svids

\* The empty record and the idle task.
LEMMA IdleType ==
    /\ NoRecord \in Records /\ NoRecord.svid = 0
    /\ Idle \in Locals /\ Idle.pc = "idle" /\ Idle.rec = NoRecord /\ Idle.now = 0
BY DEF NoRecord, Records, Idle, Running, Locals, Stages

\* Pruning, revoking and lifting keep a set of entries.
LEMMA EntriesType ==
    ASSUME NEW entries \in SUBSET CrlEntries(CertShas), NEW now \in Nat
    PROVE  /\ Unexpired(entries, now) \in SUBSET CrlEntries(CertShas)
           /\ \A target \in Targets(CertShas) :
                 revoke(entries, target, now) \in SUBSET CrlEntries(CertShas)
           /\ \A h : \A keep \in SUBSET CertShas :
                 unrevoke_host(entries, h, keep, now) \in SUBSET CrlEntries(CertShas)
<1>1. \A target \in Targets(CertShas) : CrlEntry(target, now) \in CrlEntries(CertShas)
  BY RevocationsAssumption DEF CrlEntry, CrlEntries
<1>2. Unexpired(entries, now) \in SUBSET CrlEntries(CertShas)
  BY DEF Unexpired
<1>3. \A target \in Targets(CertShas) :
         revoke(entries, target, now) \in SUBSET CrlEntries(CertShas)
  BY <1>1 DEF revoke
<1>4. ASSUME NEW h, NEW keep \in SUBSET CertShas
      PROVE  unrevoke_host(entries, h, keep, now) \in SUBSET CrlEntries(CertShas)
  <2>1. \A c \in keep : SvidTarget(c) \in Targets(CertShas)
    BY DEF Targets
  <2>2. {CrlEntry(SvidTarget(c), now) :
            c \in {k \in keep : ~ Names(entries, SvidTarget(k))}}
        \in SUBSET CrlEntries(CertShas)
    BY <1>1, <2>1
  <2> QED BY <2>2 DEF unrevoke_host
<1> QED BY <1>2, <1>3, <1>4

\* The digests of a minted SVID.
LEMMA DigestType ==
    ASSUME NEW s \in 1 .. MaxSvids
    PROVE  /\ Jws(s) \in CertShas /\ X509(s) \in CertShas
           /\ SvidTarget(Jws(s)) \in Targets(CertShas)
           /\ SvidTarget(X509(s)) \in Targets(CertShas)
BY DEF Jws, X509, CertShas, Targets

-----------------------------------------------------------------------------
\* A step that gives one task new locals of the right shape, mints nothing and
\* leaves the records alone keeps types and shape.
LEMMA TaskStep ==
    ASSUME TypeOK, Shape, NEW t \in Tasks,
           NEW pc \in Stages, NEW h \in Hosts \cup {NoHost}, NEW now \in Nat,
           NEW s \in Nat, NEW rec \in Records, NEW e \in Nat,
           Becomes(t, Running(pc, h, now, s, rec, e)),
           pc \in HostStages => h \in Hosts,
           pc \in SvidStages => s \in 1 .. Len(svids),
           RecordShape(rec),
           UNCHANGED <<clock, svids, store, policy_epoch, sent, landed, restarts>>,
           revocations' \in SUBSET CrlEntries(CertShas),
           host_bar' \in [Hosts -> Nat \cup {NotBarred}],
           admin_calls' \in Nat
    PROVE  TypeOK' /\ Shape'
<1> DEFINE local == Running(pc, h, now, s, rec, e)
<1>1. /\ local \in Locals /\ local.pc = pc /\ local.host = h /\ local.svid = s
      /\ local.rec = rec
  BY DEF Running, Locals
<1>2. task \in [Tasks -> Locals]
  BY DEF TypeOK
<1>3. task' = [task EXCEPT ![t] = local]
  BY DEF Becomes
<1> HIDE DEF local
<1>4. task' \in [Tasks -> Locals]
  BY <1>1, <1>2, <1>3
<1>5. Shape'
  BY <1>1, <1>2, <1>3 DEF Shape, RecordShape
<1> QED BY <1>4, <1>5 DEF TypeOK

\* Minting an SVID keeps types and shape.
LEMMA MintStep ==
    ASSUME TypeOK, Shape, NEW t \in Tasks,
           NEW pc \in {"record", "fetch"}, NEW h \in Hosts, NEW now \in Nat,
           NEW rec \in Records, NEW new \in Svids,
           Becomes(t, Running(pc, h, now, Len(svids) + 1, rec, 0)),
           rec = NoRecord \/ rec.svid = Len(svids) + 1,
           Len(svids) < MaxSvids, svids' = Append(svids, new),
           UNCHANGED <<clock, revocations, store, policy_epoch, sent, landed, host_bar,
                       admin_calls, restarts>>
    PROVE  TypeOK' /\ Shape'
<1> DEFINE s == Len(svids) + 1
           local == Running(pc, h, now, s, rec, 0)
<1>1. svids \in Seq(Svids) /\ Len(svids) \in Nat
  BY DEF TypeOK
<1>2. svids' \in Seq(Svids) /\ Len(svids') = s /\ Len(svids') <= MaxSvids
  BY <1>1, Minted, IssuanceAssumption
<1>3. s \in Nat /\ s \in 1 .. Len(svids')
  BY <1>1, <1>2
<1>4. /\ local \in Locals /\ local.pc = pc /\ local.host = h /\ local.svid = s
      /\ local.rec = rec
  BY <1>3 DEF Running, Locals, Stages
<1>5. task \in [Tasks -> Locals] /\ task' = [task EXCEPT ![t] = local]
  BY DEF TypeOK, Becomes
<1>6. 1 .. Len(svids) \subseteq 1 .. Len(svids')
  BY <1>1, <1>2
<1> HIDE DEF local
<1>7. task' \in [Tasks -> Locals]
  BY <1>4, <1>5
<1>8. /\ \A u \in Tasks : task'[u].pc \in HostStages => task'[u].host \in Hosts
      /\ \A u \in Tasks : task'[u].pc \in SvidStages => task'[u].svid \in 1 .. Len(svids')
  BY <1>3, <1>4, <1>5, <1>6 DEF Shape
<1>9. /\ \A u \in Tasks : task'[u].rec = NoRecord \/ task'[u].rec.svid \in 1 .. Len(svids')
      /\ \A g \in Hosts : store'[g] = NoRecord \/ store'[g].svid \in 1 .. Len(svids')
  BY <1>3, <1>4, <1>5, <1>6 DEF Shape, RecordShape
<1>10. Shape'
  BY <1>8, <1>9 DEF Shape, RecordShape
<1> QED BY <1>1, <1>2, <1>6, <1>7, <1>10 DEF TypeOK

\* Writing one record keeps types and shape.
LEMMA StoreStep ==
    ASSUME TypeOK, Shape, NEW t \in Tasks, NEW h \in Hosts, NEW rec \in Records,
           RecordShape(rec), Becomes(t, Idle),
           store' \in {store, [store EXCEPT ![h] = rec]},
           UNCHANGED <<clock, revocations, svids, policy_epoch, host_bar, admin_calls,
                       restarts>>,
           sent' \subseteq 1 .. Len(svids), landed' \subseteq 1 .. Len(svids)
    PROVE  TypeOK' /\ Shape'
<1>1. /\ task \in [Tasks -> Locals] /\ task' = [task EXCEPT ![t] = Idle]
      /\ store' \in [Hosts -> Records]
  BY DEF TypeOK, Becomes
<1>2. task' \in [Tasks -> Locals]
  BY <1>1, IdleType
<1>3. Shape'
  BY <1>1, IdleType DEF Shape, RecordShape, TypeOK, HostStages, SvidStages
<1> QED BY <1>1, <1>2, <1>3 DEF TypeOK

\* The type invariant and the shape of the locals hold in every state.
THEOREM Typing == Spec => [](TypeOK /\ Shape)
<1>1. Init => TypeOK /\ Shape
  <2> SUFFICES ASSUME Init PROVE TypeOK /\ Shape
    OBVIOUS
  <2>1. svids \in Seq(Svids) /\ Len(svids) = 0
    BY DEF Init
  <2> QED BY <2>1, IdleType, IssuanceAssumption
      DEF Init, TypeOK, Shape, RecordShape, HostStages, SvidStages
<1>2. TypeOK /\ Shape /\ [Next]_vars => (TypeOK /\ Shape)'
  <2> SUFFICES ASSUME TypeOK, Shape, [Next]_vars PROVE TypeOK' /\ Shape'
    OBVIOUS
  <2>0. /\ \A t \in Tasks : /\ task[t] \in Locals /\ task[t].now \in Nat
                            /\ task[t].rec \in Records /\ task[t].epoch \in Nat
                            /\ task[t].svid \in Nat
        /\ svids \in Seq(Svids) /\ Len(svids) \in Nat /\ Len(svids) <= MaxSvids
        /\ clock \in Nat /\ policy_epoch \in Nat /\ admin_calls \in Nat
        /\ revocations \in SUBSET CrlEntries(CertShas)
        /\ host_bar \in [Hosts -> Nat \cup {NotBarred}]
        /\ store \in [Hosts -> Records]
        /\ sent \subseteq 1 .. Len(svids) /\ landed \subseteq 1 .. Len(svids)
    BY DEF TypeOK, Locals
  <2>1. CASE Tick
    BY <2>1 DEF Tick, TypeOK, Shape, RecordShape
  <2>2. CASE BumpEpoch
    BY <2>2 DEF BumpEpoch, TypeOK, Shape, RecordShape
  <2>3. CASE Restart
    BY <2>3, IdleType DEF Restart, TypeOK, Shape, RecordShape, HostStages, SvidStages
  <2>4. ASSUME NEW t \in Tasks, NEW h \in Hosts, AttestEvidence(t, h)
        PROVE  TypeOK' /\ Shape'
    <3>1. Becomes(t, Running("csr", h, clock, 0, NoRecord, policy_epoch))
      BY <2>4 DEF AttestEvidence
    <3>2. "csr" \in Stages /\ "csr" \notin SvidStages /\ RecordShape(NoRecord)
      BY DEF Stages, SvidStages, RecordShape
    <3> QED BY <2>4, <2>0, <3>1, <3>2, IdleType, TaskStep DEF AttestEvidence
  <2>5. ASSUME NEW t \in Tasks, NEW h \in Hosts, RevokeHost(t, h)
        PROVE  TypeOK' /\ Shape'
    <3>1. HostTarget(h) \in Targets(CertShas)
      BY DEF Targets
    <3>2. revocations' \in SUBSET CrlEntries(CertShas)
      BY <2>5, <2>0, <3>1, EntriesType DEF RevokeHost
    <3>3. Becomes(t, Running("publish", NoHost, clock, 0, NoRecord, 0))
          /\ host_bar' \in [Hosts -> Nat \cup {NotBarred}] /\ admin_calls' \in Nat
      BY <2>5, <2>0 DEF RevokeHost, AdminCall
    <3>4. /\ "publish" \in Stages /\ "publish" \notin SvidStages
          /\ "publish" \notin HostStages /\ RecordShape(NoRecord)
      BY DEF Stages, SvidStages, HostStages, RecordShape
    <3> QED BY <2>5, <2>0, <3>2, <3>3, <3>4, IdleType, TaskStep DEF RevokeHost
  <2>6. ASSUME NEW t \in Tasks, NEW h \in Hosts, UnrevokeHost(t, h)
        PROVE  TypeOK' /\ Shape'
    <3>1. Becomes(t, Running("unrevoke", h, clock, 0, NoRecord, 0)) /\ admin_calls' \in Nat
      BY <2>6, <2>0 DEF UnrevokeHost, AdminCall
    <3>2. "unrevoke" \in Stages /\ "unrevoke" \notin SvidStages /\ RecordShape(NoRecord)
      BY DEF Stages, SvidStages, RecordShape
    <3> QED BY <2>6, <2>0, <3>1, <3>2, IdleType, TaskStep DEF UnrevokeHost
  <2>7. ASSUME NEW t \in Tasks, NEW s \in sent, RotateAuthenticate(t, s)
        PROVE  TypeOK' /\ Shape'
    <3>1. s \in 1 .. Len(svids) /\ s \in Nat /\ svids[s].host \in Hosts
      BY <2>0, SvidFields
    <3>2. Becomes(t, Running("lookup", svids[s].host, clock, s, NoRecord, 0))
      BY <2>7 DEF RotateAuthenticate
    <3>3. "lookup" \in Stages /\ RecordShape(NoRecord)
      BY DEF Stages, RecordShape
    <3> QED BY <2>7, <2>0, <3>1, <3>2, <3>3, IdleType, TaskStep DEF RotateAuthenticate
  <2>8. ASSUME NEW t \in Tasks, NEW s \in sent, RevokeSvid(t, s)
        PROVE  TypeOK' /\ Shape'
    <3>1. s \in 1 .. Len(svids) /\ s \in 1 .. MaxSvids /\ s \in Nat
      BY <2>0, IssuanceAssumption
    <3>2. revocations' \in SUBSET CrlEntries(CertShas)
      BY <2>8, <2>0, <3>1, EntriesType, DigestType DEF RevokeSvid
    <3>3. Becomes(t, Running("pair", NoHost, clock, s, NoRecord, 0)) /\ admin_calls' \in Nat
      BY <2>8, <2>0 DEF RevokeSvid, AdminCall
    <3>4. "pair" \in Stages /\ "pair" \notin HostStages /\ RecordShape(NoRecord)
      BY DEF Stages, HostStages, RecordShape
    <3> QED BY <2>8, <2>0, <3>1, <3>2, <3>3, <3>4, IdleType, TaskStep DEF RevokeSvid
  <2>9. ASSUME NEW t \in Tasks, AttestIssue(t) PROVE TypeOK' /\ Shape'
    <3> DEFINE s == Len(svids) + 1
               now == task[t].now
               new == [host |-> task[t].host, iat |-> now, exp |-> now + SvidTtl,
                       parent |-> 0, root |-> s, epoch |-> policy_epoch,
                       evidence_epoch |-> task[t].epoch]
               rec == [svid |-> s, at |-> now, policy_epoch |-> policy_epoch]
    <3>1. task[t].host \in Hosts
      BY <2>9 DEF AttestIssue, Shape, HostStages
    <3>2. new \in Svids /\ rec \in Records /\ rec.svid = s
      BY <3>1, <2>0, IssuanceAssumption DEF Svids, Records
    <3>3. /\ svids' = Append(svids, new) /\ Len(svids) < MaxSvids
          /\ Becomes(t, Running("record", task[t].host, now, s, rec, 0))
      BY <2>9 DEF AttestIssue
    <3> HIDE DEF new, rec
    <3> QED BY <2>9, <2>0, <3>1, <3>2, <3>3, MintStep DEF AttestIssue
  <2>10. ASSUME NEW t \in Tasks, AttestRecord(t) PROVE TypeOK' /\ Shape'
    <3>1. task[t].host \in Hosts /\ task[t].svid \in 1 .. Len(svids)
          /\ RecordShape(task[t].rec)
      BY <2>10 DEF AttestRecord, Shape, HostStages, SvidStages
    <3> QED BY <2>10, <2>0, <3>1, StoreStep DEF AttestRecord
  <2>11. ASSUME NEW t \in Tasks, RotateLookup(t) PROVE TypeOK' /\ Shape'
    <3>1. task[t].host \in Hosts /\ task[t].svid \in 1 .. Len(svids)
          /\ RecordShape(store[task[t].host]) /\ store[task[t].host] \in Records
      BY <2>11, <2>0 DEF RotateLookup, Shape, HostStages, SvidStages
    <3>2. Becomes(t, Running("issue", task[t].host, task[t].now, task[t].svid,
                             store[task[t].host], 0))
      BY <2>11 DEF RotateLookup
    <3>3. "issue" \in Stages
      BY DEF Stages
    <3> QED BY <2>11, <2>0, <3>1, <3>2, <3>3, TaskStep DEF RotateLookup
  <2>12. ASSUME NEW t \in Tasks, RotateIssue(t) PROVE TypeOK' /\ Shape'
    <3> DEFINE s == Len(svids) + 1
               now == task[t].now
               old == task[t].svid
               new == [host |-> task[t].host, iat |-> now, exp |-> now + SvidTtl,
                       parent |-> old, root |-> svids[old].root, epoch |-> policy_epoch,
                       evidence_epoch |-> svids[old].evidence_epoch]
    <3>1. task[t].host \in Hosts /\ old \in 1 .. Len(svids)
      BY <2>12 DEF RotateIssue, Shape, HostStages, SvidStages
    <3>2. svids[old].root \in Nat /\ svids[old].evidence_epoch \in Nat
      BY <3>1, <2>0, SvidFields
    <3>3. new \in Svids
      <4>1. now \in Nat /\ now + SvidTtl \in Nat /\ old \in Nat /\ policy_epoch \in Nat
        BY <2>0, IssuanceAssumption
      <4> HIDE DEF now, old
      <4> QED BY <3>1, <3>2, <4>1 DEF Svids
    <3>4. /\ svids' = Append(svids, new) /\ Len(svids) < MaxSvids
          /\ Becomes(t, Running("fetch", task[t].host, now, s, NoRecord, 0))
      BY <2>12 DEF RotateIssue
    <3> HIDE DEF new
    <3> QED BY <2>12, <2>0, <3>1, <3>3, <3>4, IdleType, MintStep DEF RotateIssue
  <2>13. ASSUME NEW t \in Tasks, RotateFetch(t) PROVE TypeOK' /\ Shape'
    <3>1. task[t].host \in Hosts /\ task[t].svid \in 1 .. Len(svids)
          /\ RecordShape(store[task[t].host]) /\ store[task[t].host] \in Records
      BY <2>13, <2>0 DEF RotateFetch, Shape, HostStages, SvidStages
    <3>2. Becomes(t, Running("swap", task[t].host, task[t].now, task[t].svid,
                             store[task[t].host], 0))
      BY <2>13 DEF RotateFetch
    <3>3. "swap" \in Stages
      BY DEF Stages
    <3> QED BY <2>13, <2>0, <3>1, <3>2, <3>3, TaskStep DEF RotateFetch
  <2>14. ASSUME NEW t \in Tasks, RotateSwap(t) PROVE TypeOK' /\ Shape'
    <3> DEFINE rec == [task[t].rec EXCEPT !.svid = task[t].svid]
    <3>1. task[t].host \in Hosts /\ task[t].svid \in 1 .. Len(svids)
      BY <2>14 DEF RotateSwap, Shape, HostStages, SvidStages
    <3>2. rec \in Records /\ rec.svid = task[t].svid
      BY <2>0, <3>1 DEF Records
    <3>3. store' = [store EXCEPT ![task[t].host] = rec]
      BY <2>14 DEF RotateSwap
    <3> HIDE DEF rec
    <3>4. RecordShape(rec)
      BY <3>1, <3>2 DEF RecordShape
    <3> QED BY <2>14, <2>0, <3>1, <3>2, <3>3, <3>4, StoreStep DEF RotateSwap
  <2>15. ASSUME NEW t \in Tasks, RevokePair(t) PROVE TypeOK' /\ Shape'
    <3>1. task[t].svid \in 1 .. MaxSvids
      BY <2>15, <2>0, IssuanceAssumption DEF RevokePair, Shape, SvidStages
    <3>2. revocations' \in SUBSET CrlEntries(CertShas)
      <4>1. \/ revocations' = revocations
            \/ revocations' = revoke(revocations, SvidTarget(X509(task[t].svid)), task[t].now)
        BY <2>15 DEF RevokePair
      <4>2. SvidTarget(X509(task[t].svid)) \in Targets(CertShas)
        BY <3>1, DigestType
      <4>3. task[t].now \in Nat /\ revocations \in SUBSET CrlEntries(CertShas)
        BY <2>0
      <4>4. revoke(revocations, SvidTarget(X509(task[t].svid)), task[t].now)
            \in SUBSET CrlEntries(CertShas)
        BY <4>2, <4>3, EntriesType
      <4> QED BY <4>1, <4>3, <4>4
    <3>3. Becomes(t, Running("publish", NoHost, task[t].now, 0, NoRecord, 0))
      BY <2>15 DEF RevokePair
    <3>4. /\ "publish" \in Stages /\ "publish" \notin SvidStages
          /\ "publish" \notin HostStages /\ RecordShape(NoRecord)
      BY DEF Stages, SvidStages, HostStages, RecordShape
    <3> QED BY <2>15, <2>0, <3>2, <3>3, <3>4, IdleType, TaskStep DEF RevokePair
  <2>16. ASSUME NEW t \in Tasks, UnrevokeLookup(t) PROVE TypeOK' /\ Shape'
    <3>1. task[t].host \in Hosts
          /\ RecordShape(store[task[t].host]) /\ store[task[t].host] \in Records
      BY <2>16, <2>0 DEF UnrevokeLookup, Shape, HostStages
    <3>2. Becomes(t, Running("lift", task[t].host, task[t].now, 0, store[task[t].host], 0))
      BY <2>16 DEF UnrevokeLookup
    <3>3. "lift" \in Stages /\ "lift" \notin SvidStages
      BY DEF Stages, SvidStages
    <3> QED BY <2>16, <2>0, <3>1, <3>2, <3>3, TaskStep DEF UnrevokeLookup
  <2>17. ASSUME NEW t \in Tasks, UnrevokeLift(t) PROVE TypeOK' /\ Shape'
    <3>1. task[t].host \in Hosts /\ RecordShape(task[t].rec)
      BY <2>17 DEF UnrevokeLift, Shape, HostStages
    <3>2. KeepRevoked(task[t].rec) \in SUBSET CertShas
      BY <3>1, <2>0, DigestType, IssuanceAssumption DEF KeepRevoked, RecordShape
    <3>3. revocations' \in SUBSET CrlEntries(CertShas)
      BY <2>17, <2>0, <3>2, EntriesType DEF UnrevokeLift
    <3>4. Becomes(t, Running("publish", NoHost, task[t].now, 0, NoRecord, 0))
          /\ host_bar' \in [Hosts -> Nat \cup {NotBarred}]
      BY <2>17, <2>0 DEF UnrevokeLift
    <3>5. /\ "publish" \in Stages /\ "publish" \notin SvidStages
          /\ "publish" \notin HostStages /\ RecordShape(NoRecord)
      BY DEF Stages, SvidStages, HostStages, RecordShape
    <3> QED BY <2>17, <2>0, <3>3, <3>4, <3>5, IdleType, TaskStep DEF UnrevokeLift
  <2>18. ASSUME NEW t \in Tasks, PublisherTick(t) PROVE TypeOK' /\ Shape'
    <3>1. Becomes(t, Running("publish", NoHost, clock, 0, NoRecord, 0)) /\ admin_calls' \in Nat
      BY <2>18, <2>0 DEF PublisherTick, AdminCall
    <3>2. /\ "publish" \in Stages /\ "publish" \notin SvidStages
          /\ "publish" \notin HostStages /\ RecordShape(NoRecord)
      BY DEF Stages, SvidStages, HostStages, RecordShape
    <3> QED BY <2>18, <2>0, <3>1, <3>2, IdleType, TaskStep DEF PublisherTick
  <2>19. ASSUME NEW t \in Tasks, Publish(t) \/ Fail(t) PROVE TypeOK' /\ Shape'
    <3>1. revocations' \in SUBSET CrlEntries(CertShas)
      BY <2>19, <2>0, EntriesType DEF Publish, Fail
    <3>2. Becomes(t, Running("idle", NoHost, 0, 0, NoRecord, 0))
      BY <2>19 DEF Publish, Fail, Idle
    <3>3. /\ "idle" \in Stages /\ "idle" \notin SvidStages
          /\ "idle" \notin HostStages /\ RecordShape(NoRecord)
      BY DEF Stages, SvidStages, HostStages, RecordShape
    <3> QED BY <2>19, <2>0, <3>1, <3>2, <3>3, IdleType, TaskStep DEF Publish, Fail
  <2>20. CASE UNCHANGED vars
    BY <2>20 DEF vars, TypeOK, Shape, RecordShape
  <2> QED
    BY <2>1, <2>2, <2>3, <2>4, <2>5, <2>6, <2>7, <2>8, <2>9, <2>10, <2>11, <2>12, <2>13,
       <2>14, <2>15, <2>16, <2>17, <2>18, <2>19, <2>20
    DEF Next, AttestStep, RotateStep, AdminStep
<1> QED BY <1>1, <1>2, PTL DEF Spec

\* The type invariant holds in every reachable state.
THEOREM TypeCorrect == Spec => []TypeOK
BY Typing, PTL

-----------------------------------------------------------------------------
(* Renewals.  What is in the store has left the node, an SVID a handler    *)
(* still has to store has not, and a renewal's parent has: so the SVID a   *)
(* renewal replaced can never be stored again.                             *)

SvidsOk ==
    \A s \in 1 .. Len(svids) :
        /\ svids[s].root \in 1 .. Len(svids)
        /\ svids[s].parent # 0 => /\ svids[s].parent \in sent
                                  /\ svids[svids[s].parent].host = svids[s].host
                                  /\ svids[svids[s].parent].root = svids[s].root

\* A record names an SVID of its host and the time of its attestation.
RecordOk(rec, h) ==
    rec # NoRecord => /\ svids[rec.svid].host = h
                      /\ rec.at = svids[svids[rec.svid].root].iat

StoreOk ==
    \A h \in Hosts : RecordOk(store[h], h) /\ (store[h] # NoRecord => store[h].svid \in sent)

Tracked == {"record", "lookup", "issue", "fetch", "swap"}
Pending(t) == task[t].pc \in {"record", "fetch", "swap"}

TasksOk ==
    \A t \in Tasks :
        /\ task[t].pc \in Tracked => svids[task[t].svid].host = task[t].host
        /\ task[t].pc \in {"lookup", "issue"} => task[t].svid \in sent
        /\ task[t].pc \in {"record", "issue", "swap"} => RecordOk(task[t].rec, task[t].host)
        /\ task[t].pc = "record" => /\ task[t].rec.svid = task[t].svid
                                    /\ svids[task[t].svid].parent = 0
        /\ task[t].pc \in {"fetch", "swap"} => svids[task[t].svid].parent # 0
        /\ task[t].pc = "swap" => task[t].rec.svid = svids[task[t].svid].parent

PendingOk ==
    \A t \in Tasks : Pending(t) =>
        /\ task[t].svid \notin sent
        /\ \A u \in Tasks : Pending(u) /\ task[u].svid = task[t].svid => u = t

LandedOk ==
    /\ landed \subseteq sent
    /\ \A s \in landed : /\ svids[s].parent # 0
                         /\ \A h \in Hosts : store[h].svid # svids[s].parent

Chain ==
    /\ SvidsOk
    /\ RenewalsWithinWindow
    /\ StoreOk
    /\ TasksOk
    /\ PendingOk
    /\ LandedOk
    /\ RenewedAtMostOnce

\* Facts about indices and locals that the steps below use.
LEMMA Indices ==
    ASSUME TypeOK, Shape
    PROVE  /\ svids \in Seq(Svids) /\ Len(svids) \in Nat
           /\ sent \subseteq 1 .. Len(svids) /\ landed \subseteq 1 .. Len(svids)
           /\ \A s \in 1 .. Len(svids) : svids[s].iat \in Nat /\ svids[s].parent \in Nat
                                         /\ svids[s].host \in Hosts
           /\ \A t \in Tasks : task[t].pc \in Tracked =>
                 task[t].svid \in 1 .. Len(svids) /\ task[t].host \in Hosts
           /\ \A t \in Tasks : task[t].now \in Nat /\ task[t].rec \in Records
                               /\ task[t].rec.at \in Nat
           /\ task \in [Tasks -> Locals]
           /\ store \in [Hosts -> Records]
           /\ \A h \in Hosts : store[h] = NoRecord \/ store[h].svid \in 1 .. Len(svids)
           /\ \A t \in Tasks : task[t].rec = NoRecord \/ task[t].rec.svid \in 1 .. Len(svids)
<1>1. svids \in Seq(Svids) /\ Len(svids) \in Nat
  BY DEF TypeOK
<1>2. \A s \in 1 .. Len(svids) : svids[s].iat \in Nat /\ svids[s].parent \in Nat
                                 /\ svids[s].host \in Hosts
  BY <1>1, SvidFields
<1>3. \A t \in Tasks : task[t].now \in Nat /\ task[t].rec \in Records
                       /\ task[t].rec.at \in Nat
  BY DEF TypeOK, Locals, Records
<1>4. \A t \in Tasks : task[t].pc \in Tracked =>
         task[t].svid \in 1 .. Len(svids) /\ task[t].host \in Hosts
  BY DEF Shape, HostStages, SvidStages, Tracked
<1> QED BY <1>1, <1>2, <1>3, <1>4 DEF TypeOK, Shape, RecordShape

\* Steps that mint nothing, store nothing and leave every task where it was
\* or outside the handlers that issue.
LEMMA QuietStep ==
    ASSUME Chain, UNCHANGED <<svids, store, sent, landed>>,
           \A u \in Tasks : task'[u] = task[u] \/ task'[u].pc \notin Tracked
    PROVE  Chain'
<1>1. SvidsOk' /\ RenewalsWithinWindow' /\ LandedOk' /\ RenewedAtMostOnce'
  BY DEF Chain, SvidsOk, RenewalsWithinWindow, LandedOk, RenewedAtMostOnce
<1>2. StoreOk'
  BY DEF Chain, StoreOk, RecordOk
<1>3. TasksOk'
  BY DEF Chain, TasksOk, RecordOk, Tracked
<1>4. PendingOk'
  BY DEF Chain, PendingOk, Pending, Tracked
<1> QED BY <1>1, <1>2, <1>3, <1>4 DEF Chain

\* Authentication, and the two reads of the record.
LEMMA ReadStep ==
    ASSUME TypeOK, Shape, Chain, NEW t \in Tasks, UNCHANGED <<svids, store, sent, landed>>,
           \/ \E s \in sent : RotateAuthenticate(t, s)
           \/ RotateLookup(t)
           \/ RotateFetch(t)
    PROVE  Chain'
<1>1. task \in [Tasks -> Locals]
  BY DEF TypeOK
<1>2. SvidsOk' /\ RenewalsWithinWindow' /\ LandedOk' /\ RenewedAtMostOnce'
  BY DEF Chain, SvidsOk, RenewalsWithinWindow, LandedOk, RenewedAtMostOnce
<1>3. StoreOk'
  BY DEF Chain, StoreOk, RecordOk
<1>4. \A u \in Tasks : u # t => task'[u] = task[u]
  BY <1>1 DEF RotateAuthenticate, RotateLookup, RotateFetch, Becomes
<1>5. CASE \E s \in sent : RotateAuthenticate(t, s)
  <2>1. PICK s \in sent : RotateAuthenticate(t, s)
    BY <1>5
  <2>2. task'[t] = Running("lookup", svids[s].host, clock, s, NoRecord, 0)
    BY <1>1, <2>1 DEF RotateAuthenticate, Becomes
  <2>3. /\ task'[t].pc = "lookup" /\ task'[t].host = svids[s].host /\ task'[t].svid = s
    BY <2>2 DEF Running
  <2>4. TasksOk'
    BY <1>4, <2>3 DEF Chain, TasksOk, RecordOk, Tracked
  <2>5. PendingOk'
    BY <1>4, <2>3 DEF Chain, PendingOk, Pending
  <2> QED BY <1>2, <1>3, <2>4, <2>5 DEF Chain
<1>6. CASE RotateLookup(t)
  <2>1. /\ task[t].pc = "lookup"
        /\ task'[t] = Running("issue", task[t].host, task[t].now, task[t].svid,
                              store[task[t].host], 0)
    BY <1>1, <1>6 DEF RotateLookup, Becomes
  <2>2. /\ task'[t].pc = "issue" /\ task'[t].host = task[t].host
        /\ task'[t].svid = task[t].svid /\ task'[t].rec = store[task[t].host]
    BY <2>1 DEF Running
  <2>3. task[t].host \in Hosts
    BY <2>1, Indices DEF Tracked
  <2>4. TasksOk'
    BY <1>4, <2>1, <2>2, <2>3 DEF Chain, StoreOk, TasksOk, RecordOk, Tracked
  <2>5. PendingOk'
    BY <1>4, <2>2 DEF Chain, PendingOk, Pending
  <2> QED BY <1>2, <1>3, <2>4, <2>5 DEF Chain
<1>7. CASE RotateFetch(t)
  <2>1. /\ task[t].pc = "fetch"
        /\ store[task[t].host].svid = svids[task[t].svid].parent
        /\ task'[t] = Running("swap", task[t].host, task[t].now, task[t].svid,
                              store[task[t].host], 0)
    BY <1>1, <1>7 DEF RotateFetch, Becomes
  <2>2. /\ task'[t].pc = "swap" /\ task'[t].host = task[t].host
        /\ task'[t].svid = task[t].svid /\ task'[t].rec = store[task[t].host]
    BY <2>1 DEF Running
  <2>3. task[t].host \in Hosts
    BY <2>1, Indices DEF Tracked
  <2>4. TasksOk'
    BY <1>4, <2>1, <2>2, <2>3 DEF Chain, StoreOk, TasksOk, RecordOk, Tracked
  <2>5. PendingOk'
    BY <1>4, <2>1, <2>2 DEF Chain, PendingOk, Pending
  <2> QED BY <1>2, <1>3, <2>4, <2>5 DEF Chain
<1> QED BY <1>5, <1>6, <1>7

\* A difference within a bound.
LEMMA Apart ==
    ASSUME NEW a \in Nat, NEW b \in Nat, NEW w \in Nat, a - b <= w
    PROVE  a <= b + w
OBVIOUS

\* Minting an SVID: of an attestation, which is its own root, or of a renewal
\* within the window of the root it inherits.
LEMMA MintChain ==
    ASSUME TypeOK, Shape, Chain, NEW t \in Tasks, NEW new \in Svids, NEW local \in Locals,
           svids' = Append(svids, new), UNCHANGED <<store, sent, landed>>,
           Becomes(t, local), local.svid = Len(svids) + 1, local.host = new.host,
           \/ /\ local.pc = "record"
              /\ local.rec.svid = Len(svids) + 1 /\ local.rec.at = new.iat
              /\ new.parent = 0 /\ new.root = Len(svids) + 1
           \/ /\ local.pc = "fetch"
              /\ new.parent \in sent /\ new.parent # 0
              /\ new.host = svids[new.parent].host /\ new.root = svids[new.parent].root
              /\ new.iat <= svids[new.root].iat + REATTEST_WINDOW_SECS
    PROVE  Chain'
<1> DEFINE s == Len(svids) + 1
<1>1. /\ Len(svids) \in Nat /\ Len(svids') = s /\ s \in 1 .. s /\ s \notin 1 .. Len(svids)
      /\ \A x \in 1 .. s : x = s \/ x \in 1 .. Len(svids)
      /\ 1 .. Len(svids) \subseteq 1 .. s
      /\ svids'[s] = new
      /\ \A x \in 1 .. Len(svids) : svids'[x] = svids[x]
  BY Indices, Minted
<1>2. /\ sent \subseteq 1 .. Len(svids) /\ landed \subseteq 1 .. Len(svids) /\ s \notin sent
      /\ new.iat \in Nat
  BY <1>1, Indices DEF Svids
<1>3. /\ \A x \in 1 .. Len(svids) : svids[x].root \in 1 .. Len(svids)
      /\ \A x \in 1 .. Len(svids) : svids[x].parent # 0 => svids[x].parent \in 1 .. Len(svids)
  BY <1>2 DEF Chain, SvidsOk
<1>4. /\ task \in [Tasks -> Locals] /\ task' = [task EXCEPT ![t] = local]
  BY Indices DEF Becomes
<1>5. \A u \in Tasks : u # t => task'[u] = task[u]
  BY <1>4
<1>6. task'[t] = local
  BY <1>4
<1> HIDE DEF s
<1>7. SvidsOk'
  <2>1. ASSUME NEW x \in 1 .. Len(svids)
        PROVE  /\ svids'[x].root \in 1 .. Len(svids')
               /\ svids'[x].parent # 0 => /\ svids'[x].parent \in sent'
                                          /\ svids'[svids'[x].parent].host = svids'[x].host
                                          /\ svids'[svids'[x].parent].root = svids'[x].root
    BY <1>1, <1>3 DEF Chain, SvidsOk
  <2>2. /\ new.root \in 1 .. Len(svids')
        /\ new.parent # 0 => /\ new.parent \in sent'
                             /\ svids'[new.parent].host = new.host
                             /\ svids'[new.parent].root = new.root
    BY <1>1, <1>2, <1>3 DEF s
  <2> QED BY <1>1, <2>1, <2>2 DEF SvidsOk
<1>8. RenewalsWithinWindow'
  <2>1. ASSUME NEW x \in 1 .. Len(svids)
        PROVE  svids'[x].iat <= svids'[svids'[x].root].iat + REATTEST_WINDOW_SECS
    BY <1>1, <1>3 DEF Chain, RenewalsWithinWindow
  <2>2. new.iat <= svids'[new.root].iat + REATTEST_WINDOW_SECS
    <3>1. CASE new.root = s
      BY <1>1, <1>2, <3>1, IssuanceAssumption
    <3>2. CASE new.parent \in sent /\ new.root = svids[new.parent].root
               /\ new.iat <= svids[new.root].iat + REATTEST_WINDOW_SECS
      BY <1>1, <1>2, <1>3, <3>2
    <3> QED BY <3>1, <3>2 DEF s
  <2> QED BY <1>1, <2>1, <2>2 DEF RenewalsWithinWindow
<1>9. ASSUME NEW rec, NEW h, RecordOk(rec, h), rec # NoRecord => rec.svid \in 1 .. Len(svids)
      PROVE  rec # NoRecord => /\ svids'[rec.svid].host = h
                               /\ rec.at = svids'[svids'[rec.svid].root].iat
  <2>1. ASSUME rec # NoRecord
        PROVE  /\ svids'[rec.svid].host = h
               /\ rec.at = svids'[svids'[rec.svid].root].iat
    <3>1. rec.svid \in 1 .. Len(svids)
      BY <1>9, <2>1
    <3>2. svids'[rec.svid] = svids[rec.svid] /\ svids[rec.svid].root \in 1 .. Len(svids)
      BY <1>1, <1>3, <3>1
    <3>3. svids'[svids[rec.svid].root] = svids[svids[rec.svid].root]
      BY <1>1, <3>2
    <3> QED BY <1>9, <2>1, <3>2, <3>3 DEF RecordOk
  <2> QED BY <2>1
<1>10. StoreOk'
  <2> SUFFICES ASSUME NEW h \in Hosts
               PROVE  (RecordOk(store[h], h) /\ (store[h] # NoRecord => store[h].svid \in sent))'
    BY DEF StoreOk
  <2>1. RecordOk(store[h], h) /\ (store[h] # NoRecord => store[h].svid \in sent)
    BY DEF Chain, StoreOk
  <2>2. store[h] # NoRecord => store[h].svid \in 1 .. Len(svids)
    BY <1>2, <2>1
  <2>3. store[h] # NoRecord => /\ svids'[store[h].svid].host = h
                               /\ store[h].at = svids'[svids'[store[h].svid].root].iat
    BY <1>9, <2>1, <2>2
  <2> QED BY <2>1, <2>3 DEF RecordOk
<1>11. TasksOk'
  <2>1. ASSUME NEW u \in Tasks, u # t
        PROVE  /\ task'[u].pc \in Tracked => svids'[task'[u].svid].host = task'[u].host
               /\ task'[u].pc \in {"lookup", "issue"} => task'[u].svid \in sent'
               /\ task'[u].pc \in {"record", "issue", "swap"} =>
                     (RecordOk(task[u].rec, task[u].host))'
               /\ task'[u].pc = "record" => /\ task'[u].rec.svid = task'[u].svid
                                            /\ svids'[task'[u].svid].parent = 0
               /\ task'[u].pc \in {"fetch", "swap"} => svids'[task'[u].svid].parent # 0
               /\ task'[u].pc = "swap" => task'[u].rec.svid = svids'[task'[u].svid].parent
    <3>1. task'[u] = task[u]
      BY <2>1, <1>5
    <3>2. task[u].pc \in Tracked => task[u].svid \in 1 .. Len(svids)
      BY Indices
    <3>3. task[u].pc \in {"record", "issue", "swap"} => (RecordOk(task[u].rec, task[u].host))'
      <4> SUFFICES ASSUME task[u].pc \in {"record", "issue", "swap"}
                   PROVE  (RecordOk(task[u].rec, task[u].host))'
        OBVIOUS
      <4>1. RecordOk(task[u].rec, task[u].host)
        BY DEF Chain, TasksOk
      <4>2. task[u].rec # NoRecord => task[u].rec.svid \in 1 .. Len(svids)
        BY Indices
      <4>3. task[u].rec # NoRecord =>
              /\ svids'[task[u].rec.svid].host = task[u].host
              /\ task[u].rec.at = svids'[svids'[task[u].rec.svid].root].iat
        BY <1>9, <4>1, <4>2
      <4> QED BY <3>1, <4>3 DEF RecordOk
    <3> QED BY <1>1, <3>1, <3>2, <3>3 DEF Chain, TasksOk, Tracked
  <2>2. /\ svids'[local.svid].host = local.host
        /\ local.pc \notin {"lookup", "issue", "swap"}
        /\ local.pc = "record" => /\ local.rec.svid = local.svid
                                  /\ svids'[local.svid].parent = 0
                                  /\ svids'[local.rec.svid].host = local.host
                                  /\ local.rec.at = svids'[svids'[local.rec.svid].root].iat
        /\ local.pc = "fetch" => svids'[local.svid].parent # 0
    BY <1>1 DEF s
  <2> QED BY <1>6, <2>1, <2>2 DEF TasksOk, RecordOk
<1>12. PendingOk'
  <2>1. \A u \in Tasks : u # t /\ Pending(u) => task[u].svid # s
    BY <1>1, Indices DEF Pending, Tracked
  <2>2. local.svid = s
    BY DEF s
  <2> QED BY <1>2, <1>5, <1>6, <2>1, <2>2 DEF Chain, PendingOk, Pending
<1>13. LandedOk' /\ RenewedAtMostOnce'
  BY <1>1, <1>2 DEF Chain, LandedOk, RenewedAtMostOnce
<1> QED BY <1>7, <1>8, <1>10, <1>11, <1>12, <1>13 DEF Chain

\* A full attestation stores its record, or fails to, and sends the SVID.
LEMMA RecordChain ==
    ASSUME TypeOK, Shape, Chain, NEW t \in Tasks, AttestRecord(t)
    PROVE  Chain'
<1> DEFINE h == task[t].host
           s == task[t].svid
           rec == task[t].rec
<1>1. /\ task[t].pc = "record" /\ h \in Hosts /\ s \in 1 .. Len(svids)
      /\ rec.svid = s /\ RecordOk(rec, h) /\ svids[s].parent = 0 /\ s \notin sent
  BY Indices DEF AttestRecord, Chain, TasksOk, PendingOk, Pending, Tracked
<1>2. /\ UNCHANGED <<svids, landed>> /\ sent' = sent \cup {s}
      /\ store' \in {store, [store EXCEPT ![h] = rec]}
      /\ task' = [task EXCEPT ![t] = Idle] /\ task \in [Tasks -> Locals]
      /\ store \in [Hosts -> Records]
  BY Indices DEF AttestRecord, Becomes
<1>3. /\ \A u \in Tasks : u # t => task'[u] = task[u]
      /\ task'[t].pc = "idle"
      /\ \A g \in Hosts : store'[g] = store[g] \/ (g = h /\ store'[g] = rec)
  BY <1>1, <1>2, IdleType
<1> HIDE DEF h, s, rec
<1>4. SvidsOk' /\ RenewalsWithinWindow'
  BY <1>2 DEF Chain, SvidsOk, RenewalsWithinWindow
<1>5. StoreOk'
  BY <1>1, <1>2, <1>3 DEF Chain, StoreOk, RecordOk
<1>6. TasksOk'
  BY <1>2, <1>3 DEF Chain, TasksOk, RecordOk, Tracked
<1>7. PendingOk'
  <2>1. \A u \in Tasks : u # t /\ Pending(u) => task[u].svid # s
    BY <1>1 DEF Chain, PendingOk, Pending, s
  <2> QED BY <1>2, <1>3, <2>1 DEF Chain, PendingOk, Pending
<1>8. LandedOk'
  <2>1. \A b \in landed : b \in 1 .. Len(svids) /\ svids[b].parent \in sent
    BY Indices DEF Chain, LandedOk, SvidsOk
  <2>2. \A b \in landed : svids[b].parent # s
    BY <1>1, <2>1
  <2> QED BY <1>1, <1>2, <1>3, <2>2 DEF Chain, LandedOk
<1>9. RenewedAtMostOnce'
  BY <1>1, <1>2 DEF Chain, RenewedAtMostOnce
<1> QED BY <1>4, <1>5, <1>6, <1>7, <1>8, <1>9 DEF Chain

\* A swap that lands is the only one that ever replaces the presented SVID.
LEMMA SwapChain ==
    ASSUME TypeOK, Shape, Chain, NEW t \in Tasks, RotateSwap(t)
    PROVE  Chain'
<1> DEFINE h == task[t].host
           s == task[t].svid
           p == svids[s].parent
           rec == [task[t].rec EXCEPT !.svid = s]
<1>1. /\ task[t].pc = "swap" /\ h \in Hosts /\ s \in 1 .. Len(svids) /\ s \notin sent
      /\ p # 0 /\ task[t].rec.svid = p /\ RecordOk(task[t].rec, h) /\ svids[s].host = h
      /\ store[h] = task[t].rec /\ task[t].rec \in Records
  BY Indices DEF RotateSwap, Chain, TasksOk, PendingOk, Pending, Tracked
<1>2. /\ p \in sent /\ p \in 1 .. Len(svids) /\ svids[p].host = h
      /\ svids[p].root = svids[s].root
  BY <1>1, Indices DEF Chain, SvidsOk
<1>3. /\ rec.svid = s /\ rec.at = task[t].rec.at /\ task[t].rec # NoRecord
  BY <1>1, IdleType DEF Records
<1>4. /\ UNCHANGED svids /\ sent' = sent \cup {s} /\ landed' = landed \cup {s}
      /\ store' = [store EXCEPT ![h] = rec]
      /\ task' = [task EXCEPT ![t] = Idle] /\ task \in [Tasks -> Locals]
      /\ store \in [Hosts -> Records]
  BY Indices DEF RotateSwap, Becomes
<1>5. /\ \A u \in Tasks : u # t => task'[u] = task[u]
      /\ task'[t].pc = "idle"
      /\ \A g \in Hosts : g # h => store'[g] = store[g]
      /\ store'[h] = rec
  BY <1>1, <1>4, IdleType
<1>6. RecordOk(rec, h)
  BY <1>1, <1>2, <1>3 DEF RecordOk
<1> HIDE DEF h, s, p, rec
<1>7. SvidsOk' /\ RenewalsWithinWindow'
  BY <1>4 DEF Chain, SvidsOk, RenewalsWithinWindow
<1>8. StoreOk'
  <2>1. ASSUME NEW g \in Hosts
        PROVE  /\ store'[g] # NoRecord => /\ svids'[store'[g].svid].host = g
                                          /\ store'[g].at = svids'[svids'[store'[g].svid].root].iat
               /\ store'[g] # NoRecord => store'[g].svid \in sent'
    BY <1>3, <1>4, <1>5, <1>6 DEF Chain, StoreOk, RecordOk
  <2> QED BY <2>1 DEF StoreOk, RecordOk
<1>9. TasksOk'
  BY <1>4, <1>5 DEF Chain, TasksOk, RecordOk, Tracked
<1>10. PendingOk'
  <2>1. \A u \in Tasks : u # t /\ Pending(u) => task[u].svid # s
    BY <1>1 DEF Chain, PendingOk, Pending, s
  <2> QED BY <1>4, <1>5, <2>1 DEF Chain, PendingOk, Pending
<1>11. \A b \in landed : /\ b \in 1 .. Len(svids) /\ svids[b].parent \in sent
                         /\ svids[b].parent # s /\ svids[b].parent # p
  <2>1. \A b \in landed : b \in 1 .. Len(svids) /\ svids[b].parent \in sent
    BY Indices DEF Chain, LandedOk, SvidsOk
  <2> QED BY <1>1, <2>1 DEF Chain, LandedOk
<1>12. \A g \in Hosts : g # h => store[g].svid # p
  BY <1>1, <1>2, IdleType DEF Chain, StoreOk, RecordOk
<1>13. svids[s].parent = p /\ p # s
  BY <1>1, <1>2 DEF p
<1>14. LandedOk'
  <2>1. \A b \in landed', g \in Hosts : store'[g].svid # svids'[b].parent
    BY <1>3, <1>4, <1>5, <1>11, <1>12, <1>13 DEF Chain, LandedOk
  <2> QED BY <1>1, <1>4, <1>13, <2>1 DEF Chain, LandedOk
<1>15. RenewedAtMostOnce'
  BY <1>4, <1>11, <1>13 DEF Chain, RenewedAtMostOnce
<1> QED BY <1>7, <1>8, <1>9, <1>10, <1>14, <1>15 DEF Chain

\* The chain of renewals keeps its invariant.
THEOREM Renewals == Spec => []Chain
<1>1. Init => Chain
  <2> SUFFICES ASSUME Init PROVE Chain
    OBVIOUS
  <2>1. Len(svids) = 0 /\ sent = {} /\ landed = {} /\ 1 .. Len(svids) = {}
    BY DEF Init
  <2>2. /\ \A t \in Tasks : task[t].pc \notin Tracked /\ ~ Pending(t)
        /\ \A h \in Hosts : store[h] = NoRecord
    BY IdleType DEF Init, Tracked, Pending
  <2>3. TasksOk /\ PendingOk
    BY <2>2 DEF TasksOk, PendingOk, Tracked
  <2> QED BY <2>1, <2>2, <2>3
      DEF Chain, SvidsOk, RenewalsWithinWindow, StoreOk, RecordOk, LandedOk, RenewedAtMostOnce
<1>2. TypeOK /\ Shape /\ Chain /\ [Next]_vars => Chain'
  <2> SUFFICES ASSUME TypeOK, Shape, Chain, [Next]_vars PROVE Chain'
    OBVIOUS
  <2>0. task \in [Tasks -> Locals]
    BY DEF TypeOK
  <2>1. CASE Tick \/ BumpEpoch \/ UNCHANGED vars
    BY <2>1, QuietStep DEF Tick, BumpEpoch, vars
  <2>2. CASE Restart
    BY <2>2, IdleType, QuietStep DEF Restart, Tracked
  <2>3. ASSUME NEW t \in Tasks, NEW h \in Hosts,
               AttestEvidence(t, h) \/ RevokeHost(t, h) \/ UnrevokeHost(t, h)
        PROVE  Chain'
    <3>1. UNCHANGED <<svids, store, sent, landed>>
      BY <2>3 DEF AttestEvidence, RevokeHost, UnrevokeHost
    <3>2. \A u \in Tasks : task'[u] = task[u] \/ task'[u].pc \notin Tracked
      BY <2>0, <2>3 DEF AttestEvidence, RevokeHost, UnrevokeHost, Becomes, Running, Tracked
    <3> QED BY <3>1, <3>2, QuietStep
  <2>4. ASSUME NEW t \in Tasks, NEW s \in sent, RotateAuthenticate(t, s) PROVE Chain'
    BY <2>4, ReadStep DEF RotateAuthenticate
  <2>5. ASSUME NEW t \in Tasks, NEW s \in sent, RevokeSvid(t, s) PROVE Chain'
    <3>1. \A u \in Tasks : task'[u] = task[u] \/ task'[u].pc \notin Tracked
      BY <2>0, <2>5 DEF RevokeSvid, Becomes, Running, Tracked
    <3> QED BY <2>5, <3>1, QuietStep DEF RevokeSvid
  <2>6. ASSUME NEW t \in Tasks, AttestIssue(t) PROVE Chain'
    <3> DEFINE s == Len(svids) + 1
               now == task[t].now
               new == [host |-> task[t].host, iat |-> now, exp |-> now + SvidTtl,
                       parent |-> 0, root |-> s, epoch |-> policy_epoch,
                       evidence_epoch |-> task[t].epoch]
               rec == [svid |-> s, at |-> now, policy_epoch |-> policy_epoch]
               local == Running("record", task[t].host, now, s, rec, 0)
    <3>1. task[t].host \in Hosts
      BY <2>6 DEF AttestIssue, Shape, HostStages
    <3>2. now \in Nat /\ now + SvidTtl \in Nat /\ s \in Nat /\ policy_epoch \in Nat
          /\ task[t].epoch \in Nat
      BY IssuanceAssumption DEF TypeOK, Locals
    <3>3. svids' = Append(svids, new) /\ Becomes(t, local)
      BY <2>6 DEF AttestIssue
    <3>4. /\ local.svid = s /\ local.host = new.host /\ local.pc = "record"
          /\ local.rec.svid = s /\ local.rec.at = new.iat /\ new.parent = 0 /\ new.root = s
      BY DEF Running
    <3> HIDE DEF s, now
    <3>5. new \in Svids /\ rec \in Records
      BY <3>1, <3>2 DEF Svids, Records
    <3>6. local \in Locals
      BY <3>1, <3>2, <3>5 DEF Running, Locals, Stages
    <3> HIDE DEF new, local, rec
    <3> QED BY <2>6, <3>3, <3>4, <3>5, <3>6, MintChain DEF AttestIssue, s
  <2>7. ASSUME NEW t \in Tasks, RotateIssue(t) PROVE Chain'
    <3> DEFINE s == Len(svids) + 1
               now == task[t].now
               old == task[t].svid
               new == [host |-> task[t].host, iat |-> now, exp |-> now + SvidTtl,
                       parent |-> old, root |-> svids[old].root, epoch |-> policy_epoch,
                       evidence_epoch |-> svids[old].evidence_epoch]
               local == Running("fetch", task[t].host, now, s, NoRecord, 0)
    <3>1. /\ task[t].host \in Hosts /\ old \in 1 .. Len(svids) /\ old \in sent
          /\ svids[old].host = task[t].host /\ task[t].rec.svid = old
          /\ RecordOk(task[t].rec, task[t].host)
      BY <2>7, Indices DEF RotateIssue, Chain, TasksOk, Tracked
    <3>2. svids[old].root \in Nat /\ svids[old].evidence_epoch \in Nat
      BY <3>1, Indices, SvidFields
    <3>3. now \in Nat /\ now + SvidTtl \in Nat /\ s \in Nat /\ policy_epoch \in Nat
          /\ old \in Nat /\ old # 0
      BY <3>1, IssuanceAssumption DEF TypeOK, Locals
    <3>4. task[t].rec.at = svids[svids[old].root].iat /\ task[t].rec.at \in Nat
      BY <3>1, <3>3, IdleType, Indices DEF RecordOk
    <3>5. now <= svids[svids[old].root].iat + REATTEST_WINDOW_SECS
      <4>1. now - task[t].rec.at <= REATTEST_WINDOW_SECS
        BY <2>7 DEF RotateIssue, ShortPath
      <4> QED BY <3>3, <3>4, <4>1, Apart, IssuanceAssumption
    <3>6. svids' = Append(svids, new) /\ Becomes(t, local)
      BY <2>7 DEF RotateIssue
    <3>7. /\ local.svid = s /\ local.host = new.host /\ local.pc = "fetch"
          /\ new.parent = old /\ new.root = svids[old].root /\ new.iat = now
          /\ new.host = task[t].host
      BY DEF Running
    <3> HIDE DEF s, now, old
    <3>8. new \in Svids
      BY <3>1, <3>2, <3>3 DEF Svids
    <3>9. local \in Locals
      BY <3>1, <3>3, IdleType DEF Running, Locals, Stages
    <3> HIDE DEF new, local
    <3> QED BY <2>7, <3>1, <3>3, <3>5, <3>6, <3>7, <3>8, <3>9, MintChain DEF RotateIssue, s
  <2>8. ASSUME NEW t \in Tasks, RotateLookup(t) \/ RotateFetch(t) PROVE Chain'
    BY <2>8, ReadStep DEF RotateLookup, RotateFetch
  <2>9. ASSUME NEW t \in Tasks, AdminStep(t) \/ PublisherTick(t) \/ Fail(t) PROVE Chain'
    <3>1. UNCHANGED <<svids, store, sent, landed>>
      BY <2>9 DEF AdminStep, RevokePair, UnrevokeLookup, UnrevokeLift, Publish,
                  PublisherTick, Fail
    <3>2. \A u \in Tasks : task'[u] = task[u] \/ task'[u].pc \notin Tracked
      BY <2>0, <2>9 DEF AdminStep, RevokePair, UnrevokeLookup, UnrevokeLift, Publish,
                        PublisherTick, Fail, Becomes, Running, Idle, Tracked
    <3> QED BY <3>1, <3>2, QuietStep
  <2> QED
    BY <2>1, <2>2, <2>3, <2>4, <2>5, <2>6, <2>7, <2>8, <2>9, RecordChain, SwapChain
    DEF Next, AttestStep, RotateStep
<1> QED BY <1>1, <1>2, Typing, PTL DEF Spec

\* An SVID is renewed at most once.
THEOREM RenewedOnce == Spec => []RenewedAtMostOnce
<1>1. Chain => RenewedAtMostOnce
  BY DEF Chain
<1> QED BY <1>1, Renewals, PTL

\* Renewals end with the window of their attestation.
THEOREM WindowBound == Spec => []RenewalsWithinWindow
<1>1. Chain => RenewalsWithinWindow
  BY DEF Chain
<1> QED BY <1>1, Renewals, PTL

-----------------------------------------------------------------------------
(* The bar of a revoked host.  While it stands the working set holds a host *)
(* entry that outlives it, so that a check made meanwhile refuses; what was *)
(* checked earlier carries a time no later than the bar.                    *)

Past ==
    /\ \A s \in 1 .. Len(svids) : svids[s].iat <= clock
    /\ \A t \in Tasks : task[t].now <= clock
    /\ \A h \in Hosts : host_bar[h] # NotBarred => host_bar[h] <= clock

Held(h) ==
    \E e \in revocations : /\ e.target = HostTarget(h)
                           /\ e.expires_at >= host_bar[h] + CRL_ENTRY_TTL_SECS

EntriesHeld == \A h \in Hosts : BarStands(h) => Held(h)

MintedBefore ==
    \A h \in Hosts : BarStands(h) =>
        \A s \in 1 .. Len(svids) : svids[s].host = h => svids[s].iat <= host_bar[h]

Checked == {"lookup", "issue"}

CheckedBefore ==
    \A h \in Hosts : BarStands(h) =>
        \A t \in Tasks : task[t].pc \in Checked /\ task[t].host = h =>
            task[t].now <= host_bar[h]

Bars == Past /\ EntriesHeld /\ MintedBefore /\ CheckedBefore

\* A barred host is named as revoked.
LEMMA HeldNames ==
    ASSUME Bars, NEW h \in Hosts, BarStands(h)
    PROVE  is_host_revoked(h)
BY DEF Bars, EntriesHeld, Held, is_host_revoked, Names

\* Times and bars are numbers.
LEMMA BarTypes ==
    ASSUME TypeOK
    PROVE  /\ clock \in Nat /\ CRL_ENTRY_TTL_SECS \in Nat
           /\ svids \in Seq(Svids) /\ Len(svids) \in Nat
           /\ \A s \in 1 .. Len(svids) : svids[s].iat \in Nat
           /\ \A t \in Tasks : task[t].now \in Nat
           /\ task \in [Tasks -> Locals]
           /\ host_bar \in [Hosts -> Nat \cup {NotBarred}]
           /\ \A h \in Hosts : host_bar[h] # NotBarred => host_bar[h] \in Nat
           /\ revocations \in SUBSET CrlEntries(CertShas)
           /\ \A e \in revocations : e.expires_at \in Nat
<1>1. svids \in Seq(Svids) /\ Len(svids) \in Nat
  BY DEF TypeOK
<1>2. \A s \in 1 .. Len(svids) : svids[s].iat \in Nat
  BY <1>1, SvidFields
<1>3. revocations \in SUBSET CrlEntries(CertShas) /\ \A e \in revocations : e.expires_at \in Nat
  BY DEF TypeOK, CrlEntries
<1>4. task \in [Tasks -> Locals] /\ \A t \in Tasks : task[t].now \in Nat
  BY DEF TypeOK, Locals
<1> QED BY <1>1, <1>2, <1>3, <1>4, RevocationsAssumption DEF TypeOK

\* Steps that mint nothing, leave every bar that stands with its entry, and
\* start no checked renewal.
LEMMA BarsKept ==
    ASSUME TypeOK, TypeOK', Bars, UNCHANGED svids, clock' \in {clock, clock + 1},
           \A h \in Hosts : host_bar'[h] \in {host_bar[h], NotBarred},
           \A h \in Hosts : BarStands(h) /\ host_bar'[h] = host_bar[h] =>
                \A e \in revocations :
                    e.target = HostTarget(h) /\ e.expires_at > clock => e \in revocations',
           \A u \in Tasks : task'[u] = task[u]
                            \/ (task'[u].pc \notin Checked /\ task'[u].now <= clock)
    PROVE  Bars'
<1>1. clock \in Nat /\ clock' \in Nat /\ clock <= clock'
  BY BarTypes
<1>2. ASSUME NEW h \in Hosts, BarStands(h)'
      PROVE  BarStands(h) /\ host_bar'[h] = host_bar[h] /\ host_bar[h] \in Nat
  <2>1. host_bar'[h] # NotBarred /\ clock' < host_bar'[h] + CRL_ENTRY_TTL_SECS
    BY <1>2 DEF BarStands
  <2>2. host_bar'[h] = host_bar[h] /\ host_bar[h] \in Nat
    BY <2>1, BarTypes
  <2> QED BY <1>1, <2>1, <2>2, BarTypes DEF BarStands
<1>3. Past'
  <2>1. \A s \in 1 .. Len(svids') : svids'[s].iat <= clock'
    BY <1>1, BarTypes DEF Bars, Past
  <2>2. \A u \in Tasks : task'[u].now <= clock'
    <3> SUFFICES ASSUME NEW u \in Tasks PROVE task'[u].now <= clock'
      OBVIOUS
    <3>1. CASE task'[u] = task[u]
      BY <1>1, <3>1, BarTypes DEF Bars, Past
    <3>2. CASE task'[u].now <= clock
      <4>1. task'[u].now \in Nat
        BY DEF TypeOK, Locals
      <4> QED BY <1>1, <3>2, <4>1
    <3> QED BY <3>1, <3>2
  <2>3. \A h \in Hosts : host_bar'[h] # NotBarred => host_bar'[h] <= clock'
    BY <1>1, BarTypes DEF Bars, Past
  <2> QED BY <2>1, <2>2, <2>3 DEF Past
<1>4. EntriesHeld'
  <2> SUFFICES ASSUME NEW h \in Hosts, BarStands(h)' PROVE Held(h)'
    BY DEF EntriesHeld
  <2>1. BarStands(h) /\ host_bar'[h] = host_bar[h] /\ host_bar[h] \in Nat
    BY <1>2
  <2>2. PICK e \in revocations : /\ e.target = HostTarget(h)
                                 /\ e.expires_at >= host_bar[h] + CRL_ENTRY_TTL_SECS
    BY <2>1 DEF Bars, EntriesHeld, Held
  <2>3. e.expires_at > clock
    BY <2>1, <2>2, BarTypes DEF BarStands
  <2> QED BY <2>1, <2>2, <2>3 DEF Held
<1>5. MintedBefore'
  BY <1>2 DEF Bars, MintedBefore
<1>6. CheckedBefore'
  <2> SUFFICES ASSUME NEW h \in Hosts, BarStands(h)', NEW u \in Tasks,
                      task'[u].pc \in Checked, task'[u].host = h
               PROVE  task'[u].now <= host_bar'[h]
    BY DEF CheckedBefore, Checked
  <2>1. task'[u] = task[u]
    OBVIOUS
  <2> QED BY <1>2, <2>1 DEF Bars, CheckedBefore
<1> QED BY <1>3, <1>4, <1>5, <1>6 DEF Bars

\* Revoking a host bars it from now on.
LEMMA BarsRaised ==
    ASSUME TypeOK, Bars, NEW t \in Tasks, NEW h \in Hosts, RevokeHost(t, h)
    PROVE  Bars'
<1>1. /\ UNCHANGED <<svids, clock>> /\ host_bar' = [host_bar EXCEPT ![h] = clock]
      /\ revocations' = revoke(revocations, HostTarget(h), clock)
      /\ task' = [task EXCEPT ![t] = Running("publish", NoHost, clock, 0, NoRecord, 0)]
  BY DEF RevokeHost, Becomes
<1>2. /\ \A u \in Tasks : u # t => task'[u] = task[u]
      /\ task'[t].pc = "publish" /\ task'[t].now = clock
  BY <1>1, BarTypes DEF Running
<1>3. /\ host_bar'[h] = clock /\ \A g \in Hosts : g # h => host_bar'[g] = host_bar[g]
      /\ clock \in Nat
  BY <1>1, BarTypes
<1>4. Past'
  BY <1>1, <1>2, <1>3, BarTypes DEF Bars, Past
<1>5. EntriesHeld'
  <2> SUFFICES ASSUME NEW g \in Hosts, BarStands(g)' PROVE Held(g)'
    BY DEF EntriesHeld
  <2>1. CASE g = h
    <3>1. CrlEntry(HostTarget(h), clock) \in revocations'
      BY <1>1 DEF revoke
    <3>2. /\ CrlEntry(HostTarget(h), clock).target = HostTarget(h)
          /\ CrlEntry(HostTarget(h), clock).expires_at = clock + CRL_ENTRY_TTL_SECS
      BY DEF CrlEntry
    <3>3. clock + CRL_ENTRY_TTL_SECS >= clock + CRL_ENTRY_TTL_SECS
      BY BarTypes
    <3> QED BY <1>3, <2>1, <3>1, <3>2, <3>3 DEF Held
  <2>2. CASE g # h
    <3>1. BarStands(g)
      BY <1>1, <1>3, <2>2 DEF BarStands
    <3>2. PICK e \in revocations : /\ e.target = HostTarget(g)
                                   /\ e.expires_at >= host_bar[g] + CRL_ENTRY_TTL_SECS
      BY <3>1 DEF Bars, EntriesHeld, Held
    <3>3. e \in revocations'
      BY <1>1, <2>2, <3>2 DEF revoke, HostTarget
    <3> QED BY <1>3, <2>2, <3>2, <3>3 DEF Held
  <2> QED BY <2>1, <2>2
<1>6. MintedBefore'
  <2> SUFFICES ASSUME NEW g \in Hosts, BarStands(g)', NEW s \in 1 .. Len(svids), svids[s].host = g
               PROVE  svids[s].iat <= host_bar'[g]
    BY <1>1 DEF MintedBefore
  <2>1. CASE g = h
    BY <1>3, <2>1 DEF Bars, Past
  <2>2. CASE g # h
    BY <1>1, <1>3, <2>2 DEF Bars, MintedBefore, BarStands
  <2> QED BY <2>1, <2>2
<1>7. CheckedBefore'
  <2> SUFFICES ASSUME NEW g \in Hosts, BarStands(g)', NEW u \in Tasks,
                      task'[u].pc \in Checked, task'[u].host = g
               PROVE  task'[u].now <= host_bar'[g]
    BY DEF CheckedBefore, Checked
  <2>1. task'[u] = task[u]
    BY <1>2 DEF Checked
  <2>2. CASE g = h
    BY <1>3, <2>1, <2>2 DEF Bars, Past
  <2>3. CASE g # h
    BY <1>1, <1>3, <2>1, <2>3 DEF Bars, CheckedBefore, BarStands
  <2> QED BY <2>2, <2>3
<1> QED BY <1>4, <1>5, <1>6, <1>7 DEF Bars

\* Minting: for a host the working set does not name, or in a renewal that
\* was checked no later than the bar.
LEMMA BarsMint ==
    ASSUME TypeOK, Bars, NEW t \in Tasks, NEW new \in Svids, NEW local,
           svids' = Append(svids, new), Becomes(t, local),
           UNCHANGED <<clock, revocations, host_bar>>,
           local.pc \notin Checked, local.now = task[t].now, new.iat = task[t].now,
           BarStands(new.host) => task[t].now <= host_bar[new.host]
    PROVE  Bars'
<1>1. /\ \A s \in 1 .. Len(svids') : s \in 1 .. Len(svids) \/ s = Len(svids) + 1
      /\ svids'[Len(svids) + 1] = new
      /\ \A s \in 1 .. Len(svids) : svids'[s] = svids[s]
  BY BarTypes, Minted
<1>2. /\ \A u \in Tasks : u # t => task'[u] = task[u]
      /\ task'[t] = local
  BY BarTypes DEF Becomes
<1>3. \A h \in Hosts : BarStands(h)' = BarStands(h)
  BY DEF BarStands
<1>4. Past'
  <2>1. \A s \in 1 .. Len(svids') : svids'[s].iat <= clock
    BY <1>1 DEF Bars, Past
  <2>2. \A u \in Tasks : task'[u].now <= clock
    BY <1>2 DEF Bars, Past
  <2> QED BY <2>1, <2>2 DEF Bars, Past
<1>5. EntriesHeld'
  BY <1>3 DEF Bars, EntriesHeld, Held
<1>6. MintedBefore'
  <2> SUFFICES ASSUME NEW h \in Hosts, BarStands(h), NEW s \in 1 .. Len(svids'),
                      svids'[s].host = h
               PROVE  svids'[s].iat <= host_bar[h]
    BY <1>3 DEF MintedBefore
  <2>1. CASE s \in 1 .. Len(svids)
    BY <1>1, <2>1 DEF Bars, MintedBefore
  <2>2. CASE s = Len(svids) + 1
    BY <1>1, <2>2
  <2> QED BY <1>1, <2>1, <2>2
<1>7. CheckedBefore'
  BY <1>2, <1>3 DEF Bars, CheckedBefore
<1> QED BY <1>4, <1>5, <1>6, <1>7 DEF Bars

\* A renewal begins only for a host that no bar stands for.
LEMMA BarsAuthenticate ==
    ASSUME TypeOK, Bars, NEW t \in Tasks,
           \/ \E s \in sent : RotateAuthenticate(t, s)
           \/ RotateLookup(t)
    PROVE  Bars'
<1>1. UNCHANGED <<clock, revocations, svids, host_bar>>
  BY DEF RotateAuthenticate, RotateLookup
<1>2. \A u \in Tasks : u # t => task'[u] = task[u]
  BY BarTypes DEF RotateAuthenticate, RotateLookup, Becomes
<1>3. /\ task'[t].now <= clock
      /\ task'[t].host \in Hosts /\ BarStands(task'[t].host) =>
            task'[t].now <= host_bar[task'[t].host]
  <2>1. CASE \E s \in sent : RotateAuthenticate(t, s)
    <3>1. PICK s \in sent : RotateAuthenticate(t, s)
      BY <2>1
    <3>2. task'[t].now = clock /\ task'[t].host = svids[s].host
      BY <3>1, BarTypes DEF RotateAuthenticate, Becomes, Running
    <3>3. ~ is_host_revoked(svids[s].host)
      BY <3>1 DEF RotateAuthenticate, is_revoked, is_host_revoked
    <3> QED BY <3>2, <3>3, HeldNames, BarTypes
  <2>2. CASE RotateLookup(t)
    <3>1. /\ task'[t].now = task[t].now /\ task'[t].host = task[t].host
          /\ task[t].pc \in Checked
      BY <2>2, BarTypes DEF RotateLookup, Becomes, Running, Checked
    <3> QED BY <3>1 DEF Bars, Past, CheckedBefore
  <2> QED BY <2>1, <2>2
<1>4. \A h \in Hosts : BarStands(h)' = BarStands(h)
  BY <1>1 DEF BarStands
<1>5. Past'
  BY <1>1, <1>2, <1>3 DEF Bars, Past
<1>6. EntriesHeld' /\ MintedBefore'
  BY <1>1, <1>4 DEF Bars, EntriesHeld, Held, MintedBefore
<1>7. CheckedBefore'
  BY <1>1, <1>2, <1>3, <1>4 DEF Bars, CheckedBefore
<1> QED BY <1>5, <1>6, <1>7 DEF Bars

\* The bars keep their invariant.
THEOREM BarsHold == Spec => []Bars
<1>1. Init => Bars
  <2> SUFFICES ASSUME Init PROVE Bars
    OBVIOUS
  <2>1. clock = 0 /\ 1 .. Len(svids) = {} /\ \A h \in Hosts : ~ BarStands(h)
    BY DEF Init, BarStands
  <2>2. \A t \in Tasks : task[t].now = 0
    BY IdleType DEF Init
  <2>3. Past
    BY <2>1, <2>2 DEF Past, Init
  <2> QED BY <2>1, <2>3 DEF Bars, EntriesHeld, MintedBefore, CheckedBefore
<1>2. TypeOK /\ Shape /\ TypeOK' /\ Bars /\ [Next]_vars => Bars'
  <2> SUFFICES ASSUME TypeOK, Shape, TypeOK', Bars, [Next]_vars PROVE Bars'
    OBVIOUS
  <2>0. task \in [Tasks -> Locals] /\ clock \in Nat /\ \A t \in Tasks : task[t].now <= clock
    BY DEF TypeOK, Bars, Past
  <2>1. CASE Tick \/ BumpEpoch \/ UNCHANGED vars
    BY <2>1, BarsKept DEF Tick, BumpEpoch, vars
  <2>2. CASE Restart
    <3>1. \A u \in Tasks : task'[u].pc \notin Checked /\ task'[u].now <= clock
      BY <2>0, <2>2, IdleType DEF Restart, Checked
    <3>2. \A h \in Hosts : host_bar'[h] = NotBarred
      BY <2>2 DEF Restart
    <3>3. \A h \in Hosts : ~ (BarStands(h) /\ host_bar'[h] = host_bar[h])
      BY <3>2 DEF BarStands
    <3>4. UNCHANGED <<svids, clock>>
      BY <2>2 DEF Restart
    <3> QED BY <3>1, <3>2, <3>3, <3>4, BarsKept
  <2>3. ASSUME NEW t \in Tasks, NEW h \in Hosts,
               AttestEvidence(t, h) \/ UnrevokeHost(t, h)
        PROVE  Bars'
    <3>1. \A u \in Tasks : task'[u] = task[u]
                           \/ (task'[u].pc \notin Checked /\ task'[u].now <= clock)
      BY <2>0, <2>3 DEF AttestEvidence, UnrevokeHost, Becomes, Running, Checked
    <3>2. UNCHANGED <<clock, revocations, svids, host_bar>>
      BY <2>3 DEF AttestEvidence, UnrevokeHost
    <3> QED BY <3>1, <3>2, BarsKept
  <2>4. ASSUME NEW t \in Tasks, NEW s \in sent, RevokeSvid(t, s) PROVE Bars'
    <3>1. \A u \in Tasks : task'[u] = task[u]
                           \/ (task'[u].pc \notin Checked /\ task'[u].now <= clock)
      BY <2>0, <2>4 DEF RevokeSvid, Becomes, Running, Checked
    <3>2. \A h \in Hosts : \A e \in revocations : e.target = HostTarget(h) => e \in revocations'
      BY <2>4 DEF RevokeSvid, revoke, HostTarget, SvidTarget
    <3> QED BY <2>4, <3>1, <3>2, BarsKept DEF RevokeSvid
  <2>5. ASSUME NEW t \in Tasks, AttestIssue(t) PROVE Bars'
    <3> DEFINE s == Len(svids) + 1
               h == task[t].host
               now == task[t].now
               new == [host |-> h, iat |-> now, exp |-> now + SvidTtl,
                       parent |-> 0, root |-> s, epoch |-> policy_epoch,
                       evidence_epoch |-> task[t].epoch]
               rec == [svid |-> s, at |-> now, policy_epoch |-> policy_epoch]
               local == Running("record", h, now, s, rec, 0)
    <3>1. h \in Hosts /\ ~ is_host_revoked(h)
      BY <2>5 DEF AttestIssue, Shape, HostStages
    <3>2. now \in Nat /\ now + SvidTtl \in Nat /\ s \in Nat /\ policy_epoch \in Nat
          /\ task[t].epoch \in Nat
      BY IssuanceAssumption DEF TypeOK, Locals
    <3>3. svids' = Append(svids, new) /\ Becomes(t, local)
          /\ UNCHANGED <<clock, revocations, host_bar>>
      BY <2>5 DEF AttestIssue
    <3>4. local.pc \notin Checked /\ local.now = now /\ new.iat = now /\ new.host = h
      BY DEF Running, Checked
    <3>5. ~ BarStands(h)
      BY <3>1, HeldNames
    <3> HIDE DEF s, h
    <3>6. new \in Svids
      BY <3>1, <3>2 DEF Svids
    <3> HIDE DEF new, local
    <3> QED BY <3>3, <3>4, <3>5, <3>6, BarsMint
  <2>6. ASSUME NEW t \in Tasks, RotateIssue(t) PROVE Bars'
    <3> DEFINE s == Len(svids) + 1
               h == task[t].host
               now == task[t].now
               old == task[t].svid
               new == [host |-> h, iat |-> now, exp |-> now + SvidTtl,
                       parent |-> old, root |-> svids[old].root, epoch |-> policy_epoch,
                       evidence_epoch |-> svids[old].evidence_epoch]
               local == Running("fetch", h, now, s, NoRecord, 0)
    <3>1. h \in Hosts /\ old \in 1 .. Len(svids) /\ task[t].pc \in Checked
      BY <2>6 DEF RotateIssue, Shape, HostStages, SvidStages, Checked
    <3>2. svids[old].root \in Nat /\ svids[old].evidence_epoch \in Nat
      BY <3>1, Indices, SvidFields
    <3>3. now \in Nat /\ now + SvidTtl \in Nat /\ s \in Nat /\ policy_epoch \in Nat
          /\ old \in Nat
      BY <3>1, IssuanceAssumption DEF TypeOK, Locals
    <3>4. svids' = Append(svids, new) /\ Becomes(t, local)
          /\ UNCHANGED <<clock, revocations, host_bar>>
      BY <2>6 DEF RotateIssue
    <3>5. local.pc \notin Checked /\ local.now = now /\ new.iat = now /\ new.host = h
      BY DEF Running, Checked
    <3>6. BarStands(h) => now <= host_bar[h]
      BY <3>1 DEF Bars, CheckedBefore
    <3> HIDE DEF s, h, old
    <3>7. new \in Svids
      BY <3>1, <3>2, <3>3 DEF Svids
    <3> HIDE DEF new, local
    <3> QED BY <3>4, <3>5, <3>6, <3>7, BarsMint
  <2>7. ASSUME NEW t \in Tasks,
               AttestRecord(t) \/ RotateFetch(t) \/ RotateSwap(t) \/ UnrevokeLookup(t)
               \/ PublisherTick(t) \/ Fail(t)
        PROVE  Bars'
    <3>1. \A u \in Tasks : task'[u] = task[u]
                           \/ (task'[u].pc \notin Checked /\ task'[u].now <= clock)
      BY <2>0, <2>7 DEF AttestRecord, RotateFetch, RotateSwap, UnrevokeLookup, PublisherTick,
                        Fail, Becomes, Idle, Running, Checked
    <3>2. UNCHANGED <<clock, revocations, svids, host_bar>>
      BY <2>7 DEF AttestRecord, RotateFetch, RotateSwap, UnrevokeLookup, PublisherTick, Fail
    <3> QED BY <3>1, <3>2, BarsKept
  <2>8. ASSUME NEW t \in Tasks, RevokePair(t) \/ UnrevokeLift(t) \/ Publish(t) PROVE Bars'
    <3>1. \A u \in Tasks : task'[u] = task[u]
                           \/ (task'[u].pc \notin Checked /\ task'[u].now <= clock)
      BY <2>0, <2>8 DEF RevokePair, UnrevokeLift, Publish, Becomes, Idle, Running, Checked
    <3>2. CASE RevokePair(t)
      <4>1. \A h \in Hosts : \A e \in revocations :
               e.target = HostTarget(h) => e \in revocations'
        BY <3>2 DEF RevokePair, revoke, HostTarget, SvidTarget
      <4> QED BY <3>1, <3>2, <4>1, BarsKept DEF RevokePair
    <3>3. CASE UnrevokeLift(t)
      <4> DEFINE g == task[t].host
      <4>1. \A h \in Hosts : h # g => \A e \in revocations :
               e.target = HostTarget(h) => e \in revocations'
        BY <3>3 DEF UnrevokeLift, unrevoke_host, HostTarget
      <4>2. g \in Hosts
        BY <3>3 DEF UnrevokeLift, Shape, HostStages
      <4>3. /\ \A h \in Hosts : h # g => host_bar'[h] = host_bar[h]
            /\ host_bar'[g] = NotBarred
        BY <3>3, <4>2, BarTypes DEF UnrevokeLift
      <4>4. \A h \in Hosts : BarStands(h) /\ host_bar'[h] = host_bar[h] => h # g
        BY <4>3 DEF BarStands
      <4>5. UNCHANGED <<svids, clock>>
        BY <3>3 DEF UnrevokeLift
      <4> HIDE DEF g
      <4> QED BY <3>1, <4>1, <4>3, <4>4, <4>5, BarsKept
    <3>4. CASE Publish(t)
      <4>1. \A e \in revocations : e.expires_at > clock => e \in revocations'
        <5> SUFFICES ASSUME NEW e \in revocations, e.expires_at > clock
                     PROVE  e \in revocations'
          OBVIOUS
        <5>1. task[t].now \in Nat /\ e.expires_at \in Nat
          BY BarTypes
        <5>2. e.expires_at > task[t].now
          BY <2>0, <5>1
        <5> QED BY <3>4, <5>2 DEF Publish, Unexpired
      <4> QED BY <3>1, <3>4, <4>1, BarsKept DEF Publish
    <3> QED BY <2>8, <3>2, <3>3, <3>4
  <2> QED
    BY <2>1, <2>2, <2>3, <2>4, <2>5, <2>6, <2>7, <2>8, BarsRaised, BarsAuthenticate
    DEF Next, AttestStep, RotateStep, AdminStep
<1> QED BY <1>1, <1>2, Typing, PTL DEF Spec

\* While the revocation of a host stands, the node names it and mints it
\* nothing newer than the revocation (refuse_revoked_host, is_revoked,
\* publish_crl), for any number of concurrent handlers.
THEOREM RevokedHost == Spec => []RevokedHostGetsNothing
<1>1. Bars => RevokedHostGetsNothing
  BY HeldNames DEF Bars, MintedBefore, RevokedHostGetsNothing
<1> QED BY <1>1, BarsHold, PTL
=============================================================================

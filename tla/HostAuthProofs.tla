--------------------------- MODULE HostAuthProofs ---------------------------
(***************************************************************************)
(* Proofs about HostAuth, for any hosts, nonces and tasks, any skew,       *)
(* capacity and rate: types, the consistency of the replay cache, that a   *)
(* replay is possible only at the end of the window, and the rate bound.   *)
(***************************************************************************)
EXTENDS HostAuth, TLAPS

-----------------------------------------------------------------------------
(* Sequences and numbers                                                   *)

\* Dropping a prefix.
LEMMA DropProperties ==
    ASSUME NEW S, NEW s \in Seq(S), NEW k \in 0 .. Len(s)
    PROVE  /\ Drop(s, k) \in Seq(S)
           /\ Len(Drop(s, k)) = Len(s) - k
           /\ \A i \in 1 .. Len(s) - k : Drop(s, k)[i] = s[i + k]
BY DEF Drop

\* Appending an element.
LEMMA AppendProperties ==
    ASSUME NEW S, NEW s \in Seq(S), NEW e \in S
    PROVE  /\ Append(s, e) \in Seq(S)
           /\ Len(Append(s, e)) = Len(s) + 1 /\ Len(s) \in Nat
           /\ Append(s, e)[Len(s) + 1] = e
           /\ \A i \in 1 .. Len(s) : Append(s, e)[i] = s[i]
OBVIOUS

\* The length of the window is a number.
LEMMA Constants ==
    /\ REPLAY_TTL_SECS \in Nat /\ REPLAY_TTL_SECS = MAX_SKEW_SECS + MAX_SKEW_SECS
    /\ BucketCapacity \in Nat /\ CallCost \in Nat /\ CallCost <= BucketCapacity
    /\ Calls \in Nat
<1>1. Calls * Period >= Period /\ Calls * Period \in Nat
  BY HostAuthAssumption
<1> QED BY <1>1, HostAuthAssumption DEF REPLAY_TTL_SECS, BucketCapacity, CallCost

\* A bucket refills to between what it held and its size.
LEMMA RefilledType ==
    ASSUME NEW b \in [units : 0 .. BucketCapacity, last : Nat], NEW now \in Nat
    PROVE  /\ Refilled(b, now) \in 0 .. BucketCapacity
           /\ Refilled(b, now) <= b.units + Larger(now - b.last, 0) * Calls
<1> DEFINE el == Larger(now - b.last, 0)
<1>1. b.units \in 0 .. BucketCapacity /\ b.last \in Nat
  OBVIOUS
<1>2. el \in Nat
  BY <1>1 DEF Larger
<1> HIDE DEF el
<1>3. el * Calls \in Nat
  BY <1>2, Constants
<1> DEFINE more == el * Calls
<1>4. more \in Nat
  BY <1>3
<1> HIDE DEF more
<1>5. /\ Smaller(b.units + more, BucketCapacity) \in 0 .. BucketCapacity
      /\ Smaller(b.units + more, BucketCapacity) <= b.units + more
  BY <1>1, <1>4, Constants DEF Smaller
<1> QED BY <1>5 DEF Refilled, more, el

-----------------------------------------------------------------------------
(* Types                                                                   *)

\* What a task that is not idle holds.
LEMMA TaskType ==
    ASSUME TypeOK, NEW t \in Tasks, task[t].pc \in {"seen", "limit", "consume"}
    PROVE  task[t].doc \in Docs /\ task[t].now \in Nat
           /\ task[t].doc.host \in Hosts /\ task[t].doc.issued_at \in Nat
           /\ ReplayKey(task[t].doc) \in ReplayKeys
<1>1. task[t] \in Locals /\ task[t] # Idle
  BY DEF TypeOK, Idle
<1>2. task[t].doc \in Docs /\ task[t].now \in Nat
  BY <1>1 DEF Locals
<1> QED BY <1>2 DEF Docs, ReplayKey, ReplayKeys

\* The room made for an entry.
LEMMA GoneType ==
    ASSUME TypeOK, NEW k \in 0 .. Len(order)
    PROVE  /\ Gone(k) \in {k, k + 1} /\ Gone(k) \in 0 .. Len(order)
           /\ RaisedFloor(k, Gone(k)) \in Nat \cup {NoFloor}
           /\ RaisedFloor(k, Gone(k)) >= floor
           /\ Gone(k) = k + 1 => RaisedFloor(k, Gone(k)) >= order[k + 1].issued_at
           /\ Len(order) - Gone(k) < Capacity \/ Len(order) > Capacity
<1>1. Len(order) \in Nat /\ k \in Nat /\ Capacity \in Nat \ {0}
  BY HostAuthAssumption DEF TypeOK
<1>2. Gone(k) \in {k, k + 1} /\ Gone(k) \in 0 .. Len(order)
      /\ (Len(order) - Gone(k) < Capacity \/ Len(order) > Capacity)
  BY <1>1 DEF Gone
<1>3. floor \in Nat \cup {NoFloor}
  BY DEF TypeOK
<1>4. CASE Gone(k) = k + 1
  <2>1. order[k + 1] \in Entries
    BY <1>1, <1>2, <1>4 DEF TypeOK
  <2>2. order[k + 1].issued_at \in Nat
    BY <2>1 DEF Entries
  <2>3. Gone(k) > k
    BY <1>1, <1>4
  <2> QED BY <1>2, <1>3, <1>4, <2>2, <2>3 DEF RaisedFloor, Larger, NoFloor
<1>5. CASE Gone(k) = k
  BY <1>1, <1>2, <1>3, <1>5 DEF RaisedFloor, NoFloor
<1> QED BY <1>2, <1>4, <1>5

\* The bucket a check works on.
CheckedBucket(h, now) ==
    IF buckets[h] = NoBucket THEN [units |-> BucketCapacity, last |-> now] ELSE buckets[h]

\* A bucket that exists.
LEMMA BucketType ==
    ASSUME TypeOK, NEW h \in Hosts, NEW now \in Nat
    PROVE  /\ CheckedBucket(h, now) \in [units : 0 .. BucketCapacity, last : Nat]
           /\ Refilled(CheckedBucket(h, now), now) \in 0 .. BucketCapacity
           /\ Larger(now, CheckedBucket(h, now).last) \in Nat
<1>1. buckets[h] \in Buckets
  BY DEF TypeOK
<1>2. CheckedBucket(h, now) \in [units : 0 .. BucketCapacity, last : Nat]
  BY <1>1, Constants DEF CheckedBucket, Buckets
<1> QED BY <1>2, RefilledType DEF Larger

\* Every step keeps the types.
THEOREM TypeCorrect == Spec => []TypeOK
<1>1. Init => TypeOK
  BY DEF Init, TypeOK, NoFloor, Buckets, Locals
<1>2. TypeOK /\ [Next]_vars => TypeOK'
  <2> SUFFICES ASSUME TypeOK, [Next]_vars PROVE TypeOK'
    OBVIOUS
  <2>0. /\ task \in [Tasks -> Locals] /\ Idle \in Locals /\ order \in Seq(Entries)
        /\ seen \subseteq ReplayKeys
    BY DEF TypeOK, Locals
  <2>1. CASE Tick \/ UNCHANGED vars
    BY <2>1 DEF Tick, TypeOK, vars
  <2>2. ASSUME NEW t \in Tasks, NEW doc \in Docs, Begin(t, doc) PROVE TypeOK'
    <3>1. [pc |-> "seen", doc |-> doc, now |-> clock] \in Locals
      BY DEF TypeOK, Locals
    <3>2. task' \in [Tasks -> Locals]
      BY <2>0, <2>2, <3>1 DEF Begin
    <3> QED BY <2>2, <3>2 DEF Begin, TypeOK
  <2>3. ASSUME NEW t \in Tasks, Seen(t) PROVE TypeOK'
    <3>1. PICK k \in 0 .. Len(order) :
             /\ order' = Drop(order, k) /\ seen' = seen \ KeysOf(order, k)
             /\ task' = [task EXCEPT ![t] = IF Replayed(task[t].doc, k)
                                            THEN Idle ELSE [@ EXCEPT !.pc = "limit"]]
      BY <2>3 DEF Seen
    <3>2. [task[t] EXCEPT !.pc = "limit"] \in Locals
      <4>1. task[t] \in Locals /\ task[t] # Idle
        BY <2>0, <2>3 DEF Seen, Idle
      <4> QED BY <4>1 DEF Locals
    <3>3. task' \in [Tasks -> Locals]
      BY <2>0, <3>1, <3>2
    <3>4. order' \in Seq(Entries) /\ seen' \subseteq ReplayKeys
      BY <2>0, <3>1, DropProperties
    <3> QED BY <2>3, <3>3, <3>4 DEF Seen, TypeOK
  <2>4. ASSUME NEW t \in Tasks, Check(t) PROVE TypeOK'
    <3> DEFINE h == task[t].doc.host
               now == task[t].now
               units == Refilled(CheckedBucket(h, now), now)
               last == Larger(now, CheckedBucket(h, now).last)
    <3>1. h \in Hosts /\ now \in Nat
      BY <2>4, TaskType DEF Check
    <3>2. units \in 0 .. BucketCapacity /\ last \in Nat
      BY <3>1, BucketType
    <3>3. \/ /\ units >= CallCost
             /\ buckets' = [buckets EXCEPT ![h] = [units |-> units - CallCost, last |-> last]]
             /\ admitted' = [admitted EXCEPT ![h] = Append(@, last)]
             /\ task' = [task EXCEPT ![t].pc = "consume"]
          \/ /\ buckets' = [buckets EXCEPT ![h] = [units |-> units, last |-> last]]
             /\ task' = [task EXCEPT ![t] = Idle]
             /\ UNCHANGED admitted
      BY <2>4 DEF Check, CheckedBucket
    <3> HIDE DEF units, last
    <3>4. /\ units >= CallCost => [units |-> units - CallCost, last |-> last] \in Buckets
          /\ [units |-> units, last |-> last] \in Buckets
      BY <3>2, Constants DEF Buckets
    <3>5. buckets' \in [Hosts -> Buckets]
      BY <3>3, <3>4 DEF TypeOK
    <3>6. admitted' \in [Hosts -> Seq(Nat)]
      <4>1. Append(admitted[h], last) \in Seq(Nat)
        BY <3>1, <3>2 DEF TypeOK
      <4> QED BY <3>1, <3>3, <4>1 DEF TypeOK
    <3>7. task' \in [Tasks -> Locals]
      <4>1. task[t] \in Locals /\ task[t] # Idle
        BY <2>0, <2>4 DEF Check, Idle
      <4>2. [task[t] EXCEPT !.pc = "consume"] \in Locals
        BY <4>1 DEF Locals
      <4> QED BY <2>0, <3>3, <4>2
    <3> QED BY <2>4, <3>5, <3>6, <3>7 DEF Check, TypeOK
  <2>5. ASSUME NEW t \in Tasks, Insert(t) PROVE TypeOK'
    <3> DEFINE doc == task[t].doc
               now == task[t].now
               e == [key |-> ReplayKey(doc), expires_at |-> now + REPLAY_TTL_SECS,
                     issued_at |-> doc.issued_at]
               a == [doc |-> doc, now |-> now, at |-> clock]
    <3>1. PICK k \in 0 .. Len(order) :
             \/ /\ order' = Drop(order, k) /\ seen' = seen \ KeysOf(order, k)
                /\ UNCHANGED <<floor, accepted>>
             \/ /\ order' = Append(Drop(order, Gone(k)), e)
                /\ seen' = (seen \ KeysOf(order, Gone(k))) \cup {ReplayKey(doc)}
                /\ floor' = RaisedFloor(k, Gone(k))
                /\ accepted' = Append(accepted, a)
      BY <2>5 DEF Insert
    <3>2. e \in Entries /\ a \in Acceptances
      BY <2>5, TaskType, Constants DEF Insert, Entries, Acceptances, TypeOK
    <3>3. ReplayKey(doc) \in ReplayKeys
      BY <2>5, TaskType DEF Insert
    <3>4. task' \in [Tasks -> Locals]
      BY <2>0, <2>5 DEF Insert
    <3> HIDE DEF e, a
    <3>5. Drop(order, k) \in Seq(Entries) /\ Drop(order, Gone(k)) \in Seq(Entries)
      BY <2>0, GoneType, DropProperties
    <3>6. Append(Drop(order, Gone(k)), e) \in Seq(Entries) /\ Append(accepted, a) \in Seq(Acceptances)
      BY <3>2, <3>5, AppendProperties DEF TypeOK
    <3>7. /\ order' \in Seq(Entries) /\ seen' \subseteq ReplayKeys
          /\ floor' \in Nat \cup {NoFloor} /\ accepted' \in Seq(Acceptances)
      BY <2>0, <3>1, <3>3, <3>5, <3>6, GoneType DEF TypeOK
    <3> QED BY <2>5, <3>4, <3>7 DEF Insert, TypeOK
  <2> QED
    <3>1. \A h \in Hosts, n \in Nonces, i \in 0 .. MaxTime + MAX_SKEW_SECS :
             [host |-> h, nonce |-> n, issued_at |-> i] \in Docs
      BY HostAuthAssumption DEF Docs
    <3> QED BY <2>1, <2>2, <2>3, <2>4, <2>5, <3>1 DEF Next
<1> QED BY <1>1, <1>2, PTL DEF Spec

-----------------------------------------------------------------------------
(* The replay cache.  What was let through is remembered, by its entry or   *)
(* below the floor, until the clock reaches the end of its window.          *)

EntryOf(a, i) ==
    /\ order[i].key = ReplayKey(accepted[a].doc)
    /\ order[i].issued_at = accepted[a].doc.issued_at
    /\ order[i].expires_at = accepted[a].now + REPLAY_TTL_SECS

Remembered(a) ==
    \/ accepted[a].now + REPLAY_TTL_SECS <= clock
    \/ accepted[a].doc.issued_at <= floor
    \/ \E i \in 1 .. Len(order) : EntryOf(a, i)

TasksFresh ==
    \A t \in Tasks : task[t] # Idle => task[t].now <= clock /\ Fresh(task[t].doc, task[t].now)

AcceptedFresh == \A a \in 1 .. Len(accepted) : Fresh(accepted[a].doc, accepted[a].now)

Replays ==
    /\ CacheConsistent
    /\ TasksFresh
    /\ AcceptedFresh
    /\ \A a \in 1 .. Len(accepted) : Remembered(a)
    /\ ReplayOnlyAtWindowEnd

\* Numbers in the cache and in the history.
LEMMA CacheTypes ==
    ASSUME TypeOK
    PROVE  /\ Len(order) \in Nat /\ Len(accepted) \in Nat /\ clock \in Nat
           /\ order \in Seq(Entries) /\ accepted \in Seq(Acceptances)
           /\ \A i \in 1 .. Len(order) : order[i].expires_at \in Nat /\ order[i].issued_at \in Nat
           /\ \A a \in 1 .. Len(accepted) : /\ accepted[a].now \in Nat /\ accepted[a].at \in Nat
                                            /\ accepted[a].doc \in Docs
                                            /\ accepted[a].doc.issued_at \in Nat
           /\ floor \in Int
           /\ task \in [Tasks -> Locals]
<1>1. Len(order) \in Nat /\ Len(accepted) \in Nat /\ clock \in Nat
      /\ order \in Seq(Entries) /\ accepted \in Seq(Acceptances)
  BY DEF TypeOK
<1>2. \A i \in 1 .. Len(order) : order[i] \in Entries
  BY <1>1
<1>3. \A a \in 1 .. Len(accepted) : accepted[a] \in Acceptances
  BY <1>1
<1>4. \A a \in 1 .. Len(accepted) : /\ accepted[a].now \in Nat /\ accepted[a].at \in Nat
                                    /\ accepted[a].doc \in Docs
  BY <1>3 DEF Acceptances
<1>5. floor \in Int
  BY DEF TypeOK, NoFloor
<1> QED BY <1>1, <1>2, <1>4, <1>5 DEF Entries, Docs, TypeOK

\* Dropping the first k entries, or one more, keeps the cache consistent.
LEMMA ConsistentDrop ==
    ASSUME TypeOK, CacheConsistent, NEW k \in 0 .. Len(order)
    PROVE  /\ seen \ KeysOf(order, k) = {order[i].key : i \in (k + 1) .. Len(order)}
           /\ seen \ KeysOf(order, k) = KeysOf(Drop(order, k), Len(order) - k)
           /\ \A i, j \in 1 .. Len(order) - k :
                 Drop(order, k)[i].key = Drop(order, k)[j].key => i = j
<1>1. Len(order) \in Nat /\ k \in Nat /\ order \in Seq(Entries)
  BY CacheTypes
<1>2. 1 .. Len(order) = (1 .. k) \cup ((k + 1) .. Len(order))
      /\ (1 .. k) \cap ((k + 1) .. Len(order)) = {}
  BY <1>1
<1>3. seen \ KeysOf(order, k) = {order[i].key : i \in (k + 1) .. Len(order)}
  <2>1. \A x \in seen \ KeysOf(order, k) : x \in {order[i].key : i \in (k + 1) .. Len(order)}
    BY <1>2 DEF CacheConsistent, KeysOf
  <2>2. \A i \in (k + 1) .. Len(order) : order[i].key \in seen \ KeysOf(order, k)
    BY <1>1, <1>2 DEF CacheConsistent, KeysOf
  <2> QED BY <2>1, <2>2
<1>4. /\ \A i \in 1 .. Len(order) - k : Drop(order, k)[i] = order[i + k]
                                         /\ i + k \in (k + 1) .. Len(order)
      /\ \A i \in (k + 1) .. Len(order) : i - k \in 1 .. Len(order) - k /\ (i - k) + k = i
  <2>1. \A i \in 1 .. Len(order) - k : Drop(order, k)[i] = order[i + k]
    BY <1>1, DropProperties
  <2>2. \A i \in 1 .. Len(order) - k : i + k \in (k + 1) .. Len(order)
    BY <1>1
  <2>3. \A i \in (k + 1) .. Len(order) : i - k \in 1 .. Len(order) - k /\ (i - k) + k = i
    BY <1>1
  <2> QED BY <2>1, <2>2, <2>3
<1>5. {order[i].key : i \in (k + 1) .. Len(order)} = KeysOf(Drop(order, k), Len(order) - k)
  <2>1. \A i \in (k + 1) .. Len(order) : order[i].key \in KeysOf(Drop(order, k), Len(order) - k)
    <3> SUFFICES ASSUME NEW i \in (k + 1) .. Len(order)
                 PROVE  \E j \in 1 .. Len(order) - k : Drop(order, k)[j].key = order[i].key
      BY DEF KeysOf
    <3>1. i - k \in 1 .. Len(order) - k /\ Drop(order, k)[i - k] = order[i]
      <4>1. i - k \in 1 .. Len(order) - k /\ (i - k) + k = i
        BY <1>4
      <4> QED BY <1>4, <4>1
    <3> QED BY <3>1
  <2>2. \A j \in 1 .. Len(order) - k :
           Drop(order, k)[j].key \in {order[i].key : i \in (k + 1) .. Len(order)}
    BY <1>4
  <2> QED BY <2>1, <2>2 DEF KeysOf
<1>6. \A i, j \in 1 .. Len(order) - k :
         Drop(order, k)[i].key = Drop(order, k)[j].key => i = j
  <2> SUFFICES ASSUME NEW i \in 1 .. Len(order) - k, NEW j \in 1 .. Len(order) - k,
                      Drop(order, k)[i].key = Drop(order, k)[j].key
               PROVE  i = j
    OBVIOUS
  <2>1. order[i + k].key = order[j + k].key
        /\ i + k \in 1 .. Len(order) /\ j + k \in 1 .. Len(order)
    BY <1>1, <1>4
  <2>2. i + k = j + k
    BY <2>1 DEF CacheConsistent
  <2> QED BY <1>1, <2>2
<1> QED BY <1>3, <1>5, <1>6

\* While the window of an acceptance is open, pruning by any call's clock
\* leaves its entry, which then counts as a replay.
LEMMA KeptByPrune ==
    ASSUME TypeOK, Replays, NEW k \in 0 .. Len(order), NEW now \in Nat, now <= clock,
           Prunes(k, now), NEW a \in 1 .. Len(accepted),
           clock < accepted[a].now + REPLAY_TTL_SECS
    PROVE  \/ accepted[a].doc.issued_at <= floor
           \/ \E i \in (k + 1) .. Len(order) : EntryOf(a, i)
<1> SUFFICES ASSUME ~ (accepted[a].doc.issued_at <= floor)
             PROVE  \E i \in (k + 1) .. Len(order) : EntryOf(a, i)
  OBVIOUS
<1>1. accepted[a].now \in Nat /\ clock \in Nat /\ REPLAY_TTL_SECS \in Nat
      /\ Len(order) \in Nat
  BY CacheTypes, Constants
<1>2. PICK i \in 1 .. Len(order) : EntryOf(a, i)
  <2>1. Remembered(a)
    BY DEF Replays
  <2>2. ~ (accepted[a].now + REPLAY_TTL_SECS <= clock)
    BY <1>1
  <2> QED BY <2>1, <2>2 DEF Remembered
<1>3. order[i].expires_at > now /\ order[i].expires_at \in Nat
  BY <1>1, <1>2, CacheTypes DEF EntryOf
<1>4. i \notin 1 .. k
  BY <1>3, CacheTypes DEF Prunes
<1>5. i \in (k + 1) .. Len(order)
  BY <1>1, <1>4
<1> QED BY <1>2, <1>5

\* A document whose window is open is a replay.
LEMMA OpenWindowReplayed ==
    ASSUME TypeOK, Replays, NEW k \in 0 .. Len(order), NEW now \in Nat, now <= clock,
           Prunes(k, now), NEW a \in 1 .. Len(accepted),
           clock < accepted[a].now + REPLAY_TTL_SECS
    PROVE  Replayed(accepted[a].doc, k)
<1>1. CASE accepted[a].doc.issued_at <= floor
  BY <1>1 DEF Replayed
<1>2. CASE \E i \in (k + 1) .. Len(order) : EntryOf(a, i)
  <2>1. PICK i \in (k + 1) .. Len(order) : EntryOf(a, i)
    BY <1>2
  <2>2. ReplayKey(accepted[a].doc) \in {order[j].key : j \in (k + 1) .. Len(order)}
    BY <2>1 DEF EntryOf
  <2>3. seen \ KeysOf(order, k) = {order[j].key : j \in (k + 1) .. Len(order)}
    BY ConsistentDrop DEF Replays
  <2> QED BY <2>2, <2>3 DEF Replayed
<1> QED BY <1>1, <1>2, KeptByPrune

\* Steps that leave the cache and the history alone.
LEMMA ReplaysKept ==
    ASSUME TypeOK, TypeOK', Replays, UNCHANGED <<order, seen, floor, accepted>>,
           clock' \in {clock, clock + 1},
           \A t \in Tasks : \/ task'[t] = Idle \/ task'[t] = task[t]
                            \/ /\ task'[t].now <= clock
                               /\ Fresh(task'[t].doc, task'[t].now)
    PROVE  Replays'
<1>1. clock \in Nat /\ clock' \in Nat /\ clock <= clock' /\ REPLAY_TTL_SECS \in Nat
  BY CacheTypes, Constants
<1>2. TasksFresh'
  <2> SUFFICES ASSUME NEW t \in Tasks, task'[t] # Idle
               PROVE  task'[t].now <= clock' /\ Fresh(task'[t].doc, task'[t].now)
    BY DEF TasksFresh, Fresh
  <2>1. task'[t].now \in Nat
    <3>1. task'[t] \in Locals
      BY DEF TypeOK
    <3> QED BY <3>1 DEF Locals, Idle
  <2> QED BY <1>1, <2>1 DEF Replays, TasksFresh
<1>3. \A a \in 1 .. Len(accepted') : Remembered(a)'
  <2> SUFFICES ASSUME NEW a \in 1 .. Len(accepted) PROVE Remembered(a)'
    OBVIOUS
  <2>1. Remembered(a) /\ accepted[a].now \in Nat
    BY CacheTypes DEF Replays
  <2>2. CASE accepted[a].now + REPLAY_TTL_SECS <= clock
    BY <1>1, <2>1, <2>2 DEF Remembered
  <2>3. CASE ~ (accepted[a].now + REPLAY_TTL_SECS <= clock)
    BY <2>1, <2>3 DEF Remembered, EntryOf
  <2> QED BY <2>2, <2>3
<1> QED BY <1>2, <1>3 DEF Replays, CacheConsistent, AcceptedFresh, ReplayOnlyAtWindowEnd, Fresh

\* A step that only prunes.
LEMMA ReplaysPrune ==
    ASSUME TypeOK, Replays, NEW k \in 0 .. Len(order), NEW now \in Nat, now <= clock,
           Prunes(k, now), order' = Drop(order, k), seen' = seen \ KeysOf(order, k),
           UNCHANGED <<clock, floor, accepted>>, TasksFresh'
    PROVE  Replays'
<1>1. Len(order) \in Nat /\ k \in Nat /\ order \in Seq(Entries) /\ Len(order') = Len(order) - k
      /\ \A i \in 1 .. Len(order) - k : order'[i] = order[i + k]
  <2>1. Len(order) \in Nat /\ order \in Seq(Entries)
    BY CacheTypes
  <2>2. /\ Len(Drop(order, k)) = Len(order) - k
        /\ \A i \in 1 .. Len(order) - k : Drop(order, k)[i] = order[i + k]
    BY <2>1, DropProperties
  <2> QED BY <2>1, <2>2
<1>2. CacheConsistent'
  <2>1. Len(order) - k <= Capacity
    BY <1>1, HostAuthAssumption DEF Replays, CacheConsistent
  <2> QED BY <1>1, <2>1, ConsistentDrop DEF Replays, CacheConsistent
<1>3. \A a \in 1 .. Len(accepted') : Remembered(a)'
  <2> SUFFICES ASSUME NEW a \in 1 .. Len(accepted) PROVE Remembered(a)'
    OBVIOUS
  <2>1. accepted[a].now + REPLAY_TTL_SECS \in Nat /\ clock \in Nat
    BY CacheTypes, Constants
  <2>2. CASE accepted[a].now + REPLAY_TTL_SECS <= clock
    BY <2>2 DEF Remembered
  <2>3. CASE accepted[a].doc.issued_at <= floor
    BY <2>3 DEF Remembered
  <2>4. CASE \E i \in (k + 1) .. Len(order) : EntryOf(a, i)
    <3>1. PICK i \in (k + 1) .. Len(order) : EntryOf(a, i)
      BY <2>4
    <3>2. i - k \in 1 .. Len(order) - k /\ (i - k) + k = i
      BY <1>1
    <3>3. order'[i - k] = order[i]
      BY <1>1, <3>2
    <3> QED BY <1>1, <3>1, <3>2, <3>3 DEF Remembered, EntryOf
  <2> QED BY <2>1, <2>2, <2>3, <2>4, KeptByPrune
<1> QED BY <1>2, <1>3 DEF Replays, AcceptedFresh, ReplayOnlyAtWindowEnd, Fresh

\* The step that lets a call through.
LEMMA ReplaysInsert ==
    ASSUME TypeOK, Replays, NEW k \in 0 .. Len(order), NEW now \in Nat, now <= clock,
           Prunes(k, now), NEW doc \in Docs, Fresh(doc, now), ~ Replayed(doc, k),
           order' = Append(Drop(order, Gone(k)),
                           [key |-> ReplayKey(doc), expires_at |-> now + REPLAY_TTL_SECS,
                            issued_at |-> doc.issued_at]),
           seen' = (seen \ KeysOf(order, Gone(k))) \cup {ReplayKey(doc)},
           floor' = RaisedFloor(k, Gone(k)),
           accepted' = Append(accepted, [doc |-> doc, now |-> now, at |-> clock]),
           UNCHANGED clock, TasksFresh'
    PROVE  Replays'
<1>n. PICK n \in Nat : n = Gone(k)
  BY GoneType, CacheTypes
<1>m. PICK m \in Nat : m = Len(order) - n
  BY <1>n, GoneType, CacheTypes
<1>c. PICK c \in Nat : c = Len(accepted) + 1
  BY CacheTypes
<1> DEFINE e == [key |-> ReplayKey(doc), expires_at |-> now + REPLAY_TTL_SECS,
                 issued_at |-> doc.issued_at]
           b == [doc |-> doc, now |-> now, at |-> clock]
<1>1. /\ n \in {k, k + 1} /\ n \in 0 .. Len(order) /\ n \in Nat /\ k \in Nat
      /\ floor' >= floor /\ floor' \in Int /\ floor \in Int
      /\ n = k + 1 => floor' >= order[n].issued_at
      /\ Len(order) - n < Capacity \/ Len(order) > Capacity
      /\ Len(order) \in Nat /\ m \in Nat
  <2>1. floor' \in Int
    BY GoneType DEF NoFloor
  <2>2. Len(order) \in Nat /\ k \in Nat /\ m \in Nat /\ floor \in Int
    BY CacheTypes
  <2>3. n \in {k, k + 1} /\ n \in 0 .. Len(order) /\ n \in Nat
    BY <1>n, GoneType
  <2>4. floor' >= floor
    BY GoneType
  <2>5. n = k + 1 => floor' >= order[k + 1].issued_at
    BY <1>n, GoneType
  <2>6. Len(order) - n < Capacity \/ Len(order) > Capacity
    BY <1>n, GoneType
  <2> QED BY <2>1, <2>2, <2>3, <2>4, <2>5, <2>6
<1>2. e \in Entries /\ b \in Acceptances /\ doc.issued_at \in Nat
  BY Constants, CacheTypes DEF Entries, Acceptances, Docs, ReplayKey, ReplayKeys
<1>3. /\ e.key = ReplayKey(doc) /\ e.issued_at = doc.issued_at
      /\ e.expires_at = now + REPLAY_TTL_SECS
      /\ b.doc = doc /\ b.now = now /\ b.at = clock
  OBVIOUS
<1>4. /\ order' = Append(Drop(order, n), e) /\ accepted' = Append(accepted, b)
      /\ seen' = (seen \ KeysOf(order, n)) \cup {ReplayKey(doc)}
  BY <1>n
<1> HIDE DEF e, b
<1>5. /\ Drop(order, n) \in Seq(Entries) /\ Len(Drop(order, n)) = m
      /\ \A i \in 1 .. m : Drop(order, n)[i] = order[i + n]
  <2>1. order \in Seq(Entries)
    BY CacheTypes
  <2> QED BY <1>m, <1>1, <2>1, DropProperties
<1>6. /\ Len(order') = m + 1 /\ order'[m + 1] = e
      /\ \A i \in 1 .. m : order'[i] = Drop(order, n)[i]
  <2>1. /\ Len(Append(Drop(order, n), e)) = m + 1 /\ Append(Drop(order, n), e)[m + 1] = e
        /\ \A i \in 1 .. m : Append(Drop(order, n), e)[i] = Drop(order, n)[i]
    BY <1>2, <1>5, AppendProperties
  <2> QED BY <1>4, <2>1
<1>7. /\ Len(accepted) \in Nat /\ Len(accepted') = c /\ accepted'[c] = b
      /\ \A a \in 1 .. Len(accepted) : accepted'[a] = accepted[a]
      /\ \A a \in 1 .. c : a = c \/ a \in 1 .. Len(accepted)
      /\ c \notin 1 .. Len(accepted)
  <2>1. accepted \in Seq(Acceptances) /\ Len(accepted) \in Nat
    BY CacheTypes
  <2>2. /\ Len(accepted') = c /\ accepted'[c] = b
        /\ \A a \in 1 .. Len(accepted) : accepted'[a] = accepted[a]
    <3>1. /\ Len(Append(accepted, b)) = c /\ Append(accepted, b)[c] = b
          /\ \A a \in 1 .. Len(accepted) : Append(accepted, b)[a] = accepted[a]
      BY <1>2, <1>c, <2>1, AppendProperties
    <3> QED BY <1>4, <3>1
  <2> QED BY <1>c, <2>1, <2>2
<1>8. \A i \in 1 .. m + 1 : i = m + 1 \/ i \in 1 .. m
  BY <1>1
<1>9. ReplayKey(doc) \notin seen \ KeysOf(order, n)
  <2>1. ReplayKey(doc) \notin {order[i].key : i \in (k + 1) .. Len(order)}
    BY ConsistentDrop DEF Replayed, Replays
  <2>2. seen \ KeysOf(order, n) = {order[i].key : i \in (n + 1) .. Len(order)}
    BY <1>m, <1>1, ConsistentDrop DEF Replays
  <2>3. (n + 1) .. Len(order) \subseteq (k + 1) .. Len(order)
    BY <1>1
  <2> QED BY <2>1, <2>2, <2>3
<1>10. CacheConsistent'
  <2>1. seen \ KeysOf(order, n) = KeysOf(Drop(order, n), m)
    BY <1>m, <1>1, ConsistentDrop DEF Replays
  <2>2. seen' = KeysOf(order', m + 1)
    <3>1. KeysOf(order', m + 1) = KeysOf(Drop(order, n), m) \cup {e.key}
      <4>1. \A i \in 1 .. m : i \in 1 .. m + 1
        BY <1>1
      <4>2. m + 1 \in 1 .. m + 1
        BY <1>1
      <4> QED BY <1>6, <1>8, <4>1, <4>2 DEF KeysOf
    <3> QED BY <1>3, <1>4, <2>1, <3>1
  <2>3. \A i, j \in 1 .. m + 1 : order'[i].key = order'[j].key => i = j
    <3>1. \A i \in 1 .. m : order'[i].key # e.key
      <4> SUFFICES ASSUME NEW i \in 1 .. m PROVE order'[i].key # e.key
        OBVIOUS
      <4>1. order'[i] = Drop(order, n)[i]
        BY <1>6
      <4>2. Drop(order, n)[i].key \in KeysOf(Drop(order, n), m)
        BY DEF KeysOf
      <4>3. e.key \notin KeysOf(Drop(order, n), m)
        BY <1>3, <1>9, <2>1
      <4> QED BY <4>1, <4>2, <4>3
    <3>2. \A i, j \in 1 .. m : order'[i].key = order'[j].key => i = j
      <4>1. \A i, j \in 1 .. m : Drop(order, n)[i].key = Drop(order, n)[j].key => i = j
        BY <1>m, <1>1, ConsistentDrop DEF Replays
      <4> QED BY <1>6, <4>1
    <3> QED BY <1>6, <1>8, <3>1, <3>2
  <2>4. m + 1 <= Capacity
    BY <1>m, <1>1, HostAuthAssumption DEF Replays, CacheConsistent
  <2> QED BY <1>6, <2>2, <2>3, <2>4 DEF CacheConsistent
<1>11. \A a \in 1 .. Len(accepted') : Remembered(a)'
  <2> SUFFICES ASSUME NEW a \in 1 .. c PROVE Remembered(a)'
    BY <1>7
  <2>1. CASE a = c
    <3>1. m + 1 \in 1 .. Len(order')
      BY <1>1, <1>6
    <3>2. EntryOf(a, m + 1)'
      BY <1>3, <1>6, <1>7, <2>1 DEF EntryOf
    <3> QED BY <3>1, <3>2 DEF Remembered
  <2>2. CASE a \in 1 .. Len(accepted)
    <3>1. /\ accepted'[a] = accepted[a] /\ accepted[a].now + REPLAY_TTL_SECS \in Nat
          /\ accepted[a].doc.issued_at \in Nat /\ clock \in Nat
      BY <1>7, <2>2, CacheTypes, Constants
    <3>2. CASE accepted[a].now + REPLAY_TTL_SECS <= clock
      BY <3>1, <3>2 DEF Remembered
    <3>3. CASE accepted[a].doc.issued_at <= floor
      <4>1. accepted[a].doc.issued_at <= floor'
        BY <1>1, <3>1, <3>3
      <4> QED BY <3>1, <4>1 DEF Remembered
    <3>4. CASE \E i \in (k + 1) .. Len(order) : EntryOf(a, i)
      <4>1. PICK i \in (k + 1) .. Len(order) : EntryOf(a, i)
        BY <3>4
      <4>2. CASE i = n
        <5>1. n = k + 1
          BY <1>1, <4>2
        <5>2. floor' >= accepted[a].doc.issued_at
          BY <1>1, <4>1, <4>2, <5>1 DEF EntryOf
        <5> QED BY <1>1, <3>1, <5>2 DEF Remembered
      <4>3. CASE i # n
        <5>1. i - n \in 1 .. m /\ (i - n) + n = i /\ i - n \in 1 .. m + 1
          <6>1. i \in Nat /\ i >= k + 1 /\ i <= Len(order) /\ i # n
            BY <1>1, <4>3
          <6>2. i > n
            BY <1>1, <6>1
          <6> QED BY <1>m, <1>1, <6>1, <6>2
        <5>2. order'[i - n] = order[i]
          BY <1>5, <1>6, <5>1
        <5> QED BY <1>6, <3>1, <4>1, <5>1, <5>2 DEF Remembered, EntryOf
      <4> QED BY <4>2, <4>3
    <3> QED BY <2>2, <3>1, <3>2, <3>3, <3>4, KeptByPrune
  <2> QED BY <1>7, <2>1, <2>2
<1>12. AcceptedFresh'
  <2>1. \A a \in 1 .. c : Fresh(accepted'[a].doc, accepted'[a].now)
    BY <1>3, <1>7 DEF Replays, AcceptedFresh
  <2> QED BY <1>7, <2>1 DEF AcceptedFresh, Fresh
<1>13. ReplayOnlyAtWindowEnd'
  <2>1. ASSUME NEW a \in 1 .. Len(accepted), accepted[a].doc = doc
        PROVE  /\ accepted[a].now + REPLAY_TTL_SECS <= clock
               /\ now <= accepted[a].now + REPLAY_TTL_SECS
    <3>1. accepted[a].now \in Nat /\ clock \in Nat /\ REPLAY_TTL_SECS \in Nat
      BY CacheTypes, Constants
    <3>2. accepted[a].now + REPLAY_TTL_SECS <= clock
      BY <2>1, <3>1, OpenWindowReplayed
    <3>3. /\ now - doc.issued_at <= MAX_SKEW_SECS
          /\ doc.issued_at - accepted[a].now <= MAX_SKEW_SECS
      BY <2>1 DEF Replays, AcceptedFresh, Fresh
    <3>4. now <= accepted[a].now + (MAX_SKEW_SECS + MAX_SKEW_SECS)
      BY <1>2, <3>1, <3>3, HostAuthAssumption
    <3> QED BY <3>2, <3>4, Constants
  <2>2. ASSUME NEW i \in 1 .. c, NEW j \in 1 .. c, i < j, accepted'[i].doc = accepted'[j].doc
        PROVE  /\ accepted'[i].now + REPLAY_TTL_SECS <= accepted'[j].at
               /\ accepted'[j].now <= accepted'[i].now + REPLAY_TTL_SECS
    <3>1. i \in 1 .. Len(accepted)
      BY <1>c, <1>7, <2>2
    <3>2. CASE j = c
      BY <1>3, <1>7, <2>1, <2>2, <3>1, <3>2
    <3>3. CASE j \in 1 .. Len(accepted)
      BY <1>7, <2>2, <3>1, <3>3 DEF Replays, ReplayOnlyAtWindowEnd
    <3> QED BY <1>7, <3>2, <3>3
  <2> QED BY <1>7, <2>2 DEF ReplayOnlyAtWindowEnd
<1> QED BY <1>10, <1>11, <1>12, <1>13 DEF Replays

\* The replay cache keeps its invariant.
THEOREM CacheInvariant == Spec => []Replays
<1>1. Init => Replays
  <2> SUFFICES ASSUME Init PROVE Replays
    OBVIOUS
  <2>1. Len(order) = 0 /\ Len(accepted) = 0 /\ 1 .. 0 = {} /\ seen = {}
        /\ \A t \in Tasks : task[t] = Idle
    BY DEF Init
  <2>2. CacheConsistent
    BY <2>1, HostAuthAssumption DEF CacheConsistent, KeysOf
  <2> QED BY <2>1, <2>2 DEF Replays, TasksFresh, AcceptedFresh, ReplayOnlyAtWindowEnd
<1>2. TypeOK /\ TypeOK' /\ Replays /\ [Next]_vars => Replays'
  <2> SUFFICES ASSUME TypeOK, TypeOK', Replays, [Next]_vars PROVE Replays'
    OBVIOUS
  <2>0. /\ task \in [Tasks -> Locals] /\ clock \in Nat /\ clock <= clock
        /\ \A t \in Tasks : task[t] # Idle => /\ task[t].now <= clock
                                              /\ Fresh(task[t].doc, task[t].now)
    BY DEF TypeOK, Replays, TasksFresh
  <2>1. CASE Tick \/ UNCHANGED vars
    BY <2>1, ReplaysKept DEF Tick, vars
  <2>2. ASSUME NEW t \in Tasks, NEW doc, Begin(t, doc) PROVE Replays'
    <3>1. \A u \in Tasks : task'[u] = task[u]
                           \/ (task'[u].now <= clock /\ Fresh(task'[u].doc, task'[u].now))
      BY <2>0, <2>2 DEF Begin
    <3> QED BY <2>2, <3>1, ReplaysKept DEF Begin
  <2>3. ASSUME NEW t \in Tasks, Check(t) PROVE Replays'
    <3>1. task[t] # Idle
      BY <2>3 DEF Check, Idle
    <3>2. task[t].now <= clock /\ Fresh(task[t].doc, task[t].now)
      BY <2>0, <3>1
    <3>3. /\ \A u \in Tasks : u # t => task'[u] = task[u]
          /\ task'[t] = Idle \/ task'[t] = [task[t] EXCEPT !.pc = "consume"]
      BY <2>0, <2>3 DEF Check
    <3>4. /\ [task[t] EXCEPT !.pc = "consume"].now = task[t].now
          /\ [task[t] EXCEPT !.pc = "consume"].doc = task[t].doc
      <4>1. task[t] \in [pc : {"seen", "limit", "consume"}, doc : Docs, now : Nat]
        BY <2>0, <3>1 DEF Locals
      <4> QED BY <4>1
    <3>5. \A u \in Tasks : \/ task'[u] = Idle \/ task'[u] = task[u]
                           \/ (task'[u].now <= clock /\ Fresh(task'[u].doc, task'[u].now))
      BY <3>2, <3>3, <3>4
    <3> QED BY <2>3, <3>5, ReplaysKept DEF Check
  <2>4. ASSUME NEW t \in Tasks, Seen(t) PROVE Replays'
    <3>1. task[t] # Idle
      BY <2>4 DEF Seen, Idle
    <3>2. /\ task[t].now <= clock /\ Fresh(task[t].doc, task[t].now) /\ task[t].now \in Nat
      BY <2>0, <2>4, <3>1, TaskType DEF Seen
    <3>3. PICK k \in 0 .. Len(order) :
             /\ Prunes(k, task[t].now)
             /\ order' = Drop(order, k) /\ seen' = seen \ KeysOf(order, k)
             /\ task' = [task EXCEPT ![t] = IF Replayed(task[t].doc, k)
                                            THEN Idle ELSE [@ EXCEPT !.pc = "limit"]]
      BY <2>4 DEF Seen
    <3>4. /\ [task[t] EXCEPT !.pc = "limit"].now = task[t].now
          /\ [task[t] EXCEPT !.pc = "limit"].doc = task[t].doc
      <4>1. task[t] \in [pc : {"seen", "limit", "consume"}, doc : Docs, now : Nat]
        BY <2>0, <3>1 DEF Locals
      <4> QED BY <4>1
    <3>5. /\ \A u \in Tasks : u # t => task'[u] = task[u]
          /\ task'[t] = Idle \/ task'[t] = [task[t] EXCEPT !.pc = "limit"]
      BY <2>0, <3>3
    <3>6. UNCHANGED <<clock, floor, accepted>>
      BY <2>4 DEF Seen
    <3>7. TasksFresh'
      <4>1. \A u \in Tasks : task'[u] # Idle => /\ task'[u].now <= clock
                                                /\ Fresh(task'[u].doc, task'[u].now)
        BY <2>0, <3>2, <3>4, <3>5
      <4> QED BY <3>6, <4>1 DEF TasksFresh, Fresh
    <3> QED BY <3>2, <3>3, <3>6, <3>7, ReplaysPrune
  <2>5. ASSUME NEW t \in Tasks, Insert(t) PROVE Replays'
    <3>1. task[t] # Idle
      BY <2>5 DEF Insert, Idle
    <3>2. /\ task[t].now <= clock /\ Fresh(task[t].doc, task[t].now)
          /\ task[t].now \in Nat /\ task[t].doc \in Docs
      BY <2>0, <2>5, <3>1, TaskType DEF Insert
    <3>3. /\ \A u \in Tasks : u # t => task'[u] = task[u]
          /\ task'[t] = Idle
          /\ UNCHANGED clock
      BY <2>0, <2>5 DEF Insert
    <3>4. TasksFresh'
      <4>1. \A u \in Tasks : task'[u] # Idle => /\ task'[u].now <= clock
                                                /\ Fresh(task'[u].doc, task'[u].now)
        BY <2>0, <3>3
      <4> QED BY <3>3, <4>1 DEF TasksFresh, Fresh
    <3>5. PICK k \in 0 .. Len(order) :
             /\ Prunes(k, task[t].now)
             /\ \/ /\ order' = Drop(order, k) /\ seen' = seen \ KeysOf(order, k)
                   /\ UNCHANGED <<floor, accepted>>
                \/ /\ ~ Replayed(task[t].doc, k)
                   /\ order' = Append(Drop(order, Gone(k)),
                                      [key |-> ReplayKey(task[t].doc),
                                       expires_at |-> task[t].now + REPLAY_TTL_SECS,
                                       issued_at |-> task[t].doc.issued_at])
                   /\ seen' = (seen \ KeysOf(order, Gone(k))) \cup {ReplayKey(task[t].doc)}
                   /\ floor' = RaisedFloor(k, Gone(k))
                   /\ accepted' = Append(accepted, [doc |-> task[t].doc, now |-> task[t].now,
                                                    at |-> clock])
      BY <2>5 DEF Insert
    <3>6. CASE /\ order' = Drop(order, k) /\ seen' = seen \ KeysOf(order, k)
               /\ UNCHANGED <<floor, accepted>>
      BY <3>2, <3>3, <3>4, <3>5, <3>6, ReplaysPrune
    <3>7. CASE ~ (/\ order' = Drop(order, k) /\ seen' = seen \ KeysOf(order, k)
                  /\ UNCHANGED <<floor, accepted>>)
      BY <3>2, <3>3, <3>4, <3>5, <3>7, ReplaysInsert
    <3> QED BY <3>6, <3>7
  <2> QED BY <2>1, <2>2, <2>3, <2>4, <2>5 DEF Next
<1> QED BY <1>1, <1>2, TypeCorrect, PTL DEF Spec

\* The queue and the set of the replay cache agree and stay within capacity.
THEOREM Consistent == Spec => []CacheConsistent
<1>1. Replays => CacheConsistent
  BY DEF Replays
<1> QED BY <1>1, CacheInvariant, PTL

\* A document is let through again only when its first acceptance is
\* REPLAY_TTL_SECS old, for any capacity and any interleaving of the calls.
THEOREM ReplayBound == Spec => []ReplayOnlyAtWindowEnd
<1>1. Replays => ReplayOnlyAtWindowEnd
  BY DEF Replays
<1> QED BY <1>1, CacheInvariant, PTL

-----------------------------------------------------------------------------
(* The rate limit.  What a host spent since an admission, and what it has   *)
(* left, fit in a full bucket and what accrued since.                       *)

Spent(h) ==
    \A i \in 1 .. Len(admitted[h]) :
        /\ admitted[h][i] <= buckets[h].last
        /\ (Len(admitted[h]) - i + 1) * CallCost + buckets[h].units
              <= BucketCapacity + (buckets[h].last - admitted[h][i]) * Calls

Rates ==
    /\ \A h \in Hosts : buckets[h] = NoBucket => Len(admitted[h]) = 0
    /\ \A h \in Hosts : buckets[h] # NoBucket => Spent(h)
    /\ WithinRate

\* Spending after a refill.
LEMMA Accrue ==
    ASSUME NEW n \in Nat, NEW cost \in Nat, NEW c \in Nat, NEW units \in Nat, NEW left \in Nat,
           NEW cap \in Nat, NEW from \in Nat, NEW last \in Nat, NEW next \in Nat,
           n * cost + units <= cap + (last - from) * c,
           left <= units + (next - last) * c
    PROVE  /\ n * cost + left <= cap + (next - from) * c
           /\ (n + 1) * cost + (left - cost) <= cap + (next - from) * c
<1>1. (next - from) * c = (next - last) * c + (last - from) * c
  OBVIOUS
<1>2. (n + 1) * cost = n * cost + cost
  OBVIOUS
<1>3. n * cost \in Nat /\ (next - last) * c \in Int /\ (last - from) * c \in Int
  OBVIOUS
<1> DEFINE nc == n * cost
           x == (next - last) * c
           y == (last - from) * c
<1>4. nc \in Nat /\ x \in Int /\ y \in Int /\ nc + units <= cap + y /\ left <= units + x
  BY <1>3
<1> HIDE DEF nc, x, y
<1>5. nc + left <= cap + (x + y) /\ (nc + cost) + (left - cost) <= cap + (x + y)
  BY <1>4
<1> QED BY <1>1, <1>2, <1>5 DEF nc, x, y

\* A check keeps the rate bound.
LEMMA RatesCheck ==
    ASSUME TypeOK, Rates, NEW t \in Tasks, Check(t)
    PROVE  Rates'
<1>h. PICK h \in Hosts : h = task[t].doc.host
  BY TaskType DEF Check
<1>1. PICK now \in Nat : now = task[t].now
  BY TaskType DEF Check
<1> DEFINE b == CheckedBucket(h, now)
<1>2. /\ b \in [units : 0 .. BucketCapacity, last : Nat]
      /\ Refilled(b, now) \in 0 .. BucketCapacity /\ Larger(now, b.last) \in Nat
      /\ Refilled(b, now) <= b.units + Larger(now - b.last, 0) * Calls
  BY <1>1, BucketType, RefilledType
<1>3. PICK units \in 0 .. BucketCapacity : units = Refilled(b, now)
  BY <1>2
<1>4. PICK last \in Nat : last = Larger(now, b.last)
  BY <1>2
<1>5. PICK n \in Nat : n = Len(admitted[h])
  BY <1>1 DEF TypeOK
<1>6. \/ /\ units >= CallCost
         /\ buckets' = [buckets EXCEPT ![h] = [units |-> units - CallCost, last |-> last]]
         /\ admitted' = [admitted EXCEPT ![h] = Append(@, last)]
      \/ /\ buckets' = [buckets EXCEPT ![h] = [units |-> units, last |-> last]]
         /\ UNCHANGED admitted
  BY <1>h, <1>1, <1>3, <1>4 DEF Check, CheckedBucket
<1>7. /\ b.units \in Nat /\ b.last \in Nat /\ units \in Nat /\ last >= b.last
      /\ Larger(now - b.last, 0) = last - b.last
      /\ CallCost \in Nat /\ Calls \in Nat /\ BucketCapacity \in Nat
  BY <1>1, <1>2, <1>4, Constants DEF Larger
<1>8. units <= b.units + (last - b.last) * Calls
  BY <1>2, <1>3, <1>7
<1>9. /\ buckets \in [Hosts -> Buckets] /\ admitted \in [Hosts -> Seq(Nat)]
      /\ \A g \in Hosts : Len(admitted[g]) \in Nat
      /\ \A g \in Hosts : \A i \in 1 .. Len(admitted[g]) : admitted[g][i] \in Nat
  BY DEF TypeOK
<1>10. \A g \in Hosts : g # h => buckets'[g] = buckets[g] /\ admitted'[g] = admitted[g]
  BY <1>6, <1>9
<1>11. ASSUME NEW i \in 1 .. n
       PROVE  /\ admitted[h][i] <= last
              /\ (n - i + 1) * CallCost + units <= BucketCapacity + (last - admitted[h][i]) * Calls
              /\ (n + 1 - i + 1) * CallCost + (units - CallCost)
                    <= BucketCapacity + (last - admitted[h][i]) * Calls
  <2>1. buckets[h] # NoBucket /\ b = buckets[h] /\ Spent(h)
    BY <1>1, <1>5 DEF Rates, CheckedBucket
  <2>2. /\ admitted[h][i] <= b.last /\ admitted[h][i] \in Nat
        /\ (n - i + 1) * CallCost + b.units <= BucketCapacity + (b.last - admitted[h][i]) * Calls
    BY <1>1, <1>5, <1>9, <2>1 DEF Spent
  <2>3. n - i + 1 \in Nat /\ (n - i + 1) + 1 = n + 1 - i + 1
    OBVIOUS
  <2> HIDE DEF b
  <2>4. /\ (n - i + 1) * CallCost + units <= BucketCapacity + (last - admitted[h][i]) * Calls
        /\ ((n - i + 1) + 1) * CallCost + (units - CallCost)
              <= BucketCapacity + (last - admitted[h][i]) * Calls
    BY <1>7, <1>8, <2>2, <2>3, Accrue
  <2> QED BY <1>7, <2>2, <2>3, <2>4
<1>12. ASSUME buckets' = [buckets EXCEPT ![h] = [units |-> units, last |-> last]],
              UNCHANGED admitted
       PROVE  Rates'
  <2>1. buckets'[h].units = units /\ buckets'[h].last = last /\ buckets'[h] # NoBucket
    BY <1>1, <1>9, <1>12 DEF NoBucket
  <2>2. Spent(h)'
    BY <1>5, <1>11, <1>12, <2>1 DEF Spent
  <2>3. \A g \in Hosts : buckets'[g] # NoBucket => Spent(g)'
    BY <1>10, <2>2 DEF Rates, Spent
  <2> QED BY <1>10, <1>12, <2>1, <2>3 DEF Rates, WithinRate
<1>13. ASSUME units >= CallCost,
              buckets' = [buckets EXCEPT ![h] = [units |-> units - CallCost, last |-> last]],
              admitted' = [admitted EXCEPT ![h] = Append(@, last)]
       PROVE  Rates'
  <2>1. /\ buckets'[h].units = units - CallCost /\ buckets'[h].last = last
        /\ buckets'[h] # NoBucket
    BY <1>1, <1>9, <1>13 DEF NoBucket
  <2>2. /\ Len(admitted'[h]) = n + 1 /\ admitted'[h][n + 1] = last
        /\ \A i \in 1 .. n : admitted'[h][i] = admitted[h][i]
    <3>1. admitted[h] \in Seq(Nat)
      BY <1>1, <1>9
    <3>2. admitted'[h] = Append(admitted[h], last)
      BY <1>1, <1>9, <1>13
    <3> QED BY <1>5, <3>1, <3>2, AppendProperties
  <2>3. \A i \in 1 .. n + 1 : i = n + 1 \/ i \in 1 .. n
    OBVIOUS
  <2>4. /\ (n + 1 - (n + 1) + 1) * CallCost + (units - CallCost)
              <= BucketCapacity + (last - last) * Calls
        /\ (n + 1 - (n + 1) + 1) * CallCost <= BucketCapacity + (last - last) * Calls
        /\ last <= last
    <3>1. n + 1 - (n + 1) + 1 = 1 /\ last - last = 0 /\ 1 * CallCost = CallCost /\ 0 * Calls = 0
      BY <1>7
    <3>2. CallCost + (units - CallCost) <= BucketCapacity + 0 /\ CallCost <= BucketCapacity + 0
      BY <1>7, Constants
    <3> QED BY <3>1, <3>2
  <2>5. Spent(h)'
    <3>1. \A i \in 1 .. n + 1 :
             /\ admitted'[h][i] <= last
             /\ (n + 1 - i + 1) * CallCost + (units - CallCost)
                   <= BucketCapacity + (last - admitted'[h][i]) * Calls
      BY <1>11, <2>2, <2>3, <2>4
    <3> QED BY <2>1, <2>2, <3>1 DEF Spent, CallCost, BucketCapacity
  <2>6. \A g \in Hosts : buckets'[g] # NoBucket => Spent(g)'
    BY <1>10, <2>5 DEF Rates, Spent
  <2>7. ASSUME NEW i \in 1 .. n + 1, NEW j \in 1 .. n + 1, i <= j
        PROVE  (j - i + 1) * CallCost
                  <= BucketCapacity + (admitted'[h][j] - admitted'[h][i]) * Calls
    <3>1. CASE j \in 1 .. n
      <4>1. i \in 1 .. n
        BY <2>7, <3>1
      <4> QED BY <1>1, <1>5, <2>2, <2>7, <3>1, <4>1 DEF Rates, WithinRate
    <3>2. CASE j = n + 1 /\ i \in 1 .. n
      <4>1. (n + 1 - i + 1) * CallCost + (units - CallCost)
               <= BucketCapacity + (last - admitted[h][i]) * Calls
        BY <1>11, <3>2
      <4>2. (n + 1 - i + 1) * CallCost \in Int /\ (last - admitted[h][i]) * Calls \in Int
            /\ admitted[h][i] \in Nat
        BY <1>1, <1>5, <1>7, <1>9, <3>2
      <4> DEFINE x == (n + 1 - i + 1) * CallCost
                 y == (last - admitted[h][i]) * Calls
      <4>3. x \in Int /\ y \in Int /\ x + (units - CallCost) <= BucketCapacity + y
        BY <4>1, <4>2
      <4> HIDE DEF x, y
      <4>4. x <= BucketCapacity + y
        BY <1>7, <1>13, <4>3
      <4>5. admitted'[h][j] = last /\ admitted'[h][i] = admitted[h][i]
        BY <2>2, <3>2
      <4>6. j - i + 1 = n + 1 - i + 1
        BY <3>2
      <4>7. (n + 1 - i + 1) * CallCost <= BucketCapacity + (last - admitted[h][i]) * Calls
        BY <4>4 DEF x, y
      <4> HIDE DEF b
      <4> QED BY <4>5, <4>6, <4>7, Zenon
    <3>3. CASE j = n + 1 /\ i = n + 1
      <4>1. admitted'[h][j] = last /\ admitted'[h][i] = last
        BY <2>2, <3>3
      <4>2. j - i + 1 = n + 1 - (n + 1) + 1
        BY <3>3
      <4> QED BY <2>4, <4>1, <4>2, Zenon
    <3> QED BY <2>3, <3>1, <3>2, <3>3
  <2>8. WithinRate'
    <3>1. \A g \in Hosts : \A i, j \in 1 .. Len(admitted'[g]) :
             i <= j => (j - i + 1) * CallCost
                          <= BucketCapacity + (admitted'[g][j] - admitted'[g][i]) * Calls
      BY <1>10, <2>2, <2>7 DEF Rates, WithinRate
    <3> QED BY <3>1 DEF WithinRate, CallCost, BucketCapacity
  <2> QED BY <1>10, <2>1, <2>6, <2>8 DEF Rates
<1> QED BY <1>6, <1>12, <1>13

\* In any stretch of its admissions a host spends no more than a full bucket
\* and what accrued, however the clocks of its calls are ordered.
THEOREM RateBound == Spec => []WithinRate
<1>1. Init => Rates
  <2> SUFFICES ASSUME Init PROVE Rates
    OBVIOUS
  <2>1. \A h \in Hosts : buckets[h] = NoBucket /\ Len(admitted[h]) = 0
    BY DEF Init
  <2>2. \A h \in Hosts : 1 .. Len(admitted[h]) = {}
    <3>1. 1 .. 0 = {}
      OBVIOUS
    <3> QED BY <2>1, <3>1
  <2> QED BY <2>1, <2>2 DEF Rates, WithinRate
<1>2. TypeOK /\ Rates /\ [Next]_vars => Rates'
  <2> SUFFICES ASSUME TypeOK, Rates, [Next]_vars PROVE Rates'
    OBVIOUS
  <2>1. CASE \E t \in Tasks : Check(t)
    BY <2>1, RatesCheck
  <2>2. CASE UNCHANGED <<buckets, admitted>>
    BY <2>2 DEF Rates, Spent, WithinRate
  <2> QED BY <2>1, <2>2 DEF Next, Tick, Begin, Seen, Insert, vars
<1>3. Rates => WithinRate
  BY DEF Rates
<1> QED BY <1>1, <1>2, <1>3, TypeCorrect, PTL DEF Spec
=============================================================================

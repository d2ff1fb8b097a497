------------------------------ MODULE HostAuth ------------------------------
(***************************************************************************)
(* Authentication of host calls on one CMIS node: freshness, the bounded   *)
(* replay cache and the per-host rate limit (cmis/src/host_auth.rs).       *)
(*                                                                         *)
(* A handler reads the clock once and `authenticate` takes three locks one *)
(* after the other: `seen`, the limiter, `insert`.  Handlers run on several *)
(* threads, so each lock is an action, and the `now` a call works with may *)
(* be older than the clock and than the `now` of calls before it.          *)
(*                                                                         *)
(* Proofs, signatures and bindings that do not verify end a call before it *)
(* touches this state.  Each RPC has a limiter of its own over one shared  *)
(* cache; one limiter is modelled, for fewer than MAX_TRACKED_HOSTS hosts, *)
(* so that it drops no bucket.  SubmitAppRequest, whose document has no    *)
(* nonce, uses neither.                                                    *)
(***************************************************************************)
EXTENDS Integers, Sequences

CONSTANTS
    Hosts, Nonces, Tasks,
    MAX_SKEW_SECS,
    Capacity,         \* ReplayCache.capacity, at least 1
    Calls, Period,    \* HostRateLimiter::new(calls, period_secs), at least 1
    MaxTime,          \* bound: the clock
    MaxCalls          \* bound: calls begun

ASSUME HostAuthAssumption ==
    /\ MAX_SKEW_SECS \in Nat
    /\ Capacity \in Nat \ {0}
    /\ Calls \in Nat \ {0} /\ Period \in Nat \ {0}
    /\ MaxTime \in Nat /\ MaxCalls \in Nat

VARIABLES
    clock,      \* unix_now()
    order,      \* ReplayCache.order
    seen,       \* ReplayCache.seen
    floor,      \* ReplayCache.floor
    buckets,    \* HostRateLimiter.buckets; NoBucket while a host has none
    task,       \* per task: the step of authenticate it is at, its document and its now
    calls,      \* calls begun
    accepted,   \* history: the calls authenticate let through, in order
    admitted    \* history, per host: the bucket's time at each admission

vars == <<clock, order, seen, floor, buckets, task, calls, accepted, admitted>>

-----------------------------------------------------------------------------
(* Data                                                                    *)

REPLAY_TTL_SECS == 2 * MAX_SKEW_SECS

Docs == [host : Hosts, nonce : Nonces, issued_at : Nat]

ReplayKey(doc) == <<doc.host, doc.nonce>>
ReplayKeys == Hosts \X Nonces

Entries == [key : ReplayKeys, expires_at : Nat, issued_at : Nat]

NoFloor == -1   \* i64::MIN: below the issue time of every document

NoDoc == [host |-> "none", nonce |-> "none", issued_at |-> 0]
Idle  == [pc |-> "idle", doc |-> NoDoc, now |-> 0]

Locals == [pc : {"seen", "limit", "consume"}, doc : Docs, now : Nat] \cup {Idle}

CallCost       == Period
BucketCapacity == Calls * Period

NoBucket == [units |-> 0, last |-> -1]
Buckets  == [units : 0 .. BucketCapacity, last : Nat] \cup {NoBucket}

Acceptances == [doc : Docs, now : Nat, at : Nat]

Larger(a, b)  == IF a >= b THEN a ELSE b
Smaller(a, b) == IF a <= b THEN a ELSE b
Drop(s, k)    == SubSeq(s, k + 1, Len(s))

-----------------------------------------------------------------------------
Tick ==
    /\ clock < MaxTime
    /\ clock' = clock + 1
    /\ UNCHANGED <<order, seen, floor, buckets, task, calls, accepted, admitted>>

\* Step 7: issued_at within MAX_SKEW_SECS of the clock, either way.
Fresh(doc, now) ==
    /\ doc.issued_at - now <= MAX_SKEW_SECS
    /\ now - doc.issued_at <= MAX_SKEW_SECS

Begin(t, doc) ==
    /\ calls < MaxCalls
    /\ task[t] = Idle
    /\ Fresh(doc, clock)
    /\ task' = [task EXCEPT ![t] = [pc |-> "seen", doc |-> doc, now |-> clock]]
    /\ calls' = calls + 1
    /\ UNCHANGED <<clock, order, seen, floor, buckets, accepted, admitted>>

-----------------------------------------------------------------------------
(* ReplayCache                                                             *)

KeysOf(entries, n) == {entries[i].key : i \in 1 .. n}

\* `prune` drops the k entries before the first that expires after now.
Prunes(k, now) ==
    /\ k \in 0 .. Len(order)
    /\ \A i \in 1 .. k : order[i].expires_at <= now
    /\ k < Len(order) => order[k + 1].expires_at > now

\* What `seen` and `insert` refuse, after pruning k entries.
Replayed(doc, k) ==
    \/ doc.issued_at <= floor
    \/ ReplayKey(doc) \in seen \ KeysOf(order, k)

\* Step 9.
Seen(t) ==
    LET doc == task[t].doc IN
    /\ task[t].pc = "seen"
    /\ \E k \in 0 .. Len(order) :
          /\ Prunes(k, task[t].now)
          /\ order' = Drop(order, k)
          /\ seen' = seen \ KeysOf(order, k)
          /\ task' = [task EXCEPT ![t] =
                         IF Replayed(doc, k) THEN Idle ELSE [@ EXCEPT !.pc = "limit"]]
    /\ UNCHANGED <<clock, floor, buckets, calls, accepted, admitted>>

\* Mutant: an evicted entry is forgotten without raising the floor.
EvictSilently(k, n) == floor

\* Mutant: room is made one entry too late.
GoneWhenOver(k) == IF Len(order) - k > Capacity THEN k + 1 ELSE k

\* The entries gone once there is room for one more: the k pruned, and one
\* more from a full cache.  The cache never holds more than its capacity, so
\* the loop of `insert` runs at most once.
Gone(k) == IF Len(order) - k >= Capacity THEN k + 1 ELSE k

\* An evicted entry raises the floor to its issue time.
RaisedFloor(k, n) == IF n > k THEN Larger(floor, order[n].issued_at) ELSE floor

\* Step 11: consume the nonce, and let the call through.
Insert(t) ==
    LET doc == task[t].doc
        now == task[t].now
    IN  /\ task[t].pc = "consume"
        /\ \E k \in 0 .. Len(order) :
              /\ Prunes(k, now)
              /\ \/ /\ Replayed(doc, k)
                    /\ order' = Drop(order, k)
                    /\ seen' = seen \ KeysOf(order, k)
                    /\ UNCHANGED <<floor, accepted>>
                 \/ /\ ~ Replayed(doc, k)
                    /\ order' = Append(Drop(order, Gone(k)),
                                       [key        |-> ReplayKey(doc),
                                        expires_at |-> now + REPLAY_TTL_SECS,
                                        issued_at  |-> doc.issued_at])
                    /\ seen' = (seen \ KeysOf(order, Gone(k))) \cup {ReplayKey(doc)}
                    /\ floor' = RaisedFloor(k, Gone(k))
                    /\ accepted' = Append(accepted, [doc |-> doc, now |-> now, at |-> clock])
        /\ task' = [task EXCEPT ![t] = Idle]
        /\ UNCHANGED <<clock, buckets, calls, admitted>>

-----------------------------------------------------------------------------
(* HostRateLimiter                                                         *)

\* Mutant: time before the bucket's last refill counts as elapsed too.
RefillsBackwards(b, now) ==
    Smaller(b.units + Larger(now - b.last, b.last - now) * Calls, BucketCapacity)

\* `refilled`: nothing accrues for a now before the last one.
Refilled(b, now) ==
    Smaller(b.units + Larger(now - b.last, 0) * Calls, BucketCapacity)

\* Step 10: `check`.  A host without a bucket starts with a full one.
Check(t) ==
    LET h     == task[t].doc.host
        now   == task[t].now
        b     == IF buckets[h] = NoBucket
                 THEN [units |-> BucketCapacity, last |-> now]
                 ELSE buckets[h]
        units == Refilled(b, now)
        last  == Larger(now, b.last)
    IN  /\ task[t].pc = "limit"
        /\ \/ /\ units >= CallCost
              /\ buckets' = [buckets EXCEPT ![h] = [units |-> units - CallCost, last |-> last]]
              /\ admitted' = [admitted EXCEPT ![h] = Append(@, last)]
              /\ task' = [task EXCEPT ![t].pc = "consume"]
           \/ /\ units < CallCost
              /\ buckets' = [buckets EXCEPT ![h] = [units |-> units, last |-> last]]
              /\ task' = [task EXCEPT ![t] = Idle]
              /\ UNCHANGED admitted
        /\ UNCHANGED <<clock, order, seen, floor, calls, accepted>>

-----------------------------------------------------------------------------
Init ==
    /\ clock = 0
    /\ order = <<>>
    /\ seen = {}
    /\ floor = NoFloor
    /\ buckets = [h \in Hosts |-> NoBucket]
    /\ task = [t \in Tasks |-> Idle]
    /\ calls = 0
    /\ accepted = <<>>
    /\ admitted = [h \in Hosts |-> <<>>]

Next ==
    \/ Tick
    \/ \E t \in Tasks : Seen(t) \/ Check(t) \/ Insert(t)
    \/ \E t \in Tasks, h \in Hosts, n \in Nonces, i \in 0 .. MaxTime + MAX_SKEW_SECS :
          Begin(t, [host |-> h, nonce |-> n, issued_at |-> i])

Spec == Init /\ [][Next]_vars

-----------------------------------------------------------------------------
\* Types of the cache, the buckets, the locals of the calls and the history.
TypeOK ==
    /\ clock \in Nat
    /\ order \in Seq(Entries)
    /\ seen \subseteq ReplayKeys
    /\ floor \in Nat \cup {NoFloor}
    /\ buckets \in [Hosts -> Buckets]
    /\ task \in [Tasks -> Locals]
    /\ calls \in Nat
    /\ accepted \in Seq(Acceptances)
    /\ admitted \in [Hosts -> Seq(Nat)]

\* The queue and the set of the replay cache hold the same nonces, each
\* once, and never more than the capacity, whatever calls prune, evict and
\* insert between each other with clocks of different age.
CacheConsistent ==
    /\ seen = KeysOf(order, Len(order))
    /\ \A i, j \in 1 .. Len(order) : order[i].key = order[j].key => i = j
    /\ Len(order) <= Capacity

\* A document that was let through is let through again only when
\* REPLAY_TTL_SECS have passed since the clock of the first call, and then
\* only by a call whose own clock was read before that moment or at it:
\* neither eviction from a full cache nor concurrent duplicates, between
\* `seen` and `insert`, admit a replay before.
ReplayOnlyAtWindowEnd ==
    \A i, j \in 1 .. Len(accepted) :
        i < j /\ accepted[i].doc = accepted[j].doc =>
            /\ accepted[i].now + REPLAY_TTL_SECS <= accepted[j].at
            /\ accepted[j].now <= accepted[i].now + REPLAY_TTL_SECS

\* In any stretch of a host's admissions, the calls cost no more than a full
\* bucket and what accrued over the stretch, although calls reach the bucket
\* with clocks out of order.
WithinRate ==
    \A h \in Hosts : \A i, j \in 1 .. Len(admitted[h]) :
        i <= j => (j - i + 1) * CallCost
                     <= BucketCapacity + (admitted[h][j] - admitted[h][i]) * Calls

\* A nonce is remembered for "the whole window in which a document stays
\* acceptable": no document is let through twice.
AcceptedOnce ==
    \A i, j \in 1 .. Len(accepted) : accepted[i].doc = accepted[j].doc => i = j
=============================================================================

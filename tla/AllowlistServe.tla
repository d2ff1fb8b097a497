--------------------------- MODULE AllowlistServe ---------------------------
(***************************************************************************)
(* SyncAllowlist on the CMIS cluster, for one host: the generation row of  *)
(* the ledger (ferro-raft/src/apps/generation.rs), the transactions that   *)
(* change what the host is allowed, and `serve`                            *)
(* (cmis/src/apps/compile.rs).                                             *)
(*                                                                         *)
(* `serve` awaits the ledger at every read and write, and a host whose     *)
(* call timed out calls again, perhaps on another node, so several run at  *)
(* once: each await is an action, and what a task read before it may be    *)
(* stale after it.  The ledger is linearizable (Raft, consistent reads).   *)
(*                                                                         *)
(* A digest is represented by the entries it is the digest of.  A ledger   *)
(* error ends a call without an answer, which a host that stops waiting    *)
(* covers; the failed cache write, which does not, is an outcome of its    *)
(* own.                                                                    *)
(***************************************************************************)
EXTENDS Integers

CONSTANTS
    Apps,             \* approvals the host may have
    ExpiresAt,        \* expires_at of each
    LegacyEntries,    \* entries a legacy body may have
    Tasks,            \* serve tasks
    TTL,              \* allowlist_ttl_secs
    MILLIS,           \* milliseconds in a second
    ATTEMPTS,
    MaxTime,          \* bound: the clock
    MaxChanges        \* bound: changes to the approvals, the legacy body and the mode

ASSUME ServeAssumption ==
    /\ ExpiresAt \in [Apps -> Nat]
    /\ "uncompiled" \notin Apps \cup LegacyEntries
    /\ TTL \in Nat \ {0}
    /\ MILLIS \in Nat \ {0}
    /\ ATTEMPTS \in Nat \ {0}
    /\ MaxTime \in Nat /\ MaxChanges \in Nat

VARIABLES
    clock,
    mode,         \* the allowlist_mode setting
    approvals,    \* the host's rows of app_approvals in state ACTIVE
    legacy,       \* the entries of its stored v1 body
    row,          \* its row of host_allowlist_state
    task,         \* per serve task: where it is and its locals
    changes,      \* changes made
    signed        \* history: the generation and entries of every body signed

serveVars == <<clock, mode, approvals, legacy, row, task, changes, signed>>

-----------------------------------------------------------------------------
(* Data                                                                    *)

Modes      == {"legacy", "approvals"}
EntrySets  == SUBSET (Apps \cup LegacyEntries)

\* GENERATION_UNCOMPILED_DIGEST: the digest of no entry set.
Uncompiled == {"uncompiled"}

\* A signed body.  A v2 body has a generation of at least 1.
Bodies == [gen : Nat, entries : EntrySets, issued_at : Nat, not_after : Nat]
NoBody == [gen |-> 0, entries |-> {}, issued_at |-> 0, not_after |-> 0]

Rows  == [gen : Nat, digest : EntrySets \cup {Uncompiled}, cached : Bodies]
NoRow == [gen |-> 0, digest |-> Uncompiled, cached |-> NoBody]

\* reply is NoBody for NotModified, which names the generation in gen.
Steps  == {"idle", "sent", "row", "first", "compile", "record", "cache", "answered", "aborted"}
Locals == [pc : Steps, have : Nat, now : Nat, mode : Modes, st : Rows, entries : EntrySets,
           gen : Nat, tries : Nat, reply : Bodies]
Idle   == [pc |-> "idle", have |-> 0, now |-> 0, mode |-> "legacy", st |-> NoRow,
           entries |-> {}, gen |-> 0, tries |-> 0, reply |-> NoBody]

Larger(a, b) == IF a >= b THEN a ELSE b

\* now_millis: the wall clock at the moment of the call.
UnixMillis == MILLIS * clock

-----------------------------------------------------------------------------
(* The ledger                                                              *)

\* Mutant: the clock alone gives the next generation.
GenerationByClock(gen) == Larger(UnixMillis, 1)

NextGeneration(gen) == Larger(gen + 1, UnixMillis)

\* bump_generation_stmt.
BumpedRow == [gen |-> NextGeneration(row.gen), digest |-> Uncompiled, cached |-> NoBody]

Tick ==
    /\ clock < MaxTime
    /\ clock' = clock + 1
    /\ UNCHANGED <<mode, approvals, legacy, row, task, changes, signed>>

\* Mutant: a change of the approvals starts the generations over.
ChangeApprovalsAfresh(S) ==
    /\ changes < MaxChanges
    /\ S # approvals
    /\ approvals' = S
    /\ row' = [gen |-> 1, digest |-> Uncompiled, cached |-> NoBody]
    /\ changes' = changes + 1
    /\ UNCHANGED <<clock, mode, legacy, task, signed>>

\* A transaction that changes the host's approvals: a decision, an automatic
\* approval, an edit, a revocation, the expiry sweep, a legacy import.
ChangeApprovals(S) ==
    /\ changes < MaxChanges
    /\ S # approvals
    /\ approvals' = S
    /\ row' = BumpedRow
    /\ changes' = changes + 1
    /\ UNCHANGED <<clock, mode, legacy, task, signed>>

\* SetAllowlist and DeleteAllowlist, refused in approvals mode.  The
\* generation does not move.
SetLegacy(S) ==
    /\ changes < MaxChanges
    /\ mode = "legacy"
    /\ S # legacy
    /\ legacy' = S
    /\ changes' = changes + 1
    /\ UNCHANGED <<clock, mode, approvals, row, task, signed>>

\* SetAllowlistMode.
SetMode(m) ==
    /\ changes < MaxChanges
    /\ m # mode
    /\ mode' = m
    /\ changes' = changes + 1
    /\ UNCHANGED <<clock, approvals, legacy, row, task, signed>>

-----------------------------------------------------------------------------
(* serve                                                                   *)

\* A host's call reaches the network.
Request(t, have) ==
    /\ task[t] = Idle
    /\ task' = [task EXCEPT ![t] = [Idle EXCEPT !.pc = "sent", !.have = have]]
    /\ UNCHANGED <<clock, mode, approvals, legacy, row, changes, signed>>

\* The handler reads the clock, once, and the mode, once.
Arrive(t) ==
    /\ task[t].pc = "sent"
    /\ task' = [task EXCEPT ![t] = [@ EXCEPT !.pc = "row", !.now = clock, !.mode = mode]]
    /\ UNCHANGED <<clock, mode, approvals, legacy, row, changes, signed>>

\* app_allowlist_state.
ReadRow(t) ==
    /\ task[t].pc = "row"
    /\ task' = [task EXCEPT ![t] =
                   [@ EXCEPT !.pc = IF row = NoRow THEN "first" ELSE "compile", !.st = row]]
    /\ UNCHANGED <<clock, mode, approvals, legacy, row, changes, signed>>

\* A turn of the loop ended without an answer.
Retry(t) ==
    LET tries == task[t].tries + 1 IN
    task' = [task EXCEPT ![t] =
                IF tries < ATTEMPTS
                THEN [@ EXCEPT !.pc = "row", !.tries = tries, !.st = NoRow, !.entries = {}]
                ELSE [Idle EXCEPT !.pc = "aborted"]]

\* The first sync of a host starts its generation.
StartGeneration(t) ==
    /\ task[t].pc = "first"
    /\ row' = BumpedRow
    /\ Retry(t)
    /\ UNCHANGED <<clock, mode, approvals, legacy, changes, signed>>

\* `entries`: what the host is allowed in this mode at this time.
Entries(m, now) ==
    IF m = "approvals" THEN {a \in approvals : ExpiresAt[a] > now} ELSE legacy

\* The cached body has more than half of its lifetime left.
CacheFresh(st, now) == st.cached # NoBody /\ st.cached.not_after - now > TTL \div 2

\* Mutant: only a transaction that bumps the generation changes the entries.
KnownOnceCompiled(st, entries) == st.digest # Uncompiled

\* The entries are the ones recorded for the generation of the row read.
Known(st, entries) == st.digest = entries

Answered(gen, body) == [Idle EXCEPT !.pc = "answered", !.gen = gen, !.reply = body]

\* Compile the entries and compare their digest with the one of the row as
\* it was read: the cached body answers, or one is signed for the same
\* generation, or the digest is to be recorded first.
Compile(t) ==
    LET st      == task[t].st
        entries == Entries(task[t].mode, task[t].now)
        known   == Known(st, entries)
    IN  /\ task[t].pc = "compile"
        /\ task' = [task EXCEPT ![t] =
              IF known /\ CacheFresh(st, task[t].now)
              THEN Answered(st.gen, IF task[t].have = st.gen THEN NoBody ELSE st.cached)
              ELSE [@ EXCEPT !.pc = IF known THEN "cache" ELSE "record",
                             !.entries = entries, !.gen = st.gen]]
        /\ UNCHANGED <<clock, mode, approvals, legacy, row, changes, signed>>

\* Mutant: the digest of a generation is replaced in place.
DigestReplaced(gen, entries) ==
    [gen    |-> gen,
     digest |-> entries,
     cached |-> IF row.digest = entries THEN row.cached ELSE NoBody]

\* The row once `entries` are recorded: a generation that already had other
\* entries moves on.
RecordedRow(gen, entries) ==
    [gen    |-> IF row.digest \in {Uncompiled, entries} THEN gen ELSE NextGeneration(gen),
     digest |-> entries,
     cached |-> IF row.digest = entries THEN row.cached ELSE NoBody]

\* app_record_compiled_digest: only while the generation is the one read.
Record(t) ==
    /\ task[t].pc = "record"
    /\ \/ /\ row.gen = task[t].gen
          /\ row' = RecordedRow(row.gen, task[t].entries)
          /\ task' = [task EXCEPT ![t] = [@ EXCEPT !.pc = "cache", !.gen = row'.gen]]
       \/ /\ row.gen # task[t].gen
          /\ Retry(t)
          /\ UNCHANGED row
    /\ UNCHANGED <<clock, mode, approvals, legacy, changes, signed>>

NotAfter(now) == now + TTL

\* sign_and_cache: sign with a window from the task's now, cache the body
\* unless the generation moved or the write fails, and answer either way.
SignAndCache(t) ==
    LET body == [gen       |-> task[t].gen,
                 entries   |-> task[t].entries,
                 issued_at |-> task[t].now,
                 not_after |-> NotAfter(task[t].now)]
    IN  /\ task[t].pc = "cache"
        /\ signed' = signed \cup {<<body.gen, body.entries>>}
        /\ \/ /\ row.gen = body.gen /\ row.digest # Uncompiled
              /\ row' = [row EXCEPT !.cached = body]
           \/ UNCHANGED row
        /\ task' = [task EXCEPT ![t] = Answered(body.gen, body)]
        /\ UNCHANGED <<clock, mode, approvals, legacy, changes>>

\* The answer leaves: to the host, or to nobody.
Respond(t) ==
    /\ task[t].pc \in {"sent", "answered", "aborted"}
    /\ task' = [task EXCEPT ![t] = Idle]
    /\ UNCHANGED <<clock, mode, approvals, legacy, row, changes, signed>>

-----------------------------------------------------------------------------
ServeInit ==
    /\ clock = 0
    /\ mode \in Modes
    /\ approvals = {}
    /\ legacy = {}
    /\ row = NoRow
    /\ task = [t \in Tasks |-> Idle]
    /\ changes = 0
    /\ signed = {}

Change ==
    \/ \E S \in SUBSET Apps : ChangeApprovals(S)
    \/ \E S \in SUBSET LegacyEntries : SetLegacy(S)
    \/ \E m \in Modes : SetMode(m)

Serve(t) ==
    \/ Arrive(t) \/ ReadRow(t) \/ StartGeneration(t)
    \/ Compile(t) \/ Record(t) \/ SignAndCache(t)

ServeNext ==
    \/ Tick
    \/ Change
    \/ \E t \in Tasks : Serve(t) \/ Respond(t) \/ \E have \in Nat : Request(t, have)

ServeSpec == ServeInit /\ [][ServeNext]_serveVars

-----------------------------------------------------------------------------
ServeTypeOK ==
    /\ clock \in Nat /\ changes \in Nat
    /\ mode \in Modes
    /\ approvals \subseteq Apps
    /\ legacy \subseteq LegacyEntries
    /\ row \in Rows
    /\ task \in [Tasks -> Locals]
    /\ signed \subseteq Nat \X EntrySets

\* "Two bodies with one generation always carry the same entries": over all
\* bodies ever signed, by any tasks, whatever was approved, revoked, expired
\* or switched between their reads and their writes.
OneEntrySetPerGeneration ==
    \A x, y \in signed : x[1] = y[1] => x[2] = y[2]
=============================================================================

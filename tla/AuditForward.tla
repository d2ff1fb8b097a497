---------------------------- MODULE AuditForward -----------------------------
(***************************************************************************)
(* The forwarding of a host's audit events to CMIS                         *)
(* (mia/src/audit_forward/, AppendAuditEvent in cmis/src/service.rs).      *)
(*                                                                         *)
(* Producers put events in a bounded channel.  The intake task moves them  *)
(* to the spool, one write at a time; the sender forwards the front of the *)
(* spool, one call at a time, and finishes it when CMIS answers.  The      *)
(* spool is a queue in memory mirrored by a file of event records and      *)
(* "done" watermarks.  A write may fail or be cut short, the agent may     *)
(* stop between any two steps and in the middle of an append, a call may   *)
(* be answered, lost, or served after the sender gave up on it.            *)
(*                                                                         *)
(* Lengths stand for bytes: the cap and the compaction threshold count     *)
(* records.  Sleeps are not timed.  Without CMIS configured the events are *)
(* only logged and nothing of this runs.                                   *)
(***************************************************************************)
EXTENDS Naturals, Sequences, FiniteSets, FiniteSetsExt, Functions

CONSTANTS
    MaxEvents,     \* bound: events produced
    Unacceptable,  \* events CMIS refuses for good (malformed, not forwardable)
    CHANNEL_CAPACITY,
    Cap,           \* SpoolLimits.max_entries
    COMPACT_MIN,   \* COMPACT_MIN_DEAD_BYTES, in records
    MaxMishaps     \* bound: failed writes and reads, stops, calls lost or refused

ASSUME ForwardAssumption ==
    /\ MaxEvents \in Nat /\ MaxMishaps \in Nat /\ COMPACT_MIN \in Nat
    /\ CHANNEL_CAPACITY \in Nat \ {0} /\ Cap \in Nat \ {0}
    /\ Unacceptable \subseteq 1 .. MaxEvents

HostEvents == 1 .. MaxEvents

VARIABLES
    produced,  \* events produced so far
    chan,      \* the channel
    staged,    \* events the intake took and has not handed to a write
    flight,    \* the write in progress: none, its batch, or done
    spool,     \* Spool: pending, next_seq, needs_rewrite, unread; "down" when the agent is
    file,      \* the spool file: its records and whether it ends inside a line
    aside,     \* events in files moved aside
    sender,    \* send_loop: its step and the event it works on
    wake,      \* the stored permit of Notify
    slot,      \* the credential slot
    late,      \* events of calls the sender gave up on that CMIS may still serve
    offered, log, refused, gone,   \* what the sender took up, what CMIS appended and refused, what the cap dropped
    mishaps

intakeVars == <<produced, chan, staged, flight>>
spoolVars  == <<spool, file, aside>>
cmisVars   == <<late, offered, log, refused>>
forwardVars == <<intakeVars, spoolVars, sender, wake, slot, cmisVars, gone, mishaps>>

-----------------------------------------------------------------------------
Entries == [seq : Nat, ev : HostEvents]
Records == [kind : {"event"}, seq : Nat, ev : HostEvents] \cup [kind : {"done"}, seq : Nat]

EventRecord(e) == [kind |-> "event", seq |-> e.seq, ev |-> e.ev]
DoneRecord(n)  == [kind |-> "done", seq |-> n]

RecordsOf(s) == [i \in DOMAIN s |-> EventRecord(s[i])]
EventsOf(s)  == [i \in DOMAIN s |-> s[i].ev]

Down      == [up |-> FALSE, pending |-> <<>>, next |-> 1, rewrite |-> TRUE, unread |-> FALSE]
EmptyFile == [records |-> <<>>, torn |-> FALSE]
NoFlight  == [batch |-> <<>>, done |-> FALSE]
AtTop     == [pc |-> "top", seq |-> 0, ev |-> 0]

Mishap(n) == mishaps' = mishaps + n /\ mishaps' <= MaxMishaps

SpoolFiles == [records : Seq(Records), torn : BOOLEAN]
Spools  == [up : BOOLEAN, pending : Seq(Entries), next : Nat, rewrite : BOOLEAN, unread : BOOLEAN]
Senders == [pc : {"top", "empty", "parked", "read", "calling", "forwarded", "rejected"},
            seq : Nat, ev : HostEvents \cup {0}]

ForwardTypeOK ==
    /\ produced \in 0 .. MaxEvents
    /\ chan \in Seq(HostEvents) /\ Len(chan) <= CHANNEL_CAPACITY
    /\ staged \in Seq(HostEvents) /\ Len(staged) <= Cap
    /\ flight \in [batch : Seq(HostEvents), done : BOOLEAN] /\ Len(flight.batch) <= Cap
    /\ spool \in Spools /\ Len(spool.pending) <= Cap
    /\ file \in SpoolFiles
    /\ sender \in Senders
    /\ wake \in BOOLEAN
    /\ slot \in {"missing", "expired", "valid"}
    /\ log \in Seq(HostEvents)
    /\ aside \cup late \cup offered \cup refused \cup gone \subseteq HostEvents
    /\ mishaps \in 0 .. MaxMishaps

ForwardInit ==
    /\ produced = 0 /\ chan = <<>> /\ staged = <<>> /\ flight = NoFlight
    /\ spool = Down /\ file = EmptyFile /\ aside = {}
    /\ sender = AtTop /\ wake = FALSE /\ slot = "missing"
    /\ late = {} /\ offered = {} /\ log = <<>> /\ refused = {} /\ gone = {}
    /\ mishaps = 0

-----------------------------------------------------------------------------
(* The file: spool.rs                                                      *)

\* drop_over_cap.
DropOverCap(pending) ==
    IF Len(pending) > Cap THEN SubSeq(pending, Len(pending) - Cap + 1, Len(pending)) ELSE pending

\* load keeps an event numbered above every record before it and finished by
\* no watermark after it.
Live(f, i) ==
    /\ f.records[i].kind = "event"
    /\ \A j \in DOMAIN f.records :
         j < i \/ f.records[j].kind = "done" => f.records[j].seq < f.records[i].seq

\* The events load keeps of file f; a torn last line is skipped.
EntryOf(r) == [seq |-> r.seq, ev |-> r.ev]
Waiting(f) == {EntryOf(f.records[i]) : i \in {i \in DOMAIN f.records : Live(f, i)}}

Ascending(s) == \A i, j \in DOMAIN s : i < j => s[i].seq < s[j].seq

\* load finds them by rising number, as it skips every other event.
Loaded(f) ==
    LET found == Waiting(f)
    IN  DropOverCap(CHOOSE s \in [1 .. Cardinality(found) -> found] : Ascending(s) /\ Range(s) = found)

\* The events are renumbered from 1.
Renumber(pending) == [i \in DOMAIN pending |-> [pending[i] EXCEPT !.seq = i]]

\* Mutant: renumbered events and watermarks do not call for a rewrite.
CanonicalUnlessTorn(f) == ~f.torn

\* The file is as a rewrite would leave it.
Canonical(f) ==
    /\ ~f.torn
    /\ f.records = RecordsOf(Renumber(Loaded(f)))

\* append: after a torn line the first record is part of that line.
AppendRecords(f, records) ==
    [records |-> f.records \o (IF f.torn THEN Tail(records) ELSE records), torn |-> FALSE]

\* Mutant: a file that was not read is written over.
RewriteOver(sp, f, n) ==
    \/ /\ file' = [records |-> RecordsOf(sp.pending), torn |-> FALSE]
       /\ spool' = [sp EXCEPT !.rewrite = FALSE, !.unread = FALSE]
       /\ Mishap(n)
       /\ UNCHANGED aside
    \/ /\ file' = f
       /\ spool' = [sp EXCEPT !.rewrite = TRUE]
       /\ Mishap(n + 1)
       /\ UNCHANGED aside

\* rewrite, of spool sp over file f, after n mishaps: a file that was not read
\* is moved aside before anything is written in its place.
Rewrite(sp, f, n) ==
    LET moved == IF sp.unread THEN Range(EventsOf(Loaded(f))) ELSE {}
        rest  == IF sp.unread THEN EmptyFile ELSE f
    IN  \/ /\ file' = [records |-> RecordsOf(sp.pending), torn |-> FALSE]
           /\ aside' = aside \cup moved
           /\ spool' = [sp EXCEPT !.rewrite = FALSE, !.unread = FALSE]
           /\ Mishap(n)
        \/ /\ file' = rest
           /\ aside' = aside \cup moved
           /\ spool' = [sp EXCEPT !.rewrite = TRUE, !.unread = FALSE]
           /\ Mishap(n + 1)
        \/ /\ sp.unread
           /\ file' = f
           /\ spool' = [sp EXCEPT !.rewrite = TRUE]
           /\ Mishap(n + 1)
           /\ UNCHANGED aside

\* What an append of records may leave when it is cut short: the whole
\* records written and perhaps a part of the next.
CutShort(f, records) ==
    {f} \cup {[AppendRecords(f, SubSeq(records, 1, n)) EXCEPT !.torn = t] :
                 n \in 1 .. Len(records), t \in BOOLEAN}
        \cup {[f EXCEPT !.torn = TRUE]}

\* Dead records outweigh the live ones.
Compacts(sp, f) == Len(f.records) - Len(sp.pending) > Max({Len(sp.pending), COMPACT_MIN})

\* persist_append.
PersistAppend(sp, records) ==
    LET written == AppendRecords(file, records) IN
    \/ sp.rewrite /\ Rewrite(sp, file, 0)
    \/ /\ ~sp.rewrite
       /\ IF Compacts(sp, written)
          THEN Rewrite(sp, written, 0)
          ELSE /\ file' = written /\ spool' = sp
               /\ UNCHANGED <<aside, mishaps>>
    \/ /\ ~sp.rewrite
       /\ \E f \in CutShort(file, records) : Rewrite([sp EXCEPT !.rewrite = TRUE], f, 1)

\* Spool::push in memory, and the records it appends: a watermark for what
\* the cap dropped, then the new events that are still there.
Pushed(sp, batch) ==
    LET new == [i \in DOMAIN batch |-> [seq |-> sp.next + i - 1, ev |-> batch[i]]]
    IN  [sp EXCEPT !.pending = DropOverCap(sp.pending \o new), !.next = sp.next + Len(batch)]

PushRecords(sp, batch) ==
    LET after == Pushed(sp, batch).pending
        new   == Min({Len(after), Len(batch)})
        drops == Len(after) < Len(sp.pending) + Len(batch)
    IN  (IF drops THEN <<DoneRecord(Head(after).seq - 1)>> ELSE <<>>) \o RecordsOf(SubSeq(after, Len(after) - new + 1, Len(after)))

\* complete_through, in memory: the front is popped while it is finished.
Completed(sp, seq) ==
    LET popped == Max({0} \cup {i \in DOMAIN sp.pending : \A j \in 1 .. i : sp.pending[j].seq <= seq})
    IN  [sp EXCEPT !.pending = SubSeq(sp.pending, popped + 1, Len(sp.pending))]

\* What the cap drops.
DroppedBy(sp, batch) ==
    Range(EventsOf(sp.pending) \o batch) \ Range(EventsOf(Pushed(sp, batch).pending))

-----------------------------------------------------------------------------
(* The agent starts and stops                                              *)

\* Spool::open, and the two tasks.
OpenSpool ==
    /\ ~spool.up
    /\ LET read == [Down EXCEPT !.up = TRUE,
                                !.pending = Renumber(Loaded(file)),
                                !.next = Len(Loaded(file)) + 1,
                                !.rewrite = ~Canonical(file)]
           unreadable == [Down EXCEPT !.up = TRUE, !.unread = TRUE]
       IN  \/ read.rewrite /\ Rewrite(read, file, 0)
           \/ ~read.rewrite /\ spool' = read /\ UNCHANGED <<file, aside, mishaps>>
           \/ file # EmptyFile /\ Rewrite(unreadable, file, 1)
    /\ UNCHANGED <<intakeVars, sender, wake, slot, cmisVars, gone>>

\* The agent stops: the channel, the intake and the sender are gone.
Ends ==
    /\ spool.up
    /\ spool' = Down /\ chan' = <<>> /\ staged' = <<>> /\ flight' = NoFlight
    /\ sender' = AtTop /\ wake' = FALSE /\ slot' = "missing"
    /\ late' = IF sender.pc = "calling" THEN late \cup {sender.ev} ELSE late
    /\ UNCHANGED <<produced, aside, offered, log, refused>>
    /\ Mishap(1)

AgentStops == Ends /\ UNCHANGED <<file, gone>>

\* It stops in the middle of the append of a push or of a finish.
CrashInPush ==
    /\ flight.batch # <<>> /\ ~spool.rewrite
    /\ file' \in CutShort(file, PushRecords(spool, flight.batch))
    /\ gone' = gone \cup DroppedBy(spool, flight.batch)
    /\ Ends

CrashInFinish ==
    /\ sender.pc \in {"forwarded", "rejected"} /\ ~spool.rewrite
    /\ Completed(spool, sender.seq) # spool
    /\ file' \in CutShort(file, <<DoneRecord(sender.seq)>>)
    /\ UNCHANGED gone
    /\ Ends

-----------------------------------------------------------------------------
(* The intake                                                              *)

\* A producer offers the next event: the helper API waits for room, the
\* other tasks drop the event when there is none.
Produce ==
    /\ spool.up /\ produced < MaxEvents
    /\ produced' = produced + 1
    /\ chan' = IF Len(chan) < CHANNEL_CAPACITY THEN Append(chan, produced + 1) ELSE chan
    /\ UNCHANGED <<staged, flight, spoolVars, sender, wake, slot, cmisVars, gone, mishaps>>

\* intake takes what is in the channel while there is room to stage it, and
\* starts a write if none is in progress.
Intake ==
    LET n   == Min({Len(chan), Cap - Len(staged)})
        all == staged \o SubSeq(chan, 1, n)
    IN  /\ spool.up /\ n > 0
        /\ chan' = SubSeq(chan, n + 1, Len(chan))
        /\ IF flight = NoFlight
           THEN flight' = [NoFlight EXCEPT !.batch = all] /\ staged' = <<>>
           ELSE staged' = all /\ UNCHANGED flight
        /\ UNCHANGED <<produced, spoolVars, sender, wake, slot, cmisVars, gone, mishaps>>

\* The write task: push, under the spool's lock.
Push ==
    /\ spool.up /\ flight.batch # <<>>
    /\ PersistAppend(Pushed(spool, flight.batch), PushRecords(spool, flight.batch))
    /\ gone' = gone \cup DroppedBy(spool, flight.batch)
    /\ flight' = [batch |-> <<>>, done |-> TRUE]
    /\ UNCHANGED <<produced, chan, staged, sender, wake, slot, cmisVars>>

\* Mutant: only a sender that waits already is woken.
JoinFlightWakesWaiter ==
    /\ flight.done
    /\ IF sender.pc = "parked" THEN sender' = AtTop ELSE UNCHANGED sender
    /\ flight' = [batch |-> staged, done |-> FALSE] /\ staged' = <<>>
    /\ UNCHANGED <<produced, chan, spoolVars, wake, slot, cmisVars, gone, mishaps>>

\* intake joins the write, wakes the sender and starts the next write.
JoinFlight ==
    /\ flight.done
    /\ wake' = TRUE
    /\ flight' = [batch |-> staged, done |-> FALSE] /\ staged' = <<>>
    /\ UNCHANGED <<produced, chan, spoolVars, sender, slot, cmisVars, gone, mishaps>>

-----------------------------------------------------------------------------
(* The sender                                                              *)

\* The credential slot: filled by an attestation, emptied or left to expire.
SlotFilled ==
    /\ spool.up /\ slot # "valid"
    /\ slot' = "valid"
    /\ UNCHANGED <<intakeVars, spoolVars, sender, wake, cmisVars, gone, mishaps>>

SlotLost ==
    /\ slot = "valid"
    /\ slot' \in {"missing", "expired"}
    /\ Mishap(1)
    /\ UNCHANGED <<intakeVars, spoolVars, sender, wake, cmisVars, gone>>

\* The sender looks at the front of the spool, under its lock.
ReadFront ==
    /\ spool.up /\ sender.pc = "top"
    /\ IF spool.pending = <<>>
       THEN sender' = [sender EXCEPT !.pc = "empty"] /\ UNCHANGED offered
       ELSE LET front == Head(spool.pending)
            IN  /\ sender' = [pc |-> "read", seq |-> front.seq, ev |-> front.ev]
                /\ offered' = offered \cup {front.ev}
    /\ UNCHANGED <<intakeVars, spoolVars, wake, slot, late, log, refused, gone, mishaps>>

\* Nothing waits: wait for the intake.
Park ==
    /\ sender.pc = "empty"
    /\ sender' = [sender EXCEPT !.pc = "parked"]
    /\ UNCHANGED <<intakeVars, spoolVars, wake, slot, cmisVars, gone, mishaps>>

Woken ==
    /\ sender.pc = "parked" /\ wake
    /\ sender' = AtTop /\ wake' = FALSE
    /\ UNCHANGED <<intakeVars, spoolVars, slot, cmisVars, gone, mishaps>>

\* Sign the event with valid credentials and call CMIS; without, look again
\* later.
Call ==
    /\ sender.pc = "read"
    /\ sender' = IF slot = "valid" THEN [sender EXCEPT !.pc = "calling"] ELSE AtTop
    /\ UNCHANGED <<intakeVars, spoolVars, wake, slot, cmisVars, gone, mishaps>>

\* AppendAuditEvent: a host it authenticated gets an event of its own
\* appended; what cannot be decoded or forwarded is refused for good.
Serve(e) ==
    IF e \in Unacceptable
    THEN refused' = refused \cup {e} /\ UNCHANGED log
    ELSE log' = Append(log, e) /\ UNCHANGED refused

\* classify: Forwarded and Rejected finish the event; the sender keeps it on
\* every other answer.
Answer ==
    /\ sender.pc = "calling"
    /\ Serve(sender.ev)
    /\ sender' = [sender EXCEPT !.pc = IF sender.ev \in Unacceptable THEN "rejected" ELSE "forwarded"]
    /\ UNCHANGED <<intakeVars, spoolVars, wake, slot, late, offered, gone, mishaps>>

\* The call fails: not served (refused proof, rate limit, unreachable), served
\* with its answer lost, or to be served after the timeout.
CallFails ==
    /\ sender.pc = "calling"
    /\ \/ UNCHANGED <<late, log, refused>>
       \/ Serve(sender.ev) /\ UNCHANGED late
       \/ late' = late \cup {sender.ev} /\ UNCHANGED <<log, refused>>
    /\ sender' = AtTop
    /\ Mishap(1)
    /\ UNCHANGED <<intakeVars, spoolVars, wake, slot, offered, gone>>

ServeLate ==
    /\ \E e \in late : Serve(e) /\ late' = late \ {e}
    /\ UNCHANGED <<intakeVars, spoolVars, sender, wake, slot, offered, gone, mishaps>>

\* finish: nothing is written when the cap dropped the event meanwhile.
Finish ==
    LET after == Completed(spool, sender.seq)
    IN  /\ spool.up /\ sender.pc \in {"forwarded", "rejected"}
        /\ IF after = spool
           THEN UNCHANGED <<spoolVars, mishaps>>
           ELSE PersistAppend(after, <<DoneRecord(sender.seq)>>)
        /\ sender' = AtTop
        /\ UNCHANGED <<intakeVars, wake, slot, cmisVars, gone>>

-----------------------------------------------------------------------------
ForwardNext ==
    \/ OpenSpool \/ AgentStops \/ CrashInPush \/ CrashInFinish
    \/ Produce \/ Intake \/ Push \/ JoinFlight
    \/ SlotFilled \/ SlotLost
    \/ ReadFront \/ Park \/ Woken \/ Call \/ Answer \/ CallFails \/ ServeLate \/ Finish

\* The tasks are scheduled, the agent is restarted, the renewal loop fills
\* the slot and CMIS answers calls it gets.
Fairness ==
    /\ WF_forwardVars(OpenSpool) /\ WF_forwardVars(Intake) /\ WF_forwardVars(Push) /\ WF_forwardVars(JoinFlight)
    /\ WF_forwardVars(SlotFilled)
    /\ WF_forwardVars(ReadFront) /\ WF_forwardVars(Park) /\ WF_forwardVars(Woken)
    /\ WF_forwardVars(Call) /\ WF_forwardVars(Answer) /\ WF_forwardVars(Finish)

ForwardSpec == ForwardInit /\ [][ForwardNext]_forwardVars /\ Fairness

-----------------------------------------------------------------------------
(* Properties                                                              *)

\* Unless a rewrite is owed, the file reads back as exactly what waits in
\* memory, under the same numbers, and the next append starts a line of its
\* own: pushes, finishes, compactions and failed appends in any order leave
\* no file whose next record would be lost or would finish a newer event.
SpoolOnDisk ==
    spool.up /\ ~spool.rewrite =>
        /\ ~file.torn
        /\ Loaded(file) = spool.pending
        /\ \A i \in DOMAIN file.records : file.records[i].seq < spool.next

\* What waits, in memory or in the file while the agent is down, and its
\* durable copy.
Queue == EventsOf(IF spool.up THEN spool.pending ELSE Loaded(file))
Saved == EventsOf(Loaded(file))

Delivery == INSTANCE AuditDelivery WITH Events <- HostEvents, queue <- Queue, saved <- Saved

\* The spool, its file and the sender implement the bounded queue delivered
\* at least once: an event leaves only after CMIS answered for it or when
\* the cap pushes it out, only the front is handed to CMIS, and a restart
\* neither loses nor reorders what was durable.
DeliveryImplemented == Delivery!Spec

\* Once the mishaps stop, everything taken from the channel is forwarded,
\* refused or dropped: the sender is never left waiting beside a spool that
\* holds events.
Drains == <>[](spool.up /\ chan = <<>> /\ flight = NoFlight /\ spool.pending = <<>>)
=============================================================================

---------------------------- MODULE AgentRenewal -----------------------------
(***************************************************************************)
(* The renewal of the host SVID in the running agent (mia/src/renewal/),   *)
(* with what it swaps: the host-call credentials, the minter of the helper *)
(* API, the SVID of the proposals and the sealed X.509-SVID.               *)
(*                                                                         *)
(* One task sleeps in slices, decides from the wall clock, and calls CMIS  *)
(* under deadlines of the monotonic clock that are cut at the SVID's       *)
(* expiry.  A call may be answered, lost, or served after the task gave it *)
(* up.  The host may be suspended (only the wall clocks move), its clock   *)
(* may be stepped forward, the task may panic, the agent may stop and      *)
(* start again, and the host may be enrolled anew under another identity.  *)
(*                                                                         *)
(* A tick is the unit of every duration, and every time is relative to the *)
(* present: a tick takes one from each.  Timers fire when they are due,    *)
(* and what waits for no one (a step, a swap) takes no time: a tick never  *)
(* passes them by.  The status reports and the key policy are left out.    *)
(***************************************************************************)
EXTENDS Integers, FiniteSetsExt

CONSTANTS
    TTL,                    \* lifetime of an SVID
    HostKeyTier,            \* whether the SVID binds a host-call key
    REATTEST_WINDOW,        \* age of an attestation up to which CMIS serves Rotate
    ROTATE_WINDOW_MARGIN,
    RETRY_BASE, RETRY_CAP, EXPIRY_MARGIN, REATTEST_INTERVAL,
    MAX_SLEEP, MAX_ROTATE_FAILURES,
    ROTATE_TIMEOUT, ATTEST_TIMEOUT, AFTER_TIMEOUT,
    RetryAfters,            \* the retry-after values CMIS sends
    Jitters,                \* jitter samples, in tenths
    MaxFailures,            \* bound: failures beyond it give the same back-off
    MaxFaults,              \* bound: suspensions, clock steps, panics, stops, new enrolments
    Jump                    \* length of a suspension or a step of the clock

ASSUME RenewalAssumption ==
    /\ {TTL, REATTEST_WINDOW, RETRY_BASE, RETRY_CAP, REATTEST_INTERVAL, MAX_SLEEP,
        MAX_ROTATE_FAILURES, ROTATE_TIMEOUT, ATTEST_TIMEOUT, AFTER_TIMEOUT,
        MaxFailures, Jump} \subseteq Nat \ {0}
    /\ {ROTATE_WINDOW_MARGIN, EXPIRY_MARGIN, MaxFaults} \subseteq Nat
    /\ RetryAfters \subseteq Nat /\ Jitters \subseteq 0 .. 9 /\ Jitters # {}
    /\ HostKeyTier \in BOOLEAN
    /\ RETRY_BASE * 2 ^ (MaxFailures - 1) >= RETRY_CAP

\* What the code's constants satisfy: a Rotate takes up to 60 s, an
\* attestation 120 s, the refresh after a swap 60 s (Timeouts::default); the
\* back-off is from 30 s to 15 min, a sleep at most 60 s, the interval 5 min
\* and the margin of the window 10 min; an SVID lives 96 h or more (MIN_TTL_SECS).
ASSUME ScheduleAssumption ==
    /\ AFTER_TIMEOUT <= ROTATE_TIMEOUT + ATTEST_TIMEOUT
    /\ RETRY_BASE <= RETRY_CAP
    /\ MAX_SLEEP <= REATTEST_INTERVAL
    /\ ROTATE_TIMEOUT + ATTEST_TIMEOUT + AFTER_TIMEOUT <= ROTATE_WINDOW_MARGIN
    /\ ROTATE_TIMEOUT + ATTEST_TIMEOUT + RETRY_CAP < TTL \div 4

VARIABLES
    ahead,     \* how far the host's clock is ahead of CMIS's
    host,      \* the identity CMIS attests the host as
    cmis,      \* its stored record: the last SVID and when it was attested
    call,      \* the call in progress and its answer
    late,      \* the last call given up that CMIS may still serve
    run,       \* struct Renewal: held, last, identity, failures, rotate_failures, disabled, next_at
    loop,      \* where the task is: pc, timer, its idea of the time, ...
    slots,     \* in force: creds, minter, cell; on disk: whose X.509-SVID is sealed
    mint,      \* the SVID of the minter a request holds the read guard of
    faults,
    over,      \* ticks an expired SVID has been in force
    off,       \* ticks without a minter since the last mishap
    calm,      \* no mishap but with Rotates since the last install
    refused    \* CMIS refused a Rotate for the age of the attestation

ghosts == <<over, off, calm, refused>>
renewalVars == <<ahead, host, cmis, call, late, run, loop, slots, mint, faults, ghosts>>

-----------------------------------------------------------------------------
\* Every time counts from the present.
Now == 0

Fault == faults' = faults + 1 /\ faults' <= MaxFaults

(* An SVID is known by its expiry: the host accepts no two within a tick.  *)
NoSvid   == [id |-> 0, exp |-> 0]
NoAnswer == [kind |-> "none", svid |-> NoSvid, after |-> -1]

NoCall      == [kind |-> "none", svid |-> NoSvid, answer |-> NoAnswer]
Answer(k)   == [NoAnswer EXCEPT !.kind = k]
Issued(s)   == [NoAnswer EXCEPT !.kind = "issued", !.svid = s]
Limited(r)  == [NoAnswer EXCEPT !.kind = "limited", !.after = r]

\* credentials(): only an SVID that binds a host-call key signs host calls.
Credentials(s) == IF HostKeyTier THEN s ELSE NoSvid

Least(a, b)    == Min({a, b})
Greatest(a, b) == Max({a, b})
secs(d)        == Greatest(d, 0)

\* rotation_at: 60 % of the lifetime, give or take 10 %, rounded.
rotation_at(s, u) == s.exp - TTL + (TTL * (50 + 2 * u) + 50) \div 100

\* Mutant: ten times the jitter.
ReattestWaitWide(u) == (REATTEST_INTERVAL * (90 + 20 * u)) \div 100
\* reattest_wait: the interval, give or take 10 %, cut to whole seconds.
reattest_wait(u) == (REATTEST_INTERVAL * (90 + 2 * u)) \div 100

\* bound_before_expiry: at least one second, and awake before the expiry.
bound_before_expiry(d, left) ==
    Least(Greatest(d, 1), IF left > EXPIRY_MARGIN THEN left - EXPIRY_MARGIN ELSE left)

\* next_wait: the back-off after f failures of renewing s, at time t.
next_wait(t, s, f, u) ==
    IF t >= s.exp THEN reattest_wait(u)
    ELSE LET left == s.exp - t
             base == Min({RETRY_BASE * 2 ^ (f - 1), RETRY_CAP, left \div 4})
         IN bound_before_expiry((base * (10 + u)) \div 20, left)

\* retry_after_wait: what CMIS asked for, but awake at the expiry.
retry_after_wait(t, s, after) ==
    LET d == Least(Greatest(after, 1), RETRY_CAP)
    IN IF t < s.exp THEN Least(d, s.exp - t) ELSE d

\* Mutant: the whole window of CMIS, without the margin.
RotateAllowedToTheEnd(t, last) == t < last + REATTEST_WINDOW
\* rotate_allowed: the margin is for the time the attestation took to arrive.
rotate_allowed(t, last) == t < last + REATTEST_WINDOW - ROTATE_WINDOW_MARGIN

\* Mutant: Rotate for as long as the SVID lives.
UseRotateToTheEnd(t) == HostKeyTier /\ rotate_allowed(t, run.last)
\* step: whether the renewal due at t is tried with Rotate.
UseRotate(t) ==
    /\ HostKeyTier
    /\ rotate_allowed(t, run.last)
    /\ run.rotate_failures < MAX_ROTATE_FAILURES
    /\ run.held.exp - t >= TTL \div 4

-----------------------------------------------------------------------------
(* Where the task goes next.                                               *)
Holds   == run.held # NoSvid
Expired(t) == Holds /\ t >= run.held.exp

\* Mutant: one sleep for the whole wait.
AsleepThrough(w) == [pc |-> "sleep", timer |-> w, at |-> 0, cut |-> FALSE,
                     path |-> "none", then |-> "none", cand |-> NoSvid]
\* run: sleep for w, but wake to read the clock at least every MAX_SLEEP.
Asleep(w) == [pc |-> "sleep", timer |-> Least(w, MAX_SLEEP), at |-> 0, cut |-> FALSE,
              path |-> "none", then |-> "none", cand |-> NoSvid]

\* bounded: run until the deadline, or until the SVID expires.
Bounded(pc, t, limit, left) ==
    [Asleep(0) EXCEPT !.pc = pc, !.at = t, !.timer = Least(limit, left), !.cut = left <= limit]

Rotating(t) == Bounded("rotating", t, ROTATE_TIMEOUT, secs(run.held.exp - t))

\* full_attest: only a renewal ends with the SVID it renews.
Attesting(t, renewing) ==
    IF renewing
    THEN Bounded("attesting", t, ATTEST_TIMEOUT, secs(run.held.exp - t))
    ELSE [Bounded("attesting", t, ATTEST_TIMEOUT, ATTEST_TIMEOUT) EXCEPT !.cut = FALSE]

Disabling(then, t) == [Asleep(0) EXCEPT !.pc = "disabling", !.then = then, !.at = t]

\* wait_from: count the failure and sleep for w from t.
BackOff(t, w) ==
    /\ run' = [run EXCEPT !.failures = Least(@ + 1, MaxFailures), !.next_at = t + w]
    /\ loop' = Asleep(w)

\* failed: the wait depends on what is held and on what CMIS asked for.
failed(t, after) ==
    \E u \in Jitters :
        BackOff(t, IF ~Holds THEN reattest_wait(u)
                   ELSE IF after >= 0 /\ t < run.held.exp
                        THEN retry_after_wait(t, run.held, after)
                        ELSE next_wait(t, run.held, Least(run.failures + 1, MaxFailures), u))

\* skewed: a whole interval, but awake at the expiry.
skewed(t) ==
    \E u \in Jitters :
        BackOff(t, IF Holds /\ t < run.held.exp
                   THEN Least(reattest_wait(u), run.held.exp - t) ELSE reattest_wait(u))

-----------------------------------------------------------------------------
(* CMIS.  Issuance.tla models the two calls step by step; here each is one *)
(* step, and what they leave is the record.                                *)
CmisNow == Now - ahead

\* A record with an SVID the host never gets: no Rotate reads its time.
Unheard == [svid |-> NoSvid, at |-> 0]

Fresh(id) == [id |-> id, exp |-> CmisNow + TTL]

\* rotate: only the last SVID of the record, valid, within the window.
Renews(s)    == s # NoSvid /\ s = cmis.svid /\ CmisNow < s.exp
InWindow     == CmisNow - cmis.at <= REATTEST_WINDOW

\* CMIS renews s, or refuses: a Rotate of something else, a changed state, ...
ServeRotate(s, answer) ==
    \/ /\ Renews(s) /\ InWindow
       /\ \/ answer = Issued(Fresh(s.id)) /\ cmis' = [cmis EXCEPT !.svid = Fresh(s.id)]
          \/ answer = Answer("transient") /\ cmis' = Unheard
       /\ UNCHANGED refused
    \/ /\ answer \in {Answer("reattest"), Answer("transient")} \cup {Limited(r) : r \in RetryAfters}
       /\ refused' = (refused \/ (answer.kind = "reattest" /\ faults = 0 /\ Renews(s) /\ ~InWindow))
       /\ UNCHANGED cmis

\* attest: a new record, whatever was there.
ServeAttest(answer) ==
    \/ /\ cmis' = [svid |-> Fresh(host), at |-> CmisNow]
       /\ answer = Issued(Fresh(host))
    \/ /\ answer = Answer("failed")
       /\ UNCHANGED cmis

Answers == {Answer("reattest"), Answer("transient"), Answer("failed")}
           \cup {Issued(Fresh(id)) : id \in {call.svid.id, host}}
           \cup {Limited(r) : r \in RetryAfters}

CmisServes ==
    /\ call.kind # "none" /\ call.answer = NoAnswer
    /\ \E a \in Answers :
        /\ call' = [call EXCEPT !.answer = a]
        /\ \/ call.kind = "rotate" /\ ServeRotate(call.svid, a)
           \/ call.kind = "attest" /\ ServeAttest(a) /\ UNCHANGED refused
    /\ late' = NoCall
    /\ UNCHANGED <<ahead, host, run, loop, slots, mint, faults, over, off, calm>>

\* A call the agent gave up is served before the next one; nobody hears of it.
CmisServesLate ==
    /\ late.kind # "none"
    /\ late.kind = "rotate" => Renews(late.svid) /\ InWindow
    /\ cmis' = Unheard /\ late' = NoCall
    /\ UNCHANGED <<ahead, host, call, run, loop, slots, mint, faults, ghosts>>

Ask(k) == call' = [NoCall EXCEPT !.kind = k, !.svid = IF k = "rotate" THEN run.held ELSE NoSvid]
Heard  == call' = NoCall

\* The task gives the call up: it is served late, or its answer is lost.
HangUp ==
    /\ late' = IF call.kind # "none" /\ call.answer = NoAnswer THEN call ELSE late
    /\ cmis' = IF call.answer.kind = "issued" THEN Unheard ELSE cmis

-----------------------------------------------------------------------------
(* accept, install, disable                                                *)
MinLife == Greatest(RETRY_BASE, TTL \div 10)

\* Mutant: looks only while the SVID of the run is in force.
OtherIdentityWhileOn(s) == ~run.disabled /\ run.identity # 0 /\ run.identity # s.id
OtherIdentity(s) == run.identity # 0 /\ run.identity # s.id

\* accept: another identity stops the agent, an SVID with hardly any life
\* left is a failure, anything else goes in force; t is the task's time.
Accept(s, t, path) ==
    \/ /\ OtherIdentity(s)
       /\ loop' = Disabling("fatal", t)
       /\ UNCHANGED <<run, slots, off, calm>>
    \/ /\ ~OtherIdentity(s) /\ s.exp - t < MinLife
       /\ skewed(t)
       /\ off' = 0 /\ calm' = FALSE
       /\ UNCHANGED slots
    \/ /\ ~OtherIdentity(s) /\ s.exp - t >= MinLife
       /\ slots' = [slots EXCEPT !.creds = Credentials(s)]
       /\ loop' = [Asleep(0) EXCEPT !.pc = "installing", !.at = t, !.path = path, !.cand = s]
       /\ UNCHANGED <<run, off, calm>>

\* Swap::install: the write lock waits for the mints in flight; sealing may fail.
Install ==
    /\ loop.pc = "installing" /\ mint = NoSvid
    /\ \E sealed \in {loop.cand.id, slots.sealed} :
        slots' = [slots EXCEPT !.minter = loop.cand, !.cell = loop.cand, !.sealed = sealed]
    /\ loop' = [Bounded("after", loop.at, AFTER_TIMEOUT, secs(loop.cand.exp - loop.at))
                    EXCEPT !.path = loop.path, !.cand = loop.cand]
    /\ over' = 0 /\ off' = 0 /\ calm' = (ahead = 0 /\ loop.at = Now /\ loop.cand.id = host)
    /\ UNCHANGED <<ahead, host, cmis, call, late, run, mint, faults, refused>>

\* The rest of accept, once the refresh is done, cut off or timed out: the
\* next renewal is never at once.
Accepted ==
    /\ loop.pc = "after"
    /\ \E u \in Jitters :
        LET s    == loop.cand
            wait == Least(Greatest(secs(rotation_at(s, u) - loop.at), RETRY_BASE), secs(s.exp - loop.at))
        IN /\ run' = [held |-> s, identity |-> s.id, failures |-> 0, rotate_failures |-> 0,
                      disabled |-> FALSE, next_at |-> loop.at + wait,
                      last |-> IF loop.path = "rotate" /\ Holds THEN run.last ELSE loop.at]
           /\ loop' = Asleep(wait)
    /\ UNCHANGED <<ahead, host, cmis, call, late, slots, mint, faults, ghosts>>

AllOut == [slots EXCEPT !.minter = NoSvid, !.creds = NoSvid, !.cell = NoSvid]

\* Swap::disable, and what the caller of it does next.
Disable ==
    /\ loop.pc = "disabling" /\ mint = NoSvid
    /\ slots' = AllOut /\ over' = 0
    /\ \/ /\ loop.then = "attest"
          /\ run' = [run EXCEPT !.disabled = TRUE]
          /\ loop' = Attesting(loop.at, FALSE) /\ Ask("attest")
       \/ /\ loop.then = "expired"     \* expired_during_attempt
          /\ \E u \in Jitters :
              /\ run' = [run EXCEPT !.disabled = TRUE, !.failures = Least(@ + 1, MaxFailures),
                                    !.next_at = run.held.exp + reattest_wait(u)]
              /\ loop' = Asleep(reattest_wait(u))
          /\ UNCHANGED call
       \/ /\ loop.then = "fatal"
          /\ run' = [run EXCEPT !.disabled = TRUE]
          /\ loop' = [Asleep(0) EXCEPT !.pc = "stopped"]
          /\ UNCHANGED call
    /\ UNCHANGED <<ahead, host, cmis, late, mint, faults, off, calm, refused>>

-----------------------------------------------------------------------------
(* step: one decision of the task, by the wall clock.                      *)
Awake == loop.pc = "sleep" /\ loop.timer = 0

Due == Now >= run.next_at

StepWait ==
    /\ Awake /\ ~Due
    /\ Expired(Now) => run.disabled
    /\ loop' = Asleep(IF Holds /\ ~Expired(Now) THEN Least(run.next_at, run.held.exp) - Now
                      ELSE run.next_at - Now)
    /\ UNCHANGED <<ahead, host, cmis, call, late, run, slots, mint, faults, ghosts>>

StepExpire ==
    /\ Awake /\ Expired(Now) /\ ~run.disabled
    /\ loop' = Disabling("attest", Now)
    /\ UNCHANGED <<ahead, host, cmis, call, late, run, slots, mint, faults, ghosts>>

StepAttest ==
    /\ Awake /\ Due
    /\ ~Holds \/ (Expired(Now) /\ run.disabled)
    /\ loop' = Attesting(Now, FALSE) /\ Ask("attest")
    /\ UNCHANGED <<ahead, host, cmis, late, run, slots, mint, faults, ghosts>>

StepRenew ==
    /\ Awake /\ Due /\ Holds /\ ~Expired(Now)
    /\ \/ UseRotate(Now) /\ loop' = Rotating(Now) /\ Ask("rotate")
       \/ ~UseRotate(Now) /\ loop' = Attesting(Now, TRUE) /\ Ask("attest")
    /\ UNCHANGED <<ahead, host, cmis, late, run, slots, mint, faults, ghosts>>

\* A transient failure of Rotate, a time-out included.
RotateFailed(t) ==
    \E u \in Jitters :
        LET f == Least(run.failures + 1, MaxFailures)
            w == next_wait(t, run.held, f, u)
        IN /\ run' = [run EXCEPT !.failures = f, !.next_at = t + w,
                                 !.rotate_failures = Least(@ + 1, MAX_ROTATE_FAILURES)]
           /\ loop' = Asleep(w)

RotateAnswered ==
    /\ loop.pc = "rotating" /\ call.answer # NoAnswer
    /\ \/ /\ call.answer.kind = "issued"
          /\ Accept(call.answer.svid, loop.at, "rotate")
          /\ Heard
       \/ /\ call.answer.kind = "transient" /\ RotateFailed(loop.at)
          /\ Heard /\ UNCHANGED <<slots, off, calm>>
       \/ /\ call.answer.kind = "limited" /\ failed(loop.at, call.answer.after)
          /\ Heard /\ UNCHANGED <<slots, off, calm>>
       \/ /\ call.answer.kind = "reattest"
          /\ \/ Expired(loop.at) /\ loop' = Disabling("expired", loop.at) /\ Heard
             \/ ~Expired(loop.at) /\ loop' = Attesting(loop.at, TRUE) /\ Ask("attest")
          /\ UNCHANGED <<run, slots, off, calm>>
    /\ UNCHANGED <<ahead, host, cmis, late, mint, faults, over, refused>>

AttestAnswered ==
    /\ loop.pc = "attesting" /\ call.answer # NoAnswer
    /\ Heard
    /\ \/ call.answer.kind = "issued" /\ Accept(call.answer.svid, loop.at, "attest")
       \/ /\ call.answer.kind = "failed" /\ failed(loop.at, -1)
          /\ off' = 0 /\ calm' = FALSE /\ UNCHANGED slots
    /\ UNCHANGED <<ahead, host, cmis, late, mint, faults, over, refused>>

CallTimesOut ==
    /\ loop.pc \in {"rotating", "attesting"} /\ loop.timer = 0 /\ ~loop.cut
    /\ HangUp /\ Heard
    /\ \/ loop.pc = "rotating" /\ RotateFailed(loop.at) /\ UNCHANGED <<off, calm>>
       \/ loop.pc = "attesting" /\ failed(loop.at, -1) /\ off' = 0 /\ calm' = FALSE
    /\ UNCHANGED <<ahead, host, slots, mint, faults, over, refused>>

ExpiresDuringCall ==
    /\ loop.pc \in {"rotating", "attesting"} /\ loop.timer = 0 /\ loop.cut
    /\ HangUp /\ Heard
    /\ loop' = Disabling("expired", loop.at)
    /\ UNCHANGED <<ahead, host, run, slots, mint, faults, ghosts>>

-----------------------------------------------------------------------------
(* The helper API: a request mints under the read guard of the minter; a   *)
(* writer that waits keeps new readers out.                                *)
BeginMint ==
    /\ mint = NoSvid /\ slots.minter # NoSvid
    /\ loop.pc \notin {"installing", "disabling", "stopped"}
    /\ Now < slots.minter.exp
    /\ mint' = slots.minter
    /\ UNCHANGED <<ahead, host, cmis, call, late, run, loop, slots, faults, ghosts>>

EndMint ==
    /\ mint # NoSvid /\ mint' = NoSvid
    /\ UNCHANGED <<ahead, host, cmis, call, late, run, loop, slots, faults, ghosts>>

-----------------------------------------------------------------------------
(* Start, stop and panic.                                                  *)
Nothing(t) == [held |-> NoSvid, last |-> 0, identity |-> 0, failures |-> 0,
               rotate_failures |-> 0, disabled |-> FALSE, next_at |-> t]

Starting == [Bounded("starting", Now, ATTEST_TIMEOUT, ATTEST_TIMEOUT) EXCEPT !.cut = FALSE]

\* startup_attest and spawn_renewal_task: what start-up got is in force as it
\* is; otherwise the task begins with the interval.
Start ==
    /\ loop.pc = "starting"
    /\ loop' = Asleep(0)
    /\ \/ /\ call.answer.kind = "issued"
          /\ LET s == call.answer.svid IN
              /\ \E u \in Jitters :
                  run' = [Nothing(rotation_at(s, u)) EXCEPT
                            !.held = s, !.last = Now, !.identity = s.id]
              /\ \E sealed \in {s.id, slots.sealed} :
                  slots' = [creds |-> Credentials(s), minter |-> s, cell |-> s, sealed |-> sealed]
              /\ calm' = (ahead = 0 /\ loop.at = Now /\ s.id = host)
          /\ UNCHANGED <<cmis, late>>
       \/ /\ call.answer.kind = "failed" \/ loop.timer = 0
          /\ run' = Nothing(Now + REATTEST_INTERVAL)
          /\ HangUp
          /\ UNCHANGED <<slots, calm>>
    /\ Heard
    /\ off' = 0 /\ over' = 0
    /\ UNCHANGED <<ahead, host, mint, faults, refused>>

\* The agent stops, by itself after a fatal exit or at any time, and is started.
AgentRestarts ==
    /\ \/ loop.pc = "stopped" /\ UNCHANGED faults
       \/ loop.pc # "stopped" /\ Fault
    /\ loop' = Starting
    /\ run' = Nothing(0)
    /\ slots' = AllOut /\ mint' = NoSvid
    /\ call' = [NoCall EXCEPT !.kind = "attest"] /\ HangUp
    /\ over' = 0 /\ off' = 0 /\ calm' = FALSE
    /\ UNCHANGED <<ahead, host, refused>>

Panic ==
    /\ loop.pc \in {"rotating", "attesting", "installing", "disabling", "after"}
    /\ Fault
    /\ loop' = [Asleep(0) EXCEPT !.pc = "dead"]
    /\ HangUp /\ Heard
    /\ calm' = FALSE
    /\ UNCHANGED <<ahead, host, run, slots, mint, over, off, refused>>

\* Mutant: the supervisor only reports.
SupervisorReports ==
    /\ loop.pc = "dead"
    /\ loop' = [Asleep(0) EXCEPT !.pc = "stopped"]
    /\ UNCHANGED <<ahead, host, cmis, call, late, run, slots, mint, faults, ghosts>>
\* spawn: the supervisor of a task that panicked switches everything off.
SupervisorDisables ==
    /\ loop.pc = "dead" /\ mint = NoSvid
    /\ slots' = AllOut /\ over' = 0
    /\ loop' = [Asleep(0) EXCEPT !.pc = "stopped"]
    /\ UNCHANGED <<ahead, host, cmis, call, late, run, mint, faults, off, calm, refused>>
\* An operator enrols the host anew: CMIS attests it under another id.
Reenrol ==
    /\ host = 1 /\ host' = 2
    /\ Fault
    /\ calm' = FALSE
    /\ UNCHANGED <<ahead, cmis, call, late, run, loop, slots, mint, over, off, refused>>

-----------------------------------------------------------------------------
(* Time.                                                                   *)
InCall == loop.pc \in {"rotating", "attesting", "after", "starting"}
Timed  == InCall \/ loop.pc \in {"installing", "disabling"}

\* A time long past stays where it is: no comparison tells it from an earlier one.
Skips == MaxFaults * Jump + 1
Back(t, d)    == Greatest(t - d, -Skips)
FarBack(t, d) == Greatest(t - d, -(Skips + REATTEST_WINDOW))
Older(s, d)   == IF s.id = 0 THEN s ELSE [s EXCEPT !.exp = Back(@, d)]
OlderCall(c, d) == [c EXCEPT !.svid = Older(@, d), !.answer.svid = Older(@, d)]

\* Everything but the task's own record of the time moves back by d.
Passes(d) ==
    /\ cmis' = IF cmis = Unheard THEN cmis
               ELSE [svid |-> Older(cmis.svid, d), at |-> FarBack(cmis.at, d)]
    /\ call' = OlderCall(call, d) /\ late' = OlderCall(late, d)
    /\ run' = [run EXCEPT !.held = Older(@, d), !.next_at = Back(@, d),
                          !.last = IF Holds /\ ~run.disabled THEN FarBack(@, d) ELSE 0]
    /\ slots' = [slots EXCEPT !.creds = Older(@, d), !.minter = Older(@, d), !.cell = Older(@, d)]
    /\ mint' = Older(mint, d)

ClockTicks ==
    /\ \/ /\ InCall \/ loop.pc = "sleep"
          /\ loop.timer > 0
          /\ loop' = [loop EXCEPT !.timer = @ - 1, !.cand = Older(@, 1)]
       \/ loop.pc = "stopped" /\ UNCHANGED loop
    /\ Passes(1)
    /\ over' = IF slots.minter # NoSvid /\ Now >= slots.minter.exp THEN over + 1 ELSE 0
    /\ off' = IF slots.minter = NoSvid /\ loop.pc # "stopped" THEN off + 1 ELSE 0
    /\ UNCHANGED <<ahead, host, faults, calm, refused>>

\* The host sleeps, or its clock is set forward: the task does not notice.
Leap ==
    /\ Fault
    /\ Passes(Jump)
    /\ loop' = [loop EXCEPT !.cand = Older(@, Jump), !.at = IF Timed THEN @ - Jump ELSE @]
    /\ ahead' \in {ahead, ahead + Jump}
    /\ off' = 0 /\ calm' = FALSE
    /\ UNCHANGED <<host, over, refused>>

RenewalInit ==
    /\ ahead = 0 /\ host = 1
    /\ cmis = Unheard
    /\ call = [NoCall EXCEPT !.kind = "attest"] /\ late = NoCall
    /\ run = Nothing(0) /\ loop = Starting
    /\ slots = [creds |-> NoSvid, minter |-> NoSvid, cell |-> NoSvid, sealed |-> 0]
    /\ mint = NoSvid
    /\ faults = 0
    /\ over = 0 /\ off = 0 /\ calm = FALSE /\ refused = FALSE

RenewalNext ==
    \/ CmisServes \/ CmisServesLate
    \/ StepWait \/ StepExpire \/ StepAttest \/ StepRenew
    \/ RotateAnswered \/ AttestAnswered \/ CallTimesOut \/ ExpiresDuringCall
    \/ Install \/ Accepted \/ Disable
    \/ BeginMint \/ EndMint
    \/ Start \/ AgentRestarts \/ Panic \/ SupervisorDisables \/ Reenrol
    \/ ClockTicks \/ Leap

RenewalSpec == RenewalInit /\ [][RenewalNext]_renewalVars

-----------------------------------------------------------------------------
(* Properties.                                                             *)

InSwap == loop.pc \in {"installing", "disabling", "dead"}

\* Swap (renewal/swap.rs:239) replaces the credentials, the minter and the
\* SVID of the proposals together: outside a swap they are of one SVID, and
\* no token is being minted under another than the minter in force, after a
\* panic of the task between any two of its steps too.
InForceTogether ==
    /\ mint # NoSvid => mint = slots.minter
    /\ ~InSwap => /\ slots.cell = slots.minter
                  /\ slots.creds = Credentials(slots.minter)
    /\ loop.pc = "stopped" => slots.minter = NoSvid

\* accept (renewal/mod.rs:436) puts nothing in force that names another
\* identity than the one this run is bound to, and seals nothing of an
\* identity that no run was bound to, after an expiry too.
IdentityBound ==
    run.identity # 0 =>
        /\ \A s \in {slots.creds, slots.minter, slots.cell} : s.id \in {0, run.identity}
        /\ slots.sealed <= run.identity

\* run (renewal/mod.rs:127) takes an expired SVID out, after a suspension or
\* a step of the clock too: as soon as the calls in progress and one sleep
\* are over.
TakenOutInTime == over <= ROTATE_TIMEOUT + ATTEST_TIMEOUT + MAX_SLEEP

\* MAX_SLEEP (renewal/mod.rs:127) says a minute, that is one sleep.  It takes
\* longer when the clock leaps during a call: the deadlines are monotonic.
TakenOutWithinASleep == over <= MAX_SLEEP

\* step (renewal/mod.rs:320) turns to a full attestation early enough: as
\* long as attestations succeed and the clock is right, Rotates that are
\* lost, refused, rate limited or answered late never leave the agent
\* without a valid SVID.
NoGap == calm => slots.minter # NoSvid /\ Now < slots.minter.exp

\* Without an SVID the task attests again within the interval
\* (renewal/schedule.rs:19): minting is back by then, unless that attestation
\* fails as well.
RecoversInTime == off <= (11 * REATTEST_INTERVAL) \div 10 + ATTEST_TIMEOUT

\* rotate_allowed (renewal/schedule.rs:79) keeps so far inside the window of
\* CMIS that a Rotate of the last SVID is not refused for the age of its
\* attestation, late as the answer to that attestation may have come.
WindowRespected == ~refused
=============================================================================

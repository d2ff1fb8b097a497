---------------------------- MODULE AllowlistSync ----------------------------
(***************************************************************************)
(* The allowlist of one host, end to end: MIA's sync loop                  *)
(* (mia/src/allowlist_sync/) calling SyncAllowlist (AllowlistServe).       *)
(*                                                                         *)
(* The loop has one call open at a time; a call it gave up on may still be *)
(* served.  What it accepts it writes to two files, the body and then      *)
(* allowlist.state, before putting it in force; either write may fail and  *)
(* the agent may stop between any two steps and start again from the       *)
(* files.  A state file that cannot be read stays so until it is replaced; *)
(* the body file may fail to load at any start (a read error, a trust      *)
(* check, its decoding or signature, the key file) and load at another.    *)
(*                                                                         *)
(* The host keeps its identity, its trusted key and valid credentials; a   *)
(* tick without them changes nothing.  A v1 body, served by a CMIS that    *)
(* has no SyncAllowlist or found at allowlist.path, has generation 0.      *)
(***************************************************************************)
EXTENDS AllowlistServe

CONSTANTS
    NOT_BEFORE_LEEWAY,   \* ALLOWLIST_NOT_BEFORE_LEEWAY_SECS
    MAX_AGE,             \* allowlist.max_age_secs
    MaxFaults            \* bound: calls given up, writes that fail, restarts, v1 answers

\* docs/cmis.md: "The allowlist TTL must not exceed the MIA's max_age_secs".
ASSUME SyncAssumption ==
    /\ NOT_BEFORE_LEEWAY \in Nat
    /\ MAX_AGE \in Nat /\ TTL <= MAX_AGE
    /\ MaxFaults \in Nat

VARIABLES
    mia,         \* the sync loop: its step, the now of its tick, its call, the body accepted
    held,        \* AllowlistSync.held: the rollback floor
    inForce,     \* the allowlist of the helper API
    bodyFile,    \* allowlist.synced.cbor
    stateFile,   \* allowlist.state
    unloaded,    \* history: the last start could not load the body file, and no sync applied one since
    faults

miaVars == <<mia, held, inForce, bodyFile, stateFile, unloaded, faults>>
vars    == <<serveVars, miaVars>>

-----------------------------------------------------------------------------
NoTask   == "none"
MiaSteps == {"idle", "waiting", "body", "state", "apply"}
Loops    == [pc : MiaSteps, now : Nat, call : Tasks \cup {NoTask}, body : Bodies]
Resting  == [pc |-> "idle", now |-> 0, call |-> NoTask, body |-> NoBody]

V1Body(now) == [gen |-> 0, entries |-> {}, issued_at |-> now, not_after |-> now + TTL]

IsV2(body) == body.gen > 0

Fault(n) == faults' = faults + n /\ faults' <= MaxFaults

-----------------------------------------------------------------------------
(* Acceptance: verify.rs and state.rs                                      *)

\* check_window.
InWindow(body, now) ==
    /\ now >= body.issued_at - NOT_BEFORE_LEEWAY
    /\ now <= body.not_after
    /\ now - body.issued_at <= MAX_AGE

\* `admit`, refusing a downgrade; `floor` is the held state.
Admit(body, floor, hostKnown) ==
    IF ~ IsV2(body)
    THEN floor = NoBody
    ELSE /\ hostKnown
         /\ floor # NoBody =>
               /\ body.gen >= floor.gen
               /\ body.gen = floor.gen => body.entries = floor.entries

\* Mutant: the end of the lifetime is taken for its half.
HalfOfExpiry(state, now) == now >= state.not_after

PastHalfLife(state, now) ==
    now >= state.issued_at + (state.not_after - state.issued_at) \div 2

-----------------------------------------------------------------------------
(* The tick                                                                *)

Have == IF held = NoBody \/ PastHalfLife(held, clock) THEN 0 ELSE held.gen

Send(t) ==
    /\ mia = Resting
    /\ Request(t, Have)
    /\ mia' = [mia EXCEPT !.pc = "waiting", !.now = clock, !.call = t]
    /\ UNCHANGED <<held, inForce, bodyFile, stateFile, unloaded, faults>>

\* The call failed: no answer, an error status, an abort.
GiveUp ==
    /\ mia.pc = "waiting"
    /\ mia' = Resting
    /\ \/ task[mia.call].pc = "aborted" /\ Respond(mia.call) /\ UNCHANGED faults
       \/ Fault(1) /\ UNCHANGED serveVars
    /\ UNCHANGED <<held, inForce, bodyFile, stateFile, unloaded>>

NotModified ==
    /\ mia.pc = "waiting"
    /\ task[mia.call].pc = "answered" /\ task[mia.call].reply = NoBody
    /\ Respond(mia.call)
    /\ mia' = Resting
    /\ UNCHANGED <<held, inForce, bodyFile, stateFile, unloaded, faults>>

\* `on_body`, to the verdict of verify_synced: a refused body changes nothing.
Verify ==
    LET body == task[mia.call].reply IN
    /\ mia.pc = "waiting"
    /\ task[mia.call].pc = "answered" /\ body # NoBody
    /\ Respond(mia.call)
    /\ mia' = IF InWindow(body, mia.now) /\ Admit(body, held, TRUE)
              THEN [Resting EXCEPT !.pc = "body", !.body = body]
              ELSE Resting
    /\ UNCHANGED <<held, inForce, bodyFile, stateFile, unloaded, faults>>

\* Mutant: allowlist.state is stored although the body was not.
StoreBodyThenAlwaysState ==
    /\ mia.pc = "body"
    /\ \/ bodyFile' = mia.body /\ UNCHANGED faults
       \/ Fault(1) /\ UNCHANGED bodyFile
    /\ mia' = [mia EXCEPT !.pc = "state"]
    /\ UNCHANGED <<serveVars, held, inForce, stateFile, unloaded>>

StoreBody ==
    /\ mia.pc = "body"
    /\ \/ bodyFile' = mia.body /\ mia' = [mia EXCEPT !.pc = "state"] /\ UNCHANGED faults
       \/ Fault(1) /\ mia' = [mia EXCEPT !.pc = "apply"] /\ UNCHANGED bodyFile
    /\ UNCHANGED <<serveVars, held, inForce, stateFile, unloaded>>

StoreState ==
    /\ mia.pc = "state"
    /\ \/ stateFile' = mia.body /\ UNCHANGED faults
       \/ Fault(1) /\ UNCHANGED stateFile
    /\ mia' = [mia EXCEPT !.pc = "apply"]
    /\ UNCHANGED <<serveVars, held, inForce, bodyFile, unloaded>>

Apply ==
    /\ mia.pc = "apply"
    /\ inForce' = mia.body
    /\ held' = mia.body
    /\ unloaded' = FALSE
    /\ mia' = Resting
    /\ UNCHANGED <<serveVars, bodyFile, stateFile, faults>>

\* `legacy`: UNIMPLEMENTED from a CMIS without SyncAllowlist.  A held state
\* keeps the v1 body out; otherwise it is fetched, written and applied.
Legacy ==
    /\ mia.pc = "waiting"
    /\ task[mia.call].pc = "sent"
    /\ Respond(mia.call)
    /\ Fault(1)
    /\ \/ held # NoBody /\ UNCHANGED <<inForce, bodyFile>>
       \/ /\ held = NoBody
          /\ inForce' = V1Body(mia.now)
          /\ bodyFile' \in {bodyFile, inForce'}
    /\ mia' = Resting
    /\ UNCHANGED <<held, stateFile, unloaded>>

-----------------------------------------------------------------------------
(* Starting again: load_in_force                                           *)

\* The synced body if it loads and is admitted, else the v1 body of
\* allowlist.path, if there is one and it is admitted, else nothing.
LoadInForce(floor, loads, hostKnown, fallback) ==
    CASE /\ bodyFile # NoBody
         /\ loads /\ InWindow(bodyFile, clock)
         /\ Admit(bodyFile, floor, hostKnown \/ floor # NoBody) -> bodyFile
      [] OTHER -> IF Admit(fallback, floor, hostKnown) THEN fallback ELSE NoBody

\* The host is known when the agent has its SVID by then, or from the state.
\* What is held comes from the state file, whether or not the body loads.
Restart(readable, loads, hostKnown, fallback) ==
    LET floor == IF readable THEN stateFile ELSE NoBody IN
    /\ Fault(1)
    /\ stateFile' = floor
    /\ held' = floor
    /\ inForce' = LoadInForce(floor, loads, hostKnown, fallback)
    /\ unloaded' = (bodyFile # NoBody /\ ~ loads)
    /\ mia' = Resting
    /\ UNCHANGED <<serveVars, bodyFile>>

-----------------------------------------------------------------------------
Init ==
    /\ ServeInit
    /\ mia = Resting
    /\ held = NoBody
    /\ inForce = NoBody
    /\ bodyFile = NoBody
    /\ stateFile = NoBody
    /\ unloaded = FALSE
    /\ faults = 0

\* An answer to a call the host no longer waits for.
Unheard(t) ==
    /\ t # mia.call
    /\ Respond(t)
    /\ UNCHANGED miaVars

Mia ==
    \/ \E t \in Tasks : Send(t)
    \/ GiveUp \/ NotModified \/ Verify
    \/ StoreBody \/ StoreState \/ Apply
    \/ Legacy

Next ==
    \/ (Tick \/ Change) /\ UNCHANGED miaVars
    \/ \E t \in Tasks : Serve(t) /\ UNCHANGED miaVars
    \/ \E t \in Tasks : Unheard(t)
    \/ Mia
    \/ \E readable, loads, hostKnown \in BOOLEAN, fallback \in {NoBody, V1Body(clock)} :
          Restart(readable, loads, hostKnown, fallback)

Spec == Init /\ [][Next]_vars

\* The loop runs on its timer for as long as the agent does, and a call that
\* reached a node is served to its end.  Changes and faults are finite in
\* number; the clock need not move.
FairSpec ==
    /\ Spec
    /\ WF_vars(Mia)
    /\ \A t \in Tasks : WF_vars(Serve(t) /\ UNCHANGED miaVars) /\ WF_vars(Unheard(t))

-----------------------------------------------------------------------------
\* Types of the ledger, of the serve tasks and of the agent.
TypeOK ==
    /\ ServeTypeOK
    /\ mia \in Loops
    /\ mia.pc = "waiting" => mia.call \in Tasks
    /\ held \in Bodies /\ inForce \in Bodies
    /\ bodyFile \in Bodies /\ stateFile \in Bodies
    /\ unloaded \in BOOLEAN
    /\ faults \in Nat

\* A body CMIS signed is never refused as a rollback or as a generation
\* conflict by the host that asked for it, whichever of the bodies signed
\* before it the host holds: were it refused, the host would keep what it
\* has, revoked entries included, until the generation moves again.
GenuineBodyAdmitted ==
    mia.pc = "waiting" /\ task[mia.call].pc = "answered" /\ task[mia.call].reply # NoBody
        => Admit(task[mia.call].reply, held, TRUE)

\* "A crash in between leaves a state no newer than the body on disk": at
\* any moment, the synced body on disk is one the state on disk admits.
BodyFileAdmitted ==
    stateFile # NoBody =>
        /\ bodyFile # NoBody
        /\ Admit(bodyFile, stateFile, TRUE)

\* The call was answered NotModified.
Unmodified ==
    mia.pc = "waiting" /\ task[mia.call].pc = "answered" /\ task[mia.call].reply = NoBody

\* The generation the call was answered with is in force, with more than
\* half of its lifetime to go.
AnsweredInForce ==
    /\ inForce.gen = task[mia.call].gen
    /\ inForce.not_after - mia.now > TTL \div 2

\* A host that is answered NotModified has that generation in force, with
\* more than half of its lifetime to go, although writes failed and restarts
\* fell between the sync that brought it and this one.  The one exception is
\* a host whose last start could not load the body file: load_in_force keeps
\* the generation of the state file as held, and nothing is in force; never
\* an older body, and no longer than to the half-life of what is held.
NotModifiedMeansInForce ==
    Unmodified =>
        \/ AnsweredInForce
        \/ /\ unloaded /\ inForce = NoBody
           /\ held.gen = task[mia.call].gen
           /\ ~ PastHalfLife(held, mia.now)

\* "The host already holds `generation` and its body has more than half its
\* lifetime left" (SyncAllowlistResponse): without the exception.  The code
\* does not keep it; the host denies every caller meanwhile.
HostHoldsBody == Unmodified => AnsweredInForce

\* A sync never puts a lower generation in force than the one it replaces,
\* with or without the state file that records it.
NoRollback == [][Apply => inForce'.gen >= inForce.gen]_vars

\* The body is what the host is allowed now, and has not expired.
Current(body) ==
    /\ IsV2(body)
    /\ body.entries = Entries(mode, clock)
    /\ clock <= body.not_after

\* Once changes and faults cease, the host has in force what it is allowed
\* now, and it stays so: no answer, refusal or state on disk keeps it on an
\* older entry set for good.  A host that could not load the body file at its
\* last start may stay with nothing in force while the state it holds is
\* current and before its half-life, and no longer.
Converges ==
    <>[] \/ Current(inForce)
         \/ /\ unloaded /\ inForce = NoBody
            /\ Current(held) /\ ~ PastHalfLife(held, clock)
=============================================================================

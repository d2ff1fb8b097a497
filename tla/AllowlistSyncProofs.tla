------------------------- MODULE AllowlistSyncProofs -------------------------
(***************************************************************************)
(* Proofs about AllowlistServe and AllowlistSync, for any approvals, tasks, *)
(* lifetimes and bounds.                                                    *)
(***************************************************************************)
EXTENDS AllowlistSync, TLAPS

-----------------------------------------------------------------------------
(* Types of the cluster                                                    *)

\* The constants of the records are well typed.
LEMMA Blank ==
    /\ NoBody \in Bodies /\ NoRow \in Rows /\ Idle \in Locals
    /\ {} \in EntrySets
<1>1. {} \in EntrySets
  BY DEF EntrySets
<1>2. NoBody \in Bodies
  BY <1>1 DEF NoBody, Bodies
<1>3. NoRow \in Rows
  BY <1>2 DEF NoRow, Rows
<1> QED BY <1>1, <1>2, <1>3 DEF Idle, Locals, Modes, Steps

\* The fields of a task.
LEMMA TaskFields ==
    ASSUME ServeTypeOK, NEW t \in Tasks
    PROVE  /\ task[t] \in Locals
           /\ task[t].pc \in Steps /\ task[t].have \in Nat /\ task[t].now \in Nat
           /\ task[t].mode \in Modes /\ task[t].st \in Rows /\ task[t].entries \in EntrySets
           /\ task[t].gen \in Nat /\ task[t].tries \in Nat /\ task[t].reply \in Bodies
<1>1. task[t] \in Locals
  BY DEF ServeTypeOK
<1> QED BY <1>1 DEF Locals

\* The fields of a row, the table's or the one a task read.
LEMMA RowFields ==
    ASSUME NEW r \in Rows
    PROVE  /\ r.gen \in Nat /\ r.cached \in Bodies
           /\ r.digest \in EntrySets \cup {Uncompiled}
BY DEF Rows

\* No entry set has the digest of an uncompiled one.
LEMMA UncompiledIsNone == Uncompiled \notin EntrySets
BY ServeAssumption DEF Uncompiled, EntrySets

\* The next generation is a higher one.
LEMMA NextGenerationHigher ==
    ASSUME NEW gen \in Nat, clock \in Nat
    PROVE  NextGeneration(gen) \in Nat /\ NextGeneration(gen) > gen
<1>1. UnixMillis \in Nat
  BY ServeAssumption DEF UnixMillis
<1> QED BY <1>1 DEF NextGeneration, Larger

\* A bumped row.
LEMMA Bumped ==
    ASSUME ServeTypeOK
    PROVE  /\ BumpedRow \in Rows /\ BumpedRow.gen > row.gen
           /\ BumpedRow.digest = Uncompiled /\ BumpedRow.cached = NoBody
<1>1. row.gen \in Nat /\ clock \in Nat
  BY RowFields DEF ServeTypeOK
<1>2. NextGeneration(row.gen) \in Nat /\ NextGeneration(row.gen) > row.gen
  BY <1>1, NextGenerationHigher
<1> QED BY <1>2, Blank DEF BumpedRow, Rows

\* What a host is allowed is a set of entries.
LEMMA EntriesType ==
    ASSUME ServeTypeOK, NEW m, NEW now
    PROVE  Entries(m, now) \in EntrySets
BY DEF ServeTypeOK, Entries, EntrySets

\* What a turn of the loop without an answer leaves of the task.
LEMMA RetryType ==
    ASSUME ServeTypeOK, NEW t \in Tasks, Retry(t)
    PROVE  /\ task' \in [Tasks -> Locals]
           /\ task'[t].pc \in {"row", "aborted"}
           /\ \A u \in Tasks \ {t} : task'[u] = task[u]
<1>1. task[t] \in Locals /\ task[t].tries + 1 \in Nat
  BY TaskFields
<1> DEFINE again == [task[t] EXCEPT !.pc = "row", !.tries = task[t].tries + 1,
                                    !.st = NoRow, !.entries = {}]
           over  == [Idle EXCEPT !.pc = "aborted"]
<1>2. again \in Locals /\ again.pc = "row"
  BY <1>1, Blank DEF Locals, Steps
<1>3. over \in Locals /\ over.pc = "aborted"
  BY Blank DEF Locals, Steps
<1>4. task' = [task EXCEPT ![t] = IF task[t].tries + 1 < ATTEMPTS THEN again ELSE over]
  BY DEF Retry
<1> HIDE DEF again, over
<1> QED BY <1>2, <1>3, <1>4 DEF ServeTypeOK

\* An answered call.
LEMMA AnsweredType ==
    ASSUME NEW gen \in Nat, NEW body \in Bodies
    PROVE  /\ Answered(gen, body) \in Locals
           /\ Answered(gen, body).pc = "answered"
           /\ Answered(gen, body).gen = gen /\ Answered(gen, body).reply = body
BY Blank DEF Answered, Locals, Steps, Idle

\* The body a task signs.
SignedBody(t) ==
    [gen       |-> task[t].gen,
     entries   |-> task[t].entries,
     issued_at |-> task[t].now,
     not_after |-> NotAfter(task[t].now)]

\* It is a body.
LEMMA SignedBodyType ==
    ASSUME ServeTypeOK, NEW t \in Tasks
    PROVE  SignedBody(t) \in Bodies
<1>1. NotAfter(task[t].now) \in Nat
  BY TaskFields, ServeAssumption DEF NotAfter
<1> QED BY <1>1, TaskFields DEF SignedBody, Bodies

-----------------------------------------------------------------------------
(* One entry set per generation.  Whoever signs for a generation has its    *)
(* entries from the row: signed already, about to sign, read in the row, or *)
(* in the row now.  All of these claims agree, and none is ahead of the row *)
(* or contradicts it.                                                       *)

Claims(g, e) ==
    \/ <<g, e>> \in signed
    \/ \E t \in Tasks : task[t].pc = "cache" /\ task[t].gen = g /\ task[t].entries = e
    \/ \E t \in Tasks : task[t].pc = "compile" /\ task[t].st.gen = g /\ task[t].st.digest = e
    \/ row.gen = g /\ row.digest = e

OneDigest ==
    \A g \in Nat : \A e, f \in EntrySets : Claims(g, e) /\ Claims(g, f) => e = f

Behind ==
    \A g \in Nat : \A e \in EntrySets :
        Claims(g, e) => g <= row.gen /\ (g = row.gen => row.digest = e)

\* A step whose new claims are those of the row, and which moves the
\* generation on unless it had no digest, keeps the claims in agreement.
LEMMA ClaimsAgree ==
    ASSUME ServeTypeOK, ServeTypeOK', OneDigest, Behind,
           \A g \in Nat : \A e \in EntrySets :
               Claims(g, e)' => Claims(g, e) \/ (g = row'.gen /\ e = row'.digest),
           \/ row'.gen > row.gen
           \/ row'.gen = row.gen /\ row.digest \in {Uncompiled, row'.digest}
    PROVE  OneDigest' /\ Behind'
<1>0. row.gen \in Nat /\ row'.gen \in Nat
  BY RowFields DEF ServeTypeOK
<1>1. ASSUME NEW g \in Nat, NEW e \in EntrySets, Claims(g, e)'
      PROVE  /\ g <= row'.gen /\ (g = row'.gen => row'.digest = e)
             /\ Claims(g, e) \/ (g = row'.gen /\ e = row'.digest)
  <2>1. CASE Claims(g, e)
    <3>1. g <= row.gen /\ (g = row.gen => row.digest = e)
      BY <2>1 DEF Behind
    <3>2. e # Uncompiled
      BY UncompiledIsNone
    <3> QED BY <1>0, <2>1, <3>1, <3>2
  <2>2. CASE g = row'.gen /\ e = row'.digest
    BY <1>0, <2>2
  <2> QED BY <1>1, <2>1, <2>2
<1>2. Behind'
  BY <1>1 DEF Behind
<1>3. ASSUME NEW g \in Nat, NEW e \in EntrySets, NEW f \in EntrySets, Claims(g, e)', Claims(g, f)'
      PROVE  e = f
  <2>1. CASE g = row'.gen
    BY <1>1, <1>3, <2>1
  <2>2. CASE g # row'.gen
    <3>1. Claims(g, e) /\ Claims(g, f)
      BY <1>1, <1>3, <2>2
    <3> QED BY <3>1 DEF OneDigest
  <2> QED BY <2>1, <2>2
<1>4. OneDigest'
  BY <1>3 DEF OneDigest
<1> QED BY <1>2, <1>4

-----------------------------------------------------------------------------
(* Bodies that are cached, read or sent are signed v2 bodies of the         *)
(* generation they are kept under.                                          *)

Genuine(body, gen) == gen > 0 /\ body.gen = gen /\ <<body.gen, body.entries>> \in signed

RowOK == row = NoRow \/ (row.gen > 0 /\ (row.cached = NoBody \/ Genuine(row.cached, row.gen)))

TaskOK(t) ==
    /\ task[t].pc = "compile" =>
          /\ task[t].st.gen > 0
          /\ task[t].st.cached = NoBody \/ Genuine(task[t].st.cached, task[t].st.gen)
    /\ task[t].pc \in {"record", "cache"} => task[t].gen > 0
    /\ task[t].pc = "answered" =>
          /\ task[t].gen > 0
          /\ task[t].reply = NoBody \/ Genuine(task[t].reply, task[t].gen)

ServeInv ==
    /\ ServeTypeOK
    /\ OneDigest /\ Behind
    /\ RowOK
    /\ \A t \in Tasks : TaskOK(t)

\* A step that leaves alone the row, the tasks and what was signed.
LEMMA LeavesAlone ==
    ASSUME ServeInv, ServeTypeOK', UNCHANGED <<row, task, signed>>
    PROVE  ServeInv'
<1>1. \A g, e : Claims(g, e)' = Claims(g, e)
  BY DEF Claims
<1>2. OneDigest' /\ Behind'
  BY <1>1 DEF ServeInv, OneDigest, Behind
<1>3. RowOK' /\ \A t \in Tasks : TaskOK(t)'
  BY DEF ServeInv, RowOK, TaskOK, Genuine
<1> QED BY <1>2, <1>3 DEF ServeInv

\* A change of the approvals.
LEMMA ChangeKeeps ==
    ASSUME ServeInv, ServeTypeOK', row' = BumpedRow, UNCHANGED <<task, signed>>
    PROVE  ServeInv'
<1>0. ServeTypeOK
  BY DEF ServeInv
<1>1. /\ row'.gen > row.gen /\ row'.digest = Uncompiled /\ row'.cached = NoBody
      /\ row.gen \in Nat /\ row'.gen \in Nat
  BY <1>0, Bumped, RowFields DEF ServeTypeOK
<1>2. \A g \in Nat : \A e \in EntrySets : Claims(g, e)' => Claims(g, e)
  BY <1>1, UncompiledIsNone DEF Claims
<1>3. OneDigest' /\ Behind'
  BY <1>0, <1>1, <1>2, ClaimsAgree DEF ServeInv
<1>4. RowOK'
  BY <1>1 DEF RowOK
<1>5. \A t \in Tasks : TaskOK(t)'
  BY DEF ServeInv, TaskOK, Genuine
<1> QED BY <1>3, <1>4, <1>5 DEF ServeInv

\* A task moves to a step at which it claims nothing.
LEMMA StepsAside ==
    ASSUME ServeInv, ServeTypeOK', NEW t \in Tasks, UNCHANGED signed,
           \A u \in Tasks \ {t} : task'[u] = task[u],
           task'[t].pc \notin {"compile", "cache"},
           TaskOK(t)',
           row' = row \/ row' = BumpedRow
    PROVE  ServeInv'
<1>0. ServeTypeOK
  BY DEF ServeInv
<1>1. row' = BumpedRow =>
         /\ row'.gen > row.gen /\ row'.digest = Uncompiled /\ row'.cached = NoBody
         /\ row.gen \in Nat /\ row'.gen \in Nat
  BY <1>0, Bumped, RowFields DEF ServeTypeOK
<1>2. ASSUME NEW g \in Nat, NEW e \in EntrySets, Claims(g, e)'
      PROVE  Claims(g, e)
  <2>1. \A u \in Tasks : task'[u].pc \in {"cache", "compile"} => task'[u] = task[u]
    OBVIOUS
  <2>2. row'.digest = e => row' = row
    BY <1>1, UncompiledIsNone
  <2> QED BY <1>2, <2>1, <2>2 DEF Claims
<1>3. \/ row'.gen > row.gen
      \/ row'.gen = row.gen /\ row.digest \in {Uncompiled, row'.digest}
  BY <1>1
<1>4. OneDigest' /\ Behind'
  BY <1>0, <1>2, <1>3, ClaimsAgree DEF ServeInv
<1>5. RowOK'
  BY <1>1 DEF ServeInv, RowOK, Genuine
<1>6. \A u \in Tasks : TaskOK(u)'
  BY DEF ServeInv, TaskOK, Genuine
<1> QED BY <1>4, <1>5, <1>6 DEF ServeInv

-----------------------------------------------------------------------------
(* The steps of serve                                                      *)

\* Replacing a task by locals keeps the types, if nothing else is disturbed.
LEMMA OneTask ==
    ASSUME ServeTypeOK, NEW t \in Tasks, NEW l \in Locals, task' = [task EXCEPT ![t] = l]
    PROVE  /\ task' \in [Tasks -> Locals] /\ task'[t] = l
           /\ \A u \in Tasks \ {t} : task'[u] = task[u]
BY DEF ServeTypeOK

\* A call begins, and its task claims nothing.
LEMMA RequestKeeps ==
    ASSUME ServeInv, NEW t \in Tasks, NEW have \in Nat, Request(t, have)
    PROVE  ServeInv'
<1>0. ServeTypeOK
  BY DEF ServeInv
<1>1. PICK l : l = [Idle EXCEPT !.pc = "sent", !.have = have]
  OBVIOUS
<1>2. l \in Locals /\ l.pc = "sent"
  BY <1>1, Blank DEF Locals, Steps
<1>3. task' = [task EXCEPT ![t] = l]
  BY <1>1 DEF Request
<1>4. /\ task' \in [Tasks -> Locals] /\ task'[t] = l
      /\ \A u \in Tasks \ {t} : task'[u] = task[u]
  BY <1>0, <1>2, <1>3, OneTask
<1>5. ServeTypeOK'
  BY <1>0, <1>4 DEF ServeTypeOK, Request
<1>6. TaskOK(t)'
  BY <1>2, <1>4 DEF TaskOK
<1> QED BY <1>2, <1>4, <1>5, <1>6, StepsAside DEF Request

\* A handler begins, and claims nothing.
LEMMA ArriveKeeps ==
    ASSUME ServeInv, NEW t \in Tasks, Arrive(t)
    PROVE  ServeInv'
<1>0. ServeTypeOK
  BY DEF ServeInv
<1>1. PICK l : l = [task[t] EXCEPT !.pc = "row", !.now = clock, !.mode = mode]
  OBVIOUS
<1>2. l \in Locals /\ l.pc = "row"
  BY <1>0, <1>1, TaskFields DEF Locals, Steps, ServeTypeOK
<1>3. task' = [task EXCEPT ![t] = l]
  BY <1>1 DEF Arrive
<1>4. /\ task' \in [Tasks -> Locals] /\ task'[t] = l
      /\ \A u \in Tasks \ {t} : task'[u] = task[u]
  BY <1>0, <1>2, <1>3, OneTask
<1>5. ServeTypeOK'
  BY <1>0, <1>4 DEF ServeTypeOK, Arrive
<1>6. TaskOK(t)'
  BY <1>2, <1>4 DEF TaskOK
<1> QED BY <1>2, <1>4, <1>5, <1>6, StepsAside DEF Arrive

\* A task ends.
LEMMA RespondKeeps ==
    ASSUME ServeInv, NEW t \in Tasks, Respond(t)
    PROVE  ServeInv'
<1>0. ServeTypeOK
  BY DEF ServeInv
<1>1. Idle \in Locals /\ Idle.pc = "idle" /\ task' = [task EXCEPT ![t] = Idle]
  BY Blank DEF Idle, Respond
<1>2. /\ task' \in [Tasks -> Locals] /\ task'[t] = Idle
      /\ \A u \in Tasks \ {t} : task'[u] = task[u]
  BY <1>0, <1>1, OneTask
<1>3. ServeTypeOK'
  BY <1>0, <1>2 DEF ServeTypeOK, Respond
<1>4. TaskOK(t)'
  BY <1>1, <1>2 DEF TaskOK
<1> QED BY <1>1, <1>2, <1>3, <1>4, StepsAside DEF Respond

\* The first generation of a host has no digest yet.
LEMMA StartGenerationKeeps ==
    ASSUME ServeInv, NEW t \in Tasks, StartGeneration(t)
    PROVE  ServeInv'
<1>0. ServeTypeOK
  BY DEF ServeInv
<1>1. /\ task' \in [Tasks -> Locals] /\ task'[t].pc \in {"row", "aborted"}
      /\ \A u \in Tasks \ {t} : task'[u] = task[u]
  BY <1>0, RetryType DEF StartGeneration
<1>2. ServeTypeOK'
  BY <1>0, <1>1, Bumped DEF ServeTypeOK, StartGeneration
<1>3. TaskOK(t)'
  BY <1>1 DEF TaskOK
<1> QED BY <1>1, <1>2, <1>3, StepsAside DEF StartGeneration

\* The task now claims what the row claims.
LEMMA ReadRowKeeps ==
    ASSUME ServeInv, NEW t \in Tasks, ReadRow(t)
    PROVE  ServeInv'
<1>0. ServeTypeOK /\ row \in Rows
  BY DEF ServeInv, ServeTypeOK
<1>1. PICK l : l = [task[t] EXCEPT !.pc = IF row = NoRow THEN "first" ELSE "compile", !.st = row]
  OBVIOUS
<1>2. /\ l \in Locals /\ l.st = row
      /\ l.pc \in {"first", "compile"} /\ (l.pc = "compile" => row # NoRow)
  BY <1>0, <1>1, TaskFields DEF Locals, Steps
<1>3. task' = [task EXCEPT ![t] = l]
  BY <1>1 DEF ReadRow
<1>4. /\ task' \in [Tasks -> Locals] /\ task'[t] = l
      /\ \A u \in Tasks \ {t} : task'[u] = task[u]
  BY <1>0, <1>2, <1>3, OneTask
<1>5. ServeTypeOK' /\ row' = row /\ signed' = signed
  BY <1>0, <1>4 DEF ServeTypeOK, ReadRow
<1>6. ASSUME NEW g \in Nat, NEW e \in EntrySets, Claims(g, e)'
      PROVE  Claims(g, e)
  <2>1. \A u \in Tasks : task'[u].pc = "cache" => task'[u] = task[u]
    BY <1>2, <1>4
  <2>2. \A u \in Tasks : task'[u].pc = "compile" => task'[u] = task[u] \/ task'[u].st = row
    BY <1>2, <1>4
  <2> QED BY <1>5, <1>6, <2>1, <2>2 DEF Claims
<1>7. OneDigest' /\ Behind'
  BY <1>0, <1>5, <1>6, ClaimsAgree DEF ServeInv
<1>8. RowOK' /\ TaskOK(t)'
  BY <1>2, <1>4, <1>5 DEF ServeInv, RowOK, TaskOK, Genuine
<1>9. \A u \in Tasks : TaskOK(u)'
  BY <1>4, <1>5, <1>8 DEF ServeInv, TaskOK, Genuine
<1> QED BY <1>5, <1>7, <1>8, <1>9 DEF ServeInv

\* The task answers what it read, or keeps the claim it read, or claims
\* nothing before its entries are recorded.
LEMMA CompileKeeps ==
    ASSUME ServeInv, NEW t \in Tasks, Compile(t)
    PROVE  ServeInv'
<1>0. ServeTypeOK
  BY DEF ServeInv
<1>1. PICK st, entries : st = task[t].st /\ entries = Entries(task[t].mode, task[t].now)
  OBVIOUS
<1>2. /\ st \in Rows /\ st.gen \in Nat /\ st.cached \in Bodies
      /\ entries \in EntrySets /\ task[t].pc = "compile"
  BY <1>0, <1>1, TaskFields, RowFields, EntriesType DEF Compile
<1>3. /\ st.gen > 0
      /\ st.cached = NoBody \/ Genuine(st.cached, st.gen)
  BY <1>1, <1>2 DEF ServeInv, TaskOK
<1>4. row' = row /\ signed' = signed
  BY DEF Compile
<1>5. CASE Known(st, entries) /\ CacheFresh(st, task[t].now)
  <2>1. PICK l : l = Answered(st.gen, IF task[t].have = st.gen THEN NoBody ELSE st.cached)
    OBVIOUS
  <2>2. /\ l \in Locals /\ l.pc = "answered" /\ l.gen = st.gen
        /\ l.reply \in {NoBody, st.cached}
    BY <1>2, <2>1, AnsweredType, Blank
  <2>3. task' = [task EXCEPT ![t] = l]
    BY <1>1, <1>5, <2>1 DEF Compile
  <2>4. /\ task' \in [Tasks -> Locals] /\ task'[t] = l
        /\ \A u \in Tasks \ {t} : task'[u] = task[u]
    BY <1>0, <2>2, <2>3, OneTask
  <2>5. ServeTypeOK'
    BY <1>0, <2>4 DEF ServeTypeOK, Compile
  <2>6. TaskOK(t)'
    BY <1>3, <1>4, <2>2, <2>4 DEF TaskOK, Genuine
  <2> QED BY <1>4, <2>2, <2>4, <2>5, <2>6, StepsAside
<1>6. CASE ~ (Known(st, entries) /\ CacheFresh(st, task[t].now))
  <2>1. PICK l : l = [task[t] EXCEPT !.pc = IF Known(st, entries) THEN "cache" ELSE "record",
                                     !.entries = entries, !.gen = st.gen]
    OBVIOUS
  <2>2. /\ l \in Locals /\ l.gen = st.gen /\ l.entries = entries
        /\ l.pc \in {"cache", "record"} /\ (l.pc = "cache" => st.digest = entries)
    BY <1>0, <1>2, <2>1, TaskFields DEF Locals, Steps, Known
  <2>3. task' = [task EXCEPT ![t] = l]
    BY <1>1, <1>6, <2>1 DEF Compile
  <2>4. /\ task' \in [Tasks -> Locals] /\ task'[t] = l
        /\ \A u \in Tasks \ {t} : task'[u] = task[u]
    BY <1>0, <2>2, <2>3, OneTask
  <2>5. ServeTypeOK'
    BY <1>0, <2>4 DEF ServeTypeOK, Compile
  <2>6. ASSUME NEW g \in Nat, NEW e \in EntrySets, Claims(g, e)'
        PROVE  Claims(g, e)
    <3>1. \A u \in Tasks : task'[u].pc = "compile" => task'[u] = task[u]
      BY <2>2, <2>4
    <3>2. \A u \in Tasks : task'[u].pc = "cache" =>
             task'[u] = task[u] \/ (u = t /\ task'[u].gen = st.gen /\ task'[u].entries = st.digest)
      BY <2>2, <2>4
    <3> QED BY <1>1, <1>2, <1>4, <2>6, <3>1, <3>2 DEF Claims
  <2>7. OneDigest' /\ Behind'
    BY <1>0, <1>4, <2>5, <2>6, ClaimsAgree DEF ServeInv
  <2>8. RowOK' /\ TaskOK(t)'
    BY <1>3, <1>4, <2>2, <2>4 DEF ServeInv, RowOK, TaskOK, Genuine
  <2>9. \A u \in Tasks : TaskOK(u)'
    BY <1>4, <2>4, <2>8 DEF ServeInv, TaskOK, Genuine
  <2> QED BY <2>5, <2>7, <2>8, <2>9 DEF ServeInv
<1> QED BY <1>5, <1>6

\* The row takes the entries for its generation, which had none, or for a
\* new one; the task claims what the row then holds.
LEMMA RecordKeeps ==
    ASSUME ServeInv, NEW t \in Tasks, Record(t)
    PROVE  ServeInv'
<1>0. ServeTypeOK /\ row \in Rows /\ clock \in Nat
  BY DEF ServeInv, ServeTypeOK
<1>1. /\ task[t].pc = "record" /\ task[t].gen \in Nat /\ task[t].gen > 0
      /\ task[t].entries \in EntrySets /\ signed' = signed
      /\ row.gen \in Nat /\ row.cached \in Bodies
  BY <1>0, TaskFields, RowFields DEF ServeInv, TaskOK, Record
<1>2. CASE row.gen # task[t].gen
  <2>1. Retry(t) /\ row' = row
    BY <1>2 DEF Record
  <2>2. /\ task' \in [Tasks -> Locals] /\ task'[t].pc \in {"row", "aborted"}
        /\ \A u \in Tasks \ {t} : task'[u] = task[u]
    BY <1>0, <2>1, RetryType
  <2>3. ServeTypeOK'
    BY <1>0, <2>1, <2>2 DEF ServeTypeOK, Record
  <2>4. TaskOK(t)'
    BY <2>2 DEF TaskOK
  <2> QED BY <1>1, <2>1, <2>2, <2>3, <2>4, StepsAside
<1>3. CASE row.gen = task[t].gen
  <2>1. PICK gen : gen = IF row.digest \in {Uncompiled, task[t].entries}
                         THEN row.gen ELSE NextGeneration(row.gen)
    OBVIOUS
  <2>2. /\ gen \in Nat /\ gen > 0
        /\ \/ gen > row.gen
           \/ gen = row.gen /\ row.digest \in {Uncompiled, task[t].entries}
    BY <1>0, <1>1, <1>3, <2>1, NextGenerationHigher
  <2>3. /\ row' \in Rows /\ row'.gen = gen /\ row'.digest = task[t].entries
        /\ row'.cached = IF row.digest = task[t].entries THEN row.cached ELSE NoBody
    BY <1>1, <1>3, <2>1, <2>2, Blank DEF Record, RecordedRow, Rows
  <2>4. PICK l : l = [task[t] EXCEPT !.pc = "cache", !.gen = gen]
    OBVIOUS
  <2>5. /\ l \in Locals /\ l.pc = "cache" /\ l.gen = gen /\ l.entries = task[t].entries
    BY <1>0, <2>2, <2>4, TaskFields DEF Locals, Steps
  <2>6. task' = [task EXCEPT ![t] = l]
    BY <1>3, <2>3, <2>4 DEF Record
  <2>7. /\ task' \in [Tasks -> Locals] /\ task'[t] = l
        /\ \A u \in Tasks \ {t} : task'[u] = task[u]
    BY <1>0, <2>5, <2>6, OneTask
  <2>8. ServeTypeOK'
    BY <1>0, <2>3, <2>7 DEF ServeTypeOK, Record
  <2>9. ASSUME NEW g \in Nat, NEW e \in EntrySets, Claims(g, e)'
        PROVE  Claims(g, e) \/ (g = row'.gen /\ e = row'.digest)
    <3>1. \A u \in Tasks : task'[u].pc = "compile" => task'[u] = task[u]
      BY <2>5, <2>7
    <3>2. \A u \in Tasks : task'[u].pc = "cache" =>
             task'[u] = task[u] \/ (task'[u].gen = row'.gen /\ task'[u].entries = row'.digest)
      BY <2>3, <2>5, <2>7
    <3> QED BY <1>1, <2>9, <3>1, <3>2 DEF Claims
  <2>10. OneDigest' /\ Behind'
    BY <1>0, <2>2, <2>3, <2>8, <2>9, ClaimsAgree DEF ServeInv
  <2>11. RowOK'
    <3>1. CASE row.digest = task[t].entries
      <4>1. gen = row.gen
        BY <2>1, <3>1
      <4>2. row.cached = NoBody \/ Genuine(row.cached, row.gen)
        BY <1>1, <1>3, Blank DEF ServeInv, RowOK, NoRow
      <4> QED BY <1>1, <2>2, <2>3, <3>1, <4>1, <4>2 DEF RowOK, Genuine
    <3>2. CASE row.digest # task[t].entries
      BY <2>2, <2>3, <3>2 DEF RowOK
    <3> QED BY <3>1, <3>2
  <2>12. TaskOK(t)'
    BY <2>2, <2>5, <2>7 DEF TaskOK
  <2>13. \A u \in Tasks : TaskOK(u)'
    BY <1>1, <2>7, <2>12 DEF ServeInv, TaskOK, Genuine
  <2> QED BY <2>8, <2>10, <2>11, <2>13 DEF ServeInv
<1> QED BY <1>2, <1>3

\* What is signed was claimed before.
LEMMA SignAndCacheKeeps ==
    ASSUME ServeInv, NEW t \in Tasks, SignAndCache(t)
    PROVE  ServeInv'
<1>0. ServeTypeOK /\ row \in Rows /\ signed \subseteq Nat \X EntrySets
  BY DEF ServeInv, ServeTypeOK
<1>1. PICK body : body = SignedBody(t)
  OBVIOUS
<1>2. /\ body \in Bodies /\ body.gen = task[t].gen /\ body.entries = task[t].entries
      /\ task[t].pc = "cache" /\ body.gen \in Nat /\ body.gen > 0 /\ body.entries \in EntrySets
  BY <1>0, <1>1, SignedBodyType, TaskFields DEF SignedBody, SignAndCache, ServeInv, TaskOK
<1>3. /\ signed' = signed \cup {<<body.gen, body.entries>>}
      /\ \/ row.gen = body.gen /\ row.digest # Uncompiled /\ row' = [row EXCEPT !.cached = body]
         \/ row' = row
      /\ task' = [task EXCEPT ![t] = Answered(body.gen, body)]
  BY <1>1 DEF SignAndCache, SignedBody
<1>4. /\ row' \in Rows /\ row'.gen = row.gen /\ row'.digest = row.digest
      /\ row'.cached = row.cached \/ (row'.cached = body /\ row.gen = body.gen)
  BY <1>0, <1>2, <1>3 DEF Rows
<1>5. PICK l : l = Answered(body.gen, body)
  OBVIOUS
<1>6. l \in Locals /\ l.pc = "answered" /\ l.gen = body.gen /\ l.reply = body
  BY <1>2, <1>5, AnsweredType
<1>7. /\ task' \in [Tasks -> Locals] /\ task'[t] = l
      /\ \A u \in Tasks \ {t} : task'[u] = task[u]
  BY <1>0, <1>3, <1>5, <1>6, OneTask
<1>8. ServeTypeOK'
  BY <1>0, <1>2, <1>3, <1>4, <1>7 DEF ServeTypeOK, SignAndCache
<1>9. ASSUME NEW g \in Nat, NEW e \in EntrySets, Claims(g, e)'
      PROVE  Claims(g, e)
  <2>1. \A u \in Tasks : task'[u].pc \in {"cache", "compile"} => task'[u] = task[u]
    BY <1>6, <1>7
  <2>2. <<g, e>> \in signed' => <<g, e>> \in signed \/ (g = task[t].gen /\ e = task[t].entries)
    BY <1>2, <1>3
  <2> QED BY <1>2, <1>4, <1>9, <2>1, <2>2 DEF Claims
<1>10. OneDigest' /\ Behind'
  BY <1>0, <1>4, <1>8, <1>9, ClaimsAgree DEF ServeInv
<1>11. Genuine(body, body.gen)'
  BY <1>2, <1>3 DEF Genuine
<1>12. \A b, g : Genuine(b, g) => Genuine(b, g)'
  BY <1>3 DEF Genuine
<1>13. RowOK'
  <2>1. CASE row' = row
    BY <1>12, <2>1 DEF ServeInv, RowOK
  <2>2. CASE row' = [row EXCEPT !.cached = body] /\ row.gen = body.gen
    BY <1>2, <1>4, <1>11, <2>2, <1>0 DEF RowOK, Rows
  <2> QED BY <1>3, <2>1, <2>2
<1>14. TaskOK(t)'
  BY <1>2, <1>6, <1>7, <1>11 DEF TaskOK
<1>15. ASSUME NEW u \in Tasks, u # t PROVE TaskOK(u)'
  <2>1. TaskOK(u) /\ task'[u] = task[u]
    BY <1>7, <1>15 DEF ServeInv
  <2> QED BY <1>12, <2>1 DEF TaskOK
<1> QED BY <1>8, <1>10, <1>13, <1>14, <1>15 DEF ServeInv

-----------------------------------------------------------------------------
\* The agreement of the claims is an invariant of the cluster's steps.
LEMMA ServeStep ==
    ASSUME ServeInv, [ServeNext]_serveVars
    PROVE  ServeInv'
<1>0. ServeTypeOK
  BY DEF ServeInv
<1>1. CASE Tick \/ UNCHANGED serveVars
  <2>1. ServeTypeOK' /\ UNCHANGED <<row, task, signed>>
    BY <1>0, <1>1 DEF Tick, serveVars, ServeTypeOK
  <2> QED BY <2>1, LeavesAlone
<1>2. CASE Change
  <2>1. ASSUME NEW S \in SUBSET Apps, ChangeApprovals(S) PROVE ServeInv'
    <3>1. ServeTypeOK' /\ row' = BumpedRow /\ UNCHANGED <<task, signed>>
      BY <1>0, <2>1, Bumped DEF ChangeApprovals, ServeTypeOK
    <3> QED BY <3>1, ChangeKeeps
  <2>2. ASSUME NEW S \in SUBSET LegacyEntries, SetLegacy(S) PROVE ServeInv'
    <3>1. ServeTypeOK' /\ UNCHANGED <<row, task, signed>>
      BY <1>0, <2>2 DEF SetLegacy, ServeTypeOK
    <3> QED BY <3>1, LeavesAlone
  <2>3. ASSUME NEW m \in Modes, SetMode(m) PROVE ServeInv'
    <3>1. ServeTypeOK' /\ UNCHANGED <<row, task, signed>>
      BY <1>0, <2>3 DEF SetMode, ServeTypeOK
    <3> QED BY <3>1, LeavesAlone
  <2> QED BY <1>2, <2>1, <2>2, <2>3 DEF Change
<1>3. ASSUME NEW t \in Tasks, Serve(t) \/ Respond(t) \/ \E have \in Nat : Request(t, have)
      PROVE  ServeInv'
  BY <1>3, ArriveKeeps, ReadRowKeeps, StartGenerationKeeps, CompileKeeps, RecordKeeps,
     SignAndCacheKeeps, RespondKeeps, RequestKeeps DEF Serve
<1> QED BY <1>1, <1>2, <1>3 DEF ServeNext

\* It holds at the start.
LEMMA ServeStart == ServeInit => ServeInv
<1> SUFFICES ASSUME ServeInit PROVE ServeInv
  OBVIOUS
<1>1. ServeTypeOK
  BY Blank DEF ServeInit, ServeTypeOK, Modes
<1>2. \A t \in Tasks : task[t] = Idle /\ task[t].pc = "idle"
  BY DEF ServeInit, Idle
<1>3. \A g \in Nat : \A e \in EntrySets : ~ Claims(g, e)
  BY <1>2, UncompiledIsNone DEF ServeInit, Claims, NoRow
<1>4. OneDigest /\ Behind
  BY <1>3 DEF OneDigest, Behind
<1>5. RowOK /\ \A t \in Tasks : TaskOK(t)
  BY <1>2 DEF ServeInit, RowOK, TaskOK
<1> QED BY <1>1, <1>4, <1>5 DEF ServeInv

\* Bodies of one generation carry the same entries.
LEMMA SignedAgree == ServeInv => OneEntrySetPerGeneration
<1> SUFFICES ASSUME ServeInv, NEW x \in signed, NEW y \in signed, x[1] = y[1]
             PROVE  x[2] = y[2]
  BY DEF OneEntrySetPerGeneration
<1>1. /\ x[1] \in Nat /\ x[2] \in EntrySets /\ x = <<x[1], x[2]>>
      /\ y[2] \in EntrySets /\ y = <<y[1], y[2]>>
  BY DEF ServeInv, ServeTypeOK
<1>2. Claims(x[1], x[2]) /\ Claims(x[1], y[2])
  BY <1>1 DEF Claims
<1> QED BY <1>1, <1>2 DEF ServeInv, OneDigest

\* Whatever the cluster does, for any hosts that call it: two bodies with one
\* generation always carry the same entries (compile.rs, "Generation").
THEOREM OneEntrySet == ServeSpec => []OneEntrySetPerGeneration
<1>1. ServeSpec => []ServeInv
  BY ServeStart, ServeStep, PTL DEF ServeSpec
<1> QED BY <1>1, SignedAgree, PTL

-----------------------------------------------------------------------------
(* The agent composed with the cluster                                     *)

\* The steps of the composition.
LEMMA NextCases ==
    ASSUME [Next]_vars
    PROVE  \/ (Tick \/ Change \/ UNCHANGED serveVars) /\ UNCHANGED miaVars
           \/ \E t \in Tasks : Serve(t) /\ UNCHANGED miaVars
           \/ \E t \in Tasks : Unheard(t)
           \/ \E t \in Tasks : Send(t)
           \/ GiveUp \/ NotModified \/ Verify \/ StoreBody \/ StoreState \/ Apply \/ Legacy
           \/ \E readable, loads, hostKnown \in BOOLEAN, fallback \in {NoBody, V1Body(clock)} :
                 Restart(readable, loads, hostKnown, fallback)
BY DEF Next, Mia, vars

\* What the agent asks with.
LEMMA HaveType == TypeOK => Have \in Nat
BY DEF TypeOK, Have, Bodies

\* A step of the composition is a step of the cluster, or none.
LEMMA ClusterStep ==
    ASSUME TypeOK, [Next]_vars
    PROVE  [ServeNext]_serveVars
<1>1. CASE (Tick \/ Change \/ UNCHANGED serveVars) /\ UNCHANGED miaVars
  BY <1>1 DEF ServeNext
<1>2. ASSUME NEW t \in Tasks, Serve(t) PROVE ServeNext
  BY <1>2 DEF ServeNext
<1>3. ASSUME NEW t \in Tasks, Respond(t) PROVE ServeNext
  BY <1>3 DEF ServeNext
<1>4. ASSUME NEW t \in Tasks, Send(t) PROVE ServeNext
  BY <1>4, HaveType DEF ServeNext, Send
<1>5. CASE GiveUp \/ NotModified \/ Verify \/ Legacy
  <2>1. mia.call \in Tasks
    BY <1>5 DEF TypeOK, GiveUp, NotModified, Verify, Legacy
  <2>2. Respond(mia.call) \/ UNCHANGED serveVars
    BY <1>5 DEF GiveUp, NotModified, Verify, Legacy
  <2> QED BY <1>3, <2>1, <2>2
<1>6. CASE StoreBody \/ StoreState \/ Apply
  BY <1>6 DEF StoreBody, StoreState, Apply
<1>7. ASSUME NEW readable, NEW loads, NEW hostKnown, NEW fallback,
             Restart(readable, loads, hostKnown, fallback)
      PROVE  UNCHANGED serveVars
  BY <1>7 DEF Restart
<1> QED BY <1>1, <1>2, <1>3, <1>4, <1>5, <1>6, <1>7, NextCases DEF Unheard

\* A refused or accepted body leaves a well-typed loop.
LEMMA LoopType ==
    /\ Resting \in Loops /\ Resting.pc = "idle" /\ Resting.body = NoBody
    /\ \A now \in Nat : V1Body(now) \in Bodies /\ V1Body(now).gen = 0
    /\ NoBody.gen = 0
<1>1. \A now \in Nat : now + TTL \in Nat
  BY ServeAssumption
<1> QED BY <1>1, Blank DEF Resting, Loops, MiaSteps, V1Body, Bodies, NoBody

\* What a restart puts in force.
LEMMA LoadedType ==
    ASSUME NEW floor, NEW loads, NEW hostKnown, NEW fallback
    PROVE  LoadInForce(floor, loads, hostKnown, fallback) \in {bodyFile, fallback, NoBody}
BY DEF LoadInForce

\* Every step keeps the types.
LEMMA TypeStep ==
    ASSUME TypeOK, ServeInv, [Next]_vars
    PROVE  TypeOK'
<1>0. ServeTypeOK'
  BY ClusterStep, ServeStep DEF ServeInv
<1>1. CASE UNCHANGED miaVars
  BY <1>0, <1>1 DEF TypeOK, miaVars
<1>2. ASSUME NEW t \in Tasks, Send(t) PROVE TypeOK'
  <2>1. mia' = [mia EXCEPT !.pc = "waiting", !.now = clock, !.call = t] /\ clock \in Nat
    BY <1>2 DEF Send, TypeOK, ServeTypeOK
  <2>2. mia' \in Loops /\ mia'.call \in Tasks
    BY <2>1 DEF TypeOK, Loops, MiaSteps
  <2> QED BY <1>0, <1>2, <2>2 DEF TypeOK, Send
<1>3. CASE GiveUp \/ NotModified
  <2>1. mia' = Resting /\ faults' \in Nat /\ UNCHANGED <<held, inForce, bodyFile, stateFile, unloaded>>
    BY <1>3, SyncAssumption DEF GiveUp, NotModified, Fault, TypeOK
  <2> QED BY <1>0, <2>1, LoopType DEF TypeOK
<1>4. CASE Verify
  <2>1. mia.call \in Tasks
    BY <1>4 DEF Verify, TypeOK
  <2>2. task[mia.call].reply \in Bodies
    BY <2>1, TaskFields DEF ServeInv
  <2>3. PICK l : l = [Resting EXCEPT !.pc = "body", !.body = task[mia.call].reply]
    OBVIOUS
  <2>4. l \in Loops /\ l.pc = "body"
    BY <2>2, <2>3, LoopType DEF Loops, MiaSteps
  <2>5. mia' \in {l, Resting}
    BY <1>4, <2>3 DEF Verify
  <2> QED BY <1>0, <1>4, <2>4, <2>5, LoopType DEF TypeOK, Verify
<1>5. CASE StoreBody \/ StoreState
  <2>1. mia.body \in Bodies /\ mia \in Loops /\ faults \in Nat
    BY DEF TypeOK, Loops
  <2>2. \E p \in {"state", "apply"} : mia' = [mia EXCEPT !.pc = p]
    BY <1>5 DEF StoreBody, StoreState
  <2>3. mia' \in Loops /\ mia'.pc # "waiting"
    BY <2>1, <2>2 DEF Loops, MiaSteps
  <2>4. faults' \in Nat
    BY <1>5, <2>1 DEF StoreBody, StoreState, Fault
  <2> QED BY <1>0, <1>5, <2>1, <2>3, <2>4 DEF TypeOK, StoreBody, StoreState
<1>6. CASE Apply
  <2>1. mia.body \in Bodies
    BY DEF TypeOK, Loops
  <2> QED BY <1>0, <1>6, <2>1, LoopType DEF TypeOK, Apply
<1>7. CASE Legacy
  <2>1. V1Body(mia.now) \in Bodies
    BY LoopType DEF TypeOK, Loops
  <2>2. faults' \in Nat
    BY <1>7 DEF Legacy, Fault, TypeOK
  <2>3. inForce' \in Bodies /\ bodyFile' \in Bodies
    BY <1>7, <2>1 DEF Legacy, TypeOK
  <2> QED BY <1>0, <1>7, <2>2, <2>3, LoopType DEF TypeOK, Legacy
<1>8. ASSUME NEW readable \in BOOLEAN, NEW loads \in BOOLEAN, NEW hostKnown \in BOOLEAN,
             NEW fallback \in {NoBody, V1Body(clock)}, Restart(readable, loads, hostKnown, fallback)
      PROVE  TypeOK'
  <2>1. fallback \in Bodies /\ NoBody \in Bodies
    BY LoopType, Blank DEF TypeOK, ServeTypeOK
  <2>2. held' \in {stateFile, NoBody} /\ stateFile' \in {stateFile, NoBody}
    BY <1>8 DEF Restart
  <2>3. inForce' \in {bodyFile, fallback, NoBody}
    BY <1>8, LoadedType DEF Restart
  <2>4. faults' \in Nat
    BY <1>8 DEF Restart, Fault, TypeOK
  <2> QED BY <1>0, <1>8, <2>1, <2>2, <2>3, <2>4, LoopType DEF TypeOK, Restart
<1> QED BY <1>1, <1>2, <1>3, <1>4, <1>5, <1>6, <1>7, <1>8, NextCases DEF Unheard

\* The types and the agreement of the claims hold at the start.
LEMMA TypeStart == Init => TypeOK /\ ServeInv
<1> SUFFICES ASSUME Init PROVE TypeOK /\ ServeInv
  OBVIOUS
<1>1. ServeInv
  BY ServeStart DEF Init
<1> QED BY <1>1, LoopType, Blank DEF Init, TypeOK, ServeInv

\* Both are invariants of the composition.
THEOREM TypeCorrect == Spec => [](TypeOK /\ ServeInv)
<1>1. TypeOK /\ ServeInv /\ [Next]_vars => (TypeOK /\ ServeInv)'
  BY TypeStep, ClusterStep, ServeStep
<1> QED BY <1>1, TypeStart, PTL DEF Spec

\* The composition implements the specification of the cluster: the host is
\* one of the callers it allows for, and takes no step of its own there.
THEOREM Composition == Spec => ServeSpec
<1>1. Init => ServeInit
  BY DEF Init
<1>2. TypeOK /\ [Next]_vars => [ServeNext]_serveVars
  BY ClusterStep
<1> QED BY <1>1, <1>2, TypeCorrect, PTL DEF Spec, ServeSpec

\* The host is never sent two bodies with one generation and different
\* entries.
THEOREM HostSeesOneEntrySet == Spec => []OneEntrySetPerGeneration
BY Composition, OneEntrySet, PTL

-----------------------------------------------------------------------------
(* The generations the host holds.  What it holds was signed, so it is not  *)
(* ahead of the row; a call reads the row after it is sent, so its answer   *)
(* is not behind what the host had when it asked, and has not lost since.   *)

Signed(body) == <<body.gen, body.entries>> \in signed

Kept(body) == body = NoBody \/ (IsV2(body) /\ Signed(body))
Put(body)  == body.gen = 0 \/ Signed(body)

Holdings ==
    /\ Kept(held) /\ Kept(stateFile)
    /\ Put(inForce) /\ Put(bodyFile)

\* The generation a task will answer with is at least g.
Ahead(t, g) ==
    /\ task[t].pc = "compile" => task[t].st.gen >= g
    /\ task[t].pc \in {"record", "cache", "answered"} => task[t].gen >= g

Waiting ==
    mia.pc = "waiting" => Ahead(mia.call, held.gen) /\ Ahead(mia.call, inForce.gen)

Accepting == mia.pc \in {"body", "state", "apply"}

Accepted ==
    Accepting =>
        /\ IsV2(mia.body) /\ Signed(mia.body)
        /\ Admit(mia.body, held, TRUE)
        /\ Admit(mia.body, stateFile, TRUE)
        /\ mia.body.gen >= inForce.gen

Files ==
    /\ mia.pc # "apply" /\ stateFile # NoBody => held # NoBody /\ Admit(held, stateFile, TRUE)
    /\ mia.pc = "state" => bodyFile = mia.body
    /\ BodyFileAdmitted

SyncInv == TypeOK /\ ServeInv /\ Holdings /\ Waiting /\ Accepted /\ Files

\* A signed generation is not ahead of the row.
LEMMA SignedBehind ==
    ASSUME ServeInv, NEW body \in Bodies, Put(body)
    PROVE  body.gen <= row.gen
<1>1. body.gen \in Nat /\ body.entries \in EntrySets /\ row.gen \in Nat
  BY RowFields DEF Bodies, ServeInv, ServeTypeOK
<1>2. CASE body.gen = 0
  BY <1>1, <1>2
<1>3. CASE Signed(body)
  <2>1. Claims(body.gen, body.entries)
    BY <1>3 DEF Claims, Signed
  <2> QED BY <1>1, <2>1 DEF ServeInv, Behind
<1> QED BY <1>2, <1>3 DEF Put

\* Two signed bodies of one generation.
LEMMA SameEntries ==
    ASSUME ServeInv, NEW a, NEW b, Signed(a), Signed(b), a.gen = b.gen
    PROVE  a.entries = b.entries
<1>1. \A x, y \in signed : x[1] = y[1] => x[2] = y[2]
  BY SignedAgree DEF OneEntrySetPerGeneration
<1> QED BY <1>1 DEF Signed

\* What was signed stays signed.
LEMMA SignedStays ==
    ASSUME [ServeNext]_serveVars
    PROVE  signed \subseteq signed'
BY DEF ServeNext, serveVars, Tick, Change, ChangeApprovals, SetLegacy, SetMode, Serve,
       Arrive, ReadRow, StartGeneration, Compile, Record, SignAndCache, Respond, Request

\* A step of serve keeps its task ahead of a generation the row has reached.
LEMMA StaysAhead ==
    ASSUME ServeInv, NEW t \in Tasks, NEW u \in Tasks, Serve(u),
           NEW g \in Nat, g <= row.gen, Ahead(t, g)
    PROVE  Ahead(t, g)'
<1>0. ServeTypeOK /\ row.gen \in Nat /\ task \in [Tasks -> Locals]
  BY RowFields DEF ServeInv, ServeTypeOK
<1>1. CASE u # t
  <2>1. task'[t] = task[t]
    BY <1>0, <1>1 DEF Serve, Arrive, ReadRow, StartGeneration, Retry, Compile, Record, SignAndCache
  <2> QED BY <2>1 DEF Ahead
<1>2. CASE u = t /\ Arrive(t)
  <2>1. task'[t].pc = "row"
    BY <1>0, <1>2, TaskFields DEF Arrive, Locals
  <2> QED BY <2>1 DEF Ahead
<1>3. CASE u = t /\ ReadRow(t)
  <2>1. task'[t].pc \in {"first", "compile"} /\ task'[t].st = row
    BY <1>0, <1>3, TaskFields DEF ReadRow, Locals
  <2> QED BY <1>0, <2>1 DEF Ahead
<1>4. CASE u = t /\ StartGeneration(t)
  <2>1. task'[t].pc \in {"row", "aborted"}
    BY <1>0, <1>4, RetryType DEF StartGeneration
  <2> QED BY <2>1 DEF Ahead
<1>5. CASE u = t /\ Compile(t)
  <2>1. task[t].pc = "compile" /\ task[t].st.gen \in Nat /\ task[t].st.cached \in Bodies
    BY <1>0, <1>5, TaskFields, RowFields DEF Compile
  <2>2. \A b \in Bodies : Answered(task[t].st.gen, b).gen = task[t].st.gen
                          /\ Answered(task[t].st.gen, b).pc = "answered"
    BY <2>1, AnsweredType
  <2>3. task'[t].gen = task[t].st.gen /\ task'[t].pc \in {"answered", "cache", "record"}
    <3>1. CASE Known(task[t].st, Entries(task[t].mode, task[t].now))
               /\ CacheFresh(task[t].st, task[t].now)
      <4>1. PICK b \in Bodies : task'[t] = Answered(task[t].st.gen, b)
        BY <1>0, <1>5, <2>1, <3>1, Blank DEF Compile
      <4> QED BY <2>2, <4>1
    <3>2. CASE ~ (Known(task[t].st, Entries(task[t].mode, task[t].now))
                  /\ CacheFresh(task[t].st, task[t].now))
      BY <1>0, <1>5, <3>2, TaskFields DEF Compile, Locals
    <3> QED BY <3>1, <3>2
  <2> QED BY <2>1, <2>3 DEF Ahead
<1>6. CASE u = t /\ Record(t)
  <2>1. CASE row.gen = task[t].gen
    <3>1. row' = RecordedRow(row.gen, task[t].entries)
      BY <1>6, <2>1 DEF Record
    <3>2. row'.gen \in Nat /\ row'.gen >= row.gen
      BY <1>0, <3>1, NextGenerationHigher DEF RecordedRow, ServeTypeOK
    <3>3. task'[t].pc = "cache" /\ task'[t].gen = row'.gen
      BY <1>0, <1>6, <2>1, TaskFields DEF Record, Locals
    <3> QED BY <1>0, <3>2, <3>3 DEF Ahead
  <2>2. CASE row.gen # task[t].gen
    <3>1. task'[t].pc \in {"row", "aborted"}
      BY <1>0, <1>6, <2>2, RetryType DEF Record
    <3> QED BY <3>1 DEF Ahead
  <2> QED BY <2>1, <2>2
<1>7. CASE u = t /\ SignAndCache(t)
  <2>1. /\ task[t].pc = "cache" /\ task[t].gen \in Nat /\ SignedBody(t) \in Bodies
        /\ task'[t] = Answered(task[t].gen, SignedBody(t))
    BY <1>0, <1>7, TaskFields, SignedBodyType DEF SignAndCache, SignedBody
  <2>2. task'[t].pc = "answered" /\ task'[t].gen = task[t].gen
    BY <2>1, AnsweredType
  <2> QED BY <2>1, <2>2 DEF Ahead
<1> QED BY <1>1, <1>2, <1>3, <1>4, <1>5, <1>6, <1>7 DEF Serve

\* What the host keeps is not ahead of the row.
LEMMA HoldingsBehind ==
    ASSUME SyncInv
    PROVE  /\ held.gen \in Nat /\ held.gen <= row.gen
           /\ inForce.gen \in Nat /\ inForce.gen <= row.gen
<1>1. held \in Bodies /\ inForce \in Bodies /\ ServeInv
  BY DEF SyncInv, TypeOK
<1>2. Put(held) /\ Put(inForce)
  BY LoopType DEF SyncInv, Holdings, Kept, Put
<1>3. held.gen \in Nat /\ inForce.gen \in Nat
  BY <1>1 DEF Bodies
<1> QED BY <1>1, <1>2, <1>3, SignedBehind

\* What the host keeps stays signed.
LEMMA HoldingsStay ==
    ASSUME Holdings, signed \subseteq signed', UNCHANGED <<held, inForce, bodyFile, stateFile>>
    PROVE  Holdings'
BY DEF Holdings, Kept, Put, Signed, IsV2

\* The loop comes to rest with nothing else changed.
LEMMA Rests ==
    ASSUME SyncInv, TypeOK', ServeInv', signed \subseteq signed', mia' = Resting,
           mia.pc # "apply", UNCHANGED <<held, inForce, bodyFile, stateFile>>
    PROVE  SyncInv'
<1>1. Holdings'
  BY HoldingsStay DEF SyncInv
<1>2. Waiting' /\ Accepted'
  BY LoopType DEF Waiting, Accepted, Accepting
<1>3. Files'
  BY LoopType DEF SyncInv, Files, BodyFileAdmitted, Admit, IsV2
<1> QED BY <1>1, <1>2, <1>3 DEF SyncInv

\* A step of the cluster that keeps the call's task ahead.
LEMMA Unmoved ==
    ASSUME SyncInv, TypeOK', ServeInv', signed \subseteq signed', UNCHANGED miaVars,
           mia.pc = "waiting" => Ahead(mia.call, held.gen)' /\ Ahead(mia.call, inForce.gen)'
    PROVE  SyncInv'
<1>1. Holdings'
  BY HoldingsStay DEF SyncInv, miaVars
<1>2. Waiting'
  BY DEF Waiting, miaVars
<1>3. Accepted'
  BY DEF SyncInv, Accepted, Accepting, Admit, IsV2, Signed, miaVars
<1>4. Files'
  BY DEF SyncInv, Files, BodyFileAdmitted, Admit, IsV2, miaVars
<1> QED BY <1>1, <1>2, <1>3, <1>4 DEF SyncInv

\* The steps of the cluster.
LEMMA ClusterKeeps ==
    ASSUME SyncInv, TypeOK', ServeInv', signed \subseteq signed', UNCHANGED miaVars,
           \/ Tick \/ Change \/ UNCHANGED serveVars
           \/ \E u \in Tasks : Serve(u)
           \/ \E u \in Tasks : u # mia.call /\ Respond(u)
    PROVE  SyncInv'
<1>0. /\ ServeInv /\ task \in [Tasks -> Locals] /\ UNCHANGED <<mia, held, inForce>>
      /\ held.gen \in Nat /\ held.gen <= row.gen
      /\ inForce.gen \in Nat /\ inForce.gen <= row.gen
  BY HoldingsBehind DEF SyncInv, ServeInv, ServeTypeOK, miaVars
<1>1. ASSUME mia.pc = "waiting"
      PROVE  Ahead(mia.call, held.gen)' /\ Ahead(mia.call, inForce.gen)'
  <2>0. mia.call \in Tasks /\ Ahead(mia.call, held.gen) /\ Ahead(mia.call, inForce.gen)
    BY <1>1 DEF SyncInv, TypeOK, Waiting
  <2>1. CASE Tick \/ Change \/ UNCHANGED serveVars
    <3>1. task' = task
      BY <2>1 DEF Tick, Change, ChangeApprovals, SetLegacy, SetMode, serveVars
    <3> QED BY <1>0, <2>0, <3>1 DEF Ahead
  <2>2. ASSUME NEW u \in Tasks, Serve(u)
        PROVE  Ahead(mia.call, held.gen)' /\ Ahead(mia.call, inForce.gen)'
    <3>1. PICK t \in Tasks, g \in Nat, f \in Nat :
             t = mia.call /\ g = held.gen /\ f = inForce.gen
      BY <1>0, <2>0
    <3>2. Ahead(t, g)' /\ Ahead(t, f)'
      BY <1>0, <2>0, <2>2, <3>1, StaysAhead
    <3> QED BY <1>0, <3>1, <3>2 DEF Ahead
  <2>3. ASSUME NEW u \in Tasks, u # mia.call, Respond(u)
        PROVE  Ahead(mia.call, held.gen)' /\ Ahead(mia.call, inForce.gen)'
    <3>1. task'[mia.call] = task[mia.call]
      BY <1>0, <2>0, <2>3 DEF Respond
    <3> QED BY <1>0, <2>0, <3>1 DEF Ahead
  <2> QED BY <2>1, <2>2, <2>3
<1> QED BY <1>1, Unmoved

\* A call begins.
LEMMA SendKeeps ==
    ASSUME SyncInv, TypeOK', ServeInv', signed \subseteq signed', NEW t \in Tasks, Send(t)
    PROVE  SyncInv'
<1>0. task \in [Tasks -> Locals] /\ mia \in Loops
  BY DEF SyncInv, TypeOK, ServeTypeOK
<1>1. /\ mia.pc = "idle" /\ mia'.pc = "waiting" /\ mia'.call = t
      /\ UNCHANGED <<held, inForce, bodyFile, stateFile>>
  BY <1>0, LoopType DEF Send, Loops
<1>2. task'[t].pc = "sent"
  BY <1>0, Blank DEF Send, Request, Locals
<1>3. Holdings'
  BY <1>1, HoldingsStay DEF SyncInv
<1>4. Waiting'
  BY <1>1, <1>2 DEF Waiting, Ahead
<1>5. Accepted'
  BY <1>1 DEF Accepted, Accepting
<1>6. Files'
  BY <1>1 DEF SyncInv, Files, BodyFileAdmitted, Admit, IsV2
<1> QED BY <1>3, <1>4, <1>5, <1>6 DEF SyncInv

\* An answer that carries a body.
LEMMA AnswerAdmitted ==
    ASSUME SyncInv, mia.pc = "waiting", task[mia.call].pc = "answered",
           task[mia.call].reply # NoBody
    PROVE  /\ IsV2(task[mia.call].reply) /\ Signed(task[mia.call].reply)
           /\ Admit(task[mia.call].reply, held, TRUE)
           /\ task[mia.call].reply.gen >= inForce.gen
           /\ task[mia.call].reply.gen \in Nat
<1>0. PICK t \in Tasks : t = mia.call
  BY DEF SyncInv, TypeOK
<1>1. /\ Genuine(task[t].reply, task[t].gen) /\ task[t].gen \in Nat
      /\ task[t].gen >= held.gen /\ task[t].gen >= inForce.gen
  BY <1>0, TaskFields DEF SyncInv, ServeInv, TaskOK, Waiting, Ahead
<1>2. IsV2(task[t].reply) /\ Signed(task[t].reply) /\ task[t].reply.gen = task[t].gen
  BY <1>1 DEF Genuine, IsV2, Signed
<1>3. held # NoBody /\ task[t].reply.gen = held.gen => task[t].reply.entries = held.entries
  BY <1>2, SameEntries DEF SyncInv, Holdings, Kept
<1> QED BY <1>0, <1>1, <1>2, <1>3 DEF Admit

\* Admission is transitive.
LEMMA AdmitTransitive ==
    ASSUME NEW a \in Bodies, NEW b \in Bodies, NEW c \in Bodies, IsV2(a), IsV2(b),
           Admit(a, b, TRUE), Admit(b, c, TRUE), b # NoBody
    PROVE  Admit(a, c, TRUE)
<1>1. a.gen \in Nat /\ b.gen \in Nat /\ c.gen \in Nat
  BY DEF Bodies
<1> QED BY <1>1 DEF Admit

\* A body arrives.
LEMMA VerifyKeeps ==
    ASSUME SyncInv, TypeOK', ServeInv', signed \subseteq signed', Verify
    PROVE  SyncInv'
<1>1. CASE mia' = Resting
  BY <1>1, Rests DEF Verify
<1>2. CASE mia' = [Resting EXCEPT !.pc = "body", !.body = task[mia.call].reply]
  <2>1. PICK body : body = task[mia.call].reply
    OBVIOUS
  <2>2. /\ mia'.pc = "body" /\ mia'.body = body /\ mia.pc = "waiting"
        /\ UNCHANGED <<held, inForce, bodyFile, stateFile>>
    BY <1>2, <2>1, LoopType DEF Verify, Loops
  <2>3. /\ IsV2(body) /\ Signed(body) /\ Admit(body, held, TRUE)
        /\ body.gen >= inForce.gen
    BY <2>1, AnswerAdmitted DEF Verify
  <2>4. body \in Bodies /\ held \in Bodies /\ stateFile \in Bodies
    BY <2>1, TaskFields DEF Verify, SyncInv, TypeOK
  <2>5. Admit(body, stateFile, TRUE)
    <3>1. CASE stateFile = NoBody
      BY <2>3, <3>1 DEF Admit
    <3>2. CASE stateFile # NoBody
      <4>1. held # NoBody /\ Admit(held, stateFile, TRUE) /\ IsV2(held)
        BY <2>2, <3>2 DEF SyncInv, Files, Holdings, Kept
      <4> QED BY <2>3, <2>4, <4>1, AdmitTransitive
    <3> QED BY <3>1, <3>2
  <2>6. Holdings'
    BY <2>2, HoldingsStay DEF SyncInv
  <2>7. Waiting'
    BY <2>2 DEF Waiting
  <2>8. Accepted'
    BY <2>2, <2>3, <2>5 DEF Accepted, Admit, IsV2, Signed
  <2>9. Files'
    BY <2>2 DEF SyncInv, Files, BodyFileAdmitted, Admit, IsV2
  <2> QED BY <2>6, <2>7, <2>8, <2>9 DEF SyncInv
<1> QED BY <1>1, <1>2 DEF Verify

\* The body is written, or not.
LEMMA StoreBodyKeeps ==
    ASSUME SyncInv, TypeOK', ServeInv', StoreBody
    PROVE  SyncInv'
<1>0. mia \in Loops /\ bodyFile \in Bodies
  BY DEF SyncInv, TypeOK
<1>1. /\ mia.pc = "body" /\ mia'.body = mia.body
      /\ UNCHANGED <<signed, held, inForce, stateFile>>
      /\ \/ mia'.pc = "state" /\ bodyFile' = mia.body
         \/ mia'.pc = "apply" /\ bodyFile' = bodyFile
  BY <1>0 DEF StoreBody, serveVars, Loops
<1>2. /\ IsV2(mia.body) /\ Signed(mia.body) /\ Admit(mia.body, stateFile, TRUE)
      /\ Admit(mia.body, held, TRUE) /\ mia.body.gen >= inForce.gen
  BY <1>1 DEF SyncInv, Accepted, Accepting
<1>3. Holdings'
  BY <1>1, <1>2 DEF SyncInv, Holdings, Kept, Put, Signed, IsV2
<1>4. Waiting'
  BY <1>1 DEF Waiting
<1>5. Accepted'
  BY <1>1, <1>2 DEF Accepted, Admit, IsV2, Signed
<1>6. mia.body # NoBody
  BY <1>2, LoopType DEF IsV2
<1>7. Files'
  BY <1>1, <1>2, <1>6 DEF SyncInv, Files, BodyFileAdmitted, Admit, IsV2
<1> QED BY <1>3, <1>4, <1>5, <1>7 DEF SyncInv

\* The state is written after the body it is the state of, or not.
LEMMA StoreStateKeeps ==
    ASSUME SyncInv, TypeOK', ServeInv', StoreState
    PROVE  SyncInv'
<1>0. mia \in Loops /\ stateFile \in Bodies
  BY DEF SyncInv, TypeOK
<1>1. /\ mia.pc = "state" /\ mia'.body = mia.body /\ mia'.pc = "apply"
      /\ UNCHANGED <<signed, held, inForce, bodyFile>>
      /\ stateFile' = mia.body \/ stateFile' = stateFile
  BY <1>0 DEF StoreState, serveVars, Loops
<1>2. /\ IsV2(mia.body) /\ Signed(mia.body) /\ Admit(mia.body, stateFile, TRUE)
      /\ Admit(mia.body, held, TRUE) /\ mia.body.gen >= inForce.gen
      /\ bodyFile = mia.body /\ mia.body.gen \in Nat
  BY <1>0, <1>1 DEF SyncInv, Accepted, Accepting, Files, Loops, Bodies
<1>3. Holdings'
  BY <1>1, <1>2 DEF SyncInv, Holdings, Kept, Put, Signed, IsV2
<1>4. Waiting'
  BY <1>1 DEF Waiting
<1>5. Admit(mia.body, mia.body, TRUE) /\ mia.body # NoBody
  BY <1>2, LoopType DEF Admit, IsV2
<1>6. Accepted'
  BY <1>1, <1>2, <1>5 DEF Accepted, Admit, IsV2, Signed
<1>7. Files'
  BY <1>1, <1>2, <1>5 DEF Files, BodyFileAdmitted, Admit, IsV2
<1> QED BY <1>3, <1>4, <1>6, <1>7 DEF SyncInv

\* The body is put in force and held.
LEMMA ApplyKeeps ==
    ASSUME SyncInv, TypeOK', ServeInv', Apply
    PROVE  SyncInv'
<1>1. /\ mia.pc = "apply" /\ mia'.pc = "idle"
      /\ held' = mia.body /\ inForce' = mia.body
      /\ UNCHANGED <<signed, bodyFile, stateFile>>
  BY LoopType DEF Apply, serveVars
<1>2. IsV2(mia.body) /\ Signed(mia.body) /\ Admit(mia.body, stateFile, TRUE)
  BY <1>1 DEF SyncInv, Accepted, Accepting
<1>3. Holdings'
  BY <1>1, <1>2 DEF SyncInv, Holdings, Kept, Put, Signed, IsV2
<1>4. Waiting' /\ Accepted'
  BY <1>1 DEF Waiting, Accepted, Accepting
<1>5. mia.body # NoBody
  BY <1>2, LoopType DEF IsV2
<1>6. Files'
  BY <1>1, <1>2, <1>5 DEF SyncInv, Files, BodyFileAdmitted, Admit, IsV2
<1> QED BY <1>3, <1>4, <1>6 DEF SyncInv

\* A v1 body is taken only while there is no state, in memory or on disk.
LEMMA LegacyKeeps ==
    ASSUME SyncInv, TypeOK', ServeInv', signed \subseteq signed', Legacy
    PROVE  SyncInv'
<1>1. /\ mia.pc = "waiting" /\ mia' = Resting /\ mia'.pc = "idle"
      /\ UNCHANGED <<held, stateFile>>
  BY LoopType DEF Legacy
<1>2. CASE UNCHANGED <<inForce, bodyFile>>
  BY <1>1, <1>2, Rests DEF Legacy
<1>3. CASE held = NoBody /\ inForce' = V1Body(mia.now) /\ bodyFile' \in {bodyFile, inForce'}
  <2>1. stateFile = NoBody
    BY <1>1, <1>3 DEF SyncInv, Files
  <2>2. inForce'.gen = 0
    BY <1>3, LoopType DEF SyncInv, TypeOK, Loops
  <2>3. Holdings'
    BY <1>1, <1>3, <2>1, <2>2 DEF SyncInv, Holdings, Kept, Put, Signed
  <2>4. Waiting' /\ Accepted'
    BY <1>1 DEF Waiting, Accepted, Accepting
  <2>5. Files'
    BY <1>1, <2>1 DEF Files, BodyFileAdmitted
  <2> QED BY <2>3, <2>4, <2>5 DEF SyncInv
<1> QED BY <1>2, <1>3 DEF Legacy

\* The agent starts again from its files.
LEMMA RestartKeeps ==
    ASSUME SyncInv, TypeOK', ServeInv', NEW readable \in BOOLEAN, NEW loads \in BOOLEAN,
           NEW hostKnown \in BOOLEAN, NEW fallback \in {NoBody, V1Body(clock)},
           Restart(readable, loads, hostKnown, fallback)
    PROVE  SyncInv'
<1>1. /\ mia'.pc = "idle" /\ held' = stateFile' /\ stateFile' \in {stateFile, NoBody}
      /\ UNCHANGED <<signed, bodyFile>>
  BY LoopType DEF Restart, serveVars
<1>2. inForce' = bodyFile \/ inForce'.gen = 0
  BY LoadedType, LoopType DEF Restart, SyncInv, TypeOK, ServeTypeOK
<1>3. Holdings'
  BY <1>1, <1>2, LoopType DEF SyncInv, Holdings, Kept, Put, Signed, IsV2
<1>4. Waiting' /\ Accepted'
  BY <1>1 DEF Waiting, Accepted, Accepting
<1>5. stateFile \in Bodies
  BY DEF SyncInv, TypeOK
<1>6. stateFile # NoBody => Admit(stateFile, stateFile, TRUE)
  BY <1>5 DEF SyncInv, Holdings, Kept, Admit, IsV2, Bodies
<1>7. Files'
  BY <1>1, <1>6 DEF SyncInv, Files, BodyFileAdmitted, Admit, IsV2
<1> QED BY <1>3, <1>4, <1>7 DEF SyncInv

\* The invariant of the composition.
THEOREM SyncInvariant == Spec => []SyncInv
<1>1. Init => SyncInv
  <2> SUFFICES ASSUME Init PROVE SyncInv
    OBVIOUS
  <2>1. TypeOK /\ ServeInv
    BY TypeStart
  <2>2. Holdings /\ Waiting /\ Accepted /\ Files
    BY LoopType DEF Init, Holdings, Kept, Put, Waiting, Accepted, Accepting, Files, BodyFileAdmitted
  <2> QED BY <2>1, <2>2 DEF SyncInv
<1>2. ASSUME SyncInv, [Next]_vars PROVE SyncInv'
  <2>1. [ServeNext]_serveVars
    BY <1>2, ClusterStep DEF SyncInv
  <2>2. TypeOK' /\ ServeInv' /\ signed \subseteq signed'
    BY <1>2, <2>1, TypeStep, ServeStep, SignedStays DEF SyncInv
  <2>3. CASE (Tick \/ Change \/ UNCHANGED serveVars) /\ UNCHANGED miaVars
    BY <1>2, <2>2, <2>3, ClusterKeeps
  <2>4. ASSUME NEW t \in Tasks, Serve(t) /\ UNCHANGED miaVars PROVE SyncInv'
    BY <1>2, <2>2, <2>4, ClusterKeeps
  <2>5. ASSUME NEW t \in Tasks, Unheard(t) PROVE SyncInv'
    BY <1>2, <2>2, <2>5, ClusterKeeps DEF Unheard
  <2>6. CASE GiveUp \/ NotModified
    BY <1>2, <2>2, <2>6, Rests DEF GiveUp, NotModified
  <2>7. CASE Verify
    BY <1>2, <2>2, <2>7, VerifyKeeps
  <2>8. CASE StoreBody \/ StoreState \/ Apply
    BY <1>2, <2>2, <2>8, StoreBodyKeeps, StoreStateKeeps, ApplyKeeps
  <2>9. CASE Legacy
    BY <1>2, <2>2, <2>9, LegacyKeeps
  <2> QED BY <1>2, <2>2, <2>3, <2>4, <2>5, <2>6, <2>7, <2>8, <2>9,
             SendKeeps, RestartKeeps, NextCases
<1> QED BY <1>1, <1>2, PTL DEF Spec

\* A body CMIS signed is never refused as a rollback or as a conflict by the
\* host that asked for it (verify.rs, `admit`).
THEOREM GenuineAdmitted == Spec => []GenuineBodyAdmitted
<1>1. SyncInv => GenuineBodyAdmitted
  BY AnswerAdmitted DEF GenuineBodyAdmitted
<1> QED BY <1>1, SyncInvariant, PTL

\* The body on disk is one the state on disk admits, wherever the agent
\* stopped and whichever write failed (on_body).
THEOREM FilesAgree == Spec => []BodyFileAdmitted
<1>1. SyncInv => BodyFileAdmitted
  BY DEF SyncInv, Files
<1> QED BY <1>1, SyncInvariant, PTL

\* A sync never puts a lower generation in force than the one it replaces.
THEOREM NeverRollsBack == Spec => NoRollback
<1>1. ASSUME SyncInv, Apply PROVE inForce'.gen >= inForce.gen
  BY <1>1 DEF SyncInv, Accepted, Accepting, Apply
<1>2. SyncInv /\ [Next]_vars => [Apply => inForce'.gen >= inForce.gen]_vars
  BY <1>1
<1> QED BY <1>2, SyncInvariant, PTL DEF Spec, NoRollback
-----------------------------------------------------------------------------
(* NotModified.  Every body lives for TTL from a time that has passed, and  *)
(* of two bodies of one generation the one that replaces the other does not *)
(* end earlier: host and cluster turn to a new one at the same half of the  *)
(* lifetime, and the cluster reads the clock after the host did.  So what a *)
(* start finds in the body file outlives what it finds in the state file,   *)
(* and a body that is held and not in force is one the host cannot be told  *)
(* to keep, but for a body file that did not load: then nothing is.         *)

\* A signed body has the lifetime of the settings and is not of the future.
Timed(body, now) ==
    IsV2(body) => body.not_after = body.issued_at + TTL /\ body.issued_at <= now

TaskTimed(k, now) == k.now <= now /\ Timed(k.st.cached, now) /\ Timed(k.reply, now)

ServeTimes == Timed(row.cached, clock) /\ \A t \in Tasks : TaskTimed(task[t], clock)

HostTimes ==
    /\ Timed(held, clock) /\ Timed(bodyFile, clock)
    /\ Timed(stateFile, clock) /\ Timed(mia.body, clock)

\* Of two bodies of one generation, a does not end before b.
Outlives(a, b) == a.gen = b.gen => a.not_after >= b.not_after

FileOrder ==
    stateFile # NoBody =>
        /\ Outlives(bodyFile, stateFile)
        /\ mia.pc # "apply" => Outlives(held, stateFile)
        /\ Accepting => Outlives(mia.body, stateFile)

\* A host that holds h asks for a body at this time, whatever its generation.
Wants(h, now) == h = NoBody \/ PastHalfLife(h, now)

\* What a host that holds h may expect of the call k it sent at `now`: it
\* carries the generation held, it is served at a time no earlier, a body it
\* brings outlives h, and NotModified is about h.
Serves(k, h, now) ==
    /\ k.pc \in {"sent", "row", "first", "compile", "record", "cache"} =>
          k.have = IF Wants(h, now) THEN 0 ELSE h.gen
    /\ k.pc \in {"row", "first", "compile", "record", "cache"} => k.now >= now
    /\ k.pc = "answered" /\ k.reply # NoBody /\ h # NoBody => Outlives(k.reply, h)
    /\ k.pc = "answered" /\ k.reply = NoBody => ~ Wants(h, now) /\ k.gen = h.gen

CallTimes ==
    mia.pc = "waiting" =>
        /\ mia.now <= clock
        /\ held # NoBody => held.issued_at <= mia.now
        /\ Serves(task[mia.call], held, mia.now)

\* The held body is in force, or a later one of its generation, or the start
\* found the body file and could not load it, and nothing is in force.
Covered ==
    \/ inForce.gen = held.gen /\ inForce.not_after >= held.not_after
    \/ unloaded /\ inForce = NoBody

\* A held body that is not in force is out of date: the cluster has moved
\* on, or the body has expired.
Forced ==
    held # NoBody => Covered \/ held.gen < row.gen \/ clock > held.not_after

\* A host that could be told to keep what it holds has it in force, or its
\* call will bring a later generation.
ForcedCall ==
    mia.pc = "waiting" /\ ~ Wants(held, mia.now) =>
        Covered \/ (held.gen < row.gen /\ Ahead(mia.call, held.gen + 1))

TimeInv == ServeTimes /\ HostTimes /\ FileOrder /\ CallTimes /\ Forced /\ ForcedCall

\* A body of the past stays one.
LEMMA LaterTimed ==
    ASSUME NEW body \in Bodies, NEW n \in Nat, NEW m \in Nat, n <= m, Timed(body, n)
    PROVE  Timed(body, m)
<1>1. body.issued_at \in Nat
  BY DEF Bodies
<1> QED BY <1>1 DEF Timed

\* Bodies without a generation have no lifetime to keep to.
LEMMA BlankTimed ==
    ASSUME NEW now \in Nat
    PROVE  /\ Timed(NoBody, now) /\ TaskTimed(Idle, now) /\ NoRow.cached = NoBody
           /\ \A body : body.gen = 0 => Timed(body, now)
BY DEF Timed, TaskTimed, IsV2, NoBody, Idle, NoRow

\* The clock and the generation only go up.
LEMMA OnlyUp ==
    ASSUME ServeInv, ServeInv', [ServeNext]_serveVars
    PROVE  /\ clock \in Nat /\ clock' \in Nat /\ clock <= clock'
           /\ row.gen \in Nat /\ row'.gen \in Nat /\ row.gen <= row'.gen
<1>0. /\ ServeTypeOK /\ clock \in Nat /\ clock' \in Nat /\ row \in Rows
      /\ row.gen \in Nat /\ row'.gen \in Nat
  BY RowFields DEF ServeInv, ServeTypeOK
<1>1. clock <= clock'
  <2>1. clock' = clock \/ Tick
    BY DEF ServeNext, serveVars, Change, ChangeApprovals, SetLegacy, SetMode, Serve,
       Arrive, ReadRow, StartGeneration, Compile, Record, SignAndCache, Respond, Request
  <2>2. Tick => clock' = clock + 1
    BY DEF Tick
  <2> QED BY <1>0, <2>1, <2>2
<1>2. row' = row \/ row' = BumpedRow
      \/ (\E t \in Tasks : Record(t)) \/ (\E t \in Tasks : SignAndCache(t))
  BY DEF ServeNext, serveVars, Tick, Change, ChangeApprovals, SetLegacy, SetMode, Serve,
       Arrive, ReadRow, StartGeneration, Compile, Respond, Request
<1>3. ASSUME row' = BumpedRow
      PROVE  row.gen <= row'.gen
  <2>1. row'.gen > row.gen
    BY <1>0, <1>3, Bumped
  <2> QED BY <1>0, <2>1
<1>4. ASSUME NEW t \in Tasks, Record(t)
      PROVE  row.gen <= row'.gen
  <2>1. CASE row' = row
    BY <1>0, <2>1
  <2>2. CASE row' = RecordedRow(row.gen, task[t].entries)
    BY <1>0, <2>2, NextGenerationHigher DEF RecordedRow
  <2> QED BY <1>4, <2>1, <2>2 DEF Record
<1>5. ASSUME NEW t \in Tasks, SignAndCache(t)
      PROVE  row.gen <= row'.gen
  <2>1. row'.gen = row.gen
    BY <1>0, <1>5 DEF SignAndCache, Rows
  <2> QED BY <1>0, <2>1
<1>6. row.gen <= row'.gen
  <2>1. CASE row' = row
    BY <1>0, <2>1
  <2> QED BY <1>2, <1>3, <1>4, <1>5, <2>1
<1> QED BY <1>0, <1>1, <1>6

\* What a turn without an answer keeps of the call.
LEMMA RetryKeeps ==
    ASSUME ServeTypeOK, NEW t \in Tasks, Retry(t)
    PROVE  /\ task'[t].pc \in {"row", "aborted"}
           /\ task'[t].pc = "row" => task'[t].have = task[t].have /\ task'[t].now = task[t].now
           /\ task'[t].now \in {0, task[t].now}
           /\ task'[t].st = NoRow
           /\ task'[t].reply \in {NoBody, task[t].reply}
<1>1. task[t] \in Locals /\ task \in [Tasks -> Locals]
  BY TaskFields DEF ServeTypeOK
<1> DEFINE again == [task[t] EXCEPT !.pc = "row", !.tries = task[t].tries + 1,
                                    !.st = NoRow, !.entries = {}]
           over  == [Idle EXCEPT !.pc = "aborted"]
<1>2. /\ again.pc = "row" /\ again.have = task[t].have /\ again.now = task[t].now
      /\ again.st = NoRow /\ again.reply = task[t].reply
  BY <1>1 DEF Locals
<1>3. over.pc = "aborted" /\ over.now = 0 /\ over.st = NoRow /\ over.reply = NoBody
  BY DEF Idle
<1>4. task' = [task EXCEPT ![t] = IF task[t].tries + 1 < ATTEMPTS THEN again ELSE over]
  BY DEF Retry
<1> HIDE DEF again, over
<1>5. task'[t] \in {again, over}
  BY <1>1, <1>4
<1> QED BY <1>2, <1>3, <1>5

\* A step of one task.
LEMMA OneTaskTimes ==
    ASSUME ServeTimes, ServeTypeOK, clock' \in Nat, clock <= clock', NEW t \in Tasks,
           \A u \in Tasks \ {t} : task'[u] = task[u],
           Timed(row'.cached, clock'), TaskTimed(task'[t], clock')
    PROVE  ServeTimes'
<1>1. ASSUME NEW u \in Tasks, u # t
      PROVE  TaskTimed(task[u], clock')
  <2>1. /\ task[u].now \in Nat /\ task[u].st.cached \in Bodies /\ task[u].reply \in Bodies
        /\ clock \in Nat /\ TaskTimed(task[u], clock)
    BY TaskFields, RowFields DEF ServeTypeOK, ServeTimes
  <2> QED BY <2>1, LaterTimed DEF TaskTimed
<1>2. \A u \in Tasks : TaskTimed(task'[u], clock')
  BY <1>1
<1> QED BY <1>2 DEF ServeTimes
\* The times of the cluster.
LEMMA ServeTimesStep ==
    ASSUME ServeInv, ServeInv', ServeTimes, [ServeNext]_serveVars
    PROVE  ServeTimes'
<1>0. /\ ServeTypeOK /\ clock \in Nat /\ clock' \in Nat /\ clock <= clock'
      /\ row \in Rows /\ row.cached \in Bodies /\ task \in [Tasks -> Locals]
  BY OnlyUp, RowFields DEF ServeInv, ServeTypeOK
<1>1. /\ Timed(row.cached, clock') /\ Timed(NoBody, clock')
      /\ BumpedRow.cached = NoBody
  BY <1>0, LaterTimed, BlankTimed, Bumped DEF ServeTimes
<1>2. ASSUME NEW t \in Tasks
      PROVE  TaskTimed(task[t], clock') /\ TaskTimed(task[t], clock)
  <2>1. /\ task[t].now \in Nat /\ task[t].st.cached \in Bodies /\ task[t].reply \in Bodies
        /\ TaskTimed(task[t], clock)
    BY <1>0, TaskFields, RowFields DEF ServeTimes
  <2> QED BY <1>0, <2>1, LaterTimed DEF TaskTimed
<1>3. ASSUME NEW t \in Tasks, NEW have \in Nat, Request(t, have)
      PROVE  ServeTimes'
  <2>1. PICK l : l = [Idle EXCEPT !.pc = "sent", !.have = have]
    OBVIOUS
  <2>2. TaskTimed(l, clock')
    BY <1>0, <2>1, BlankTimed DEF TaskTimed, Idle
  <2>3. /\ task'[t] = l /\ row' = row
        /\ \A u \in Tasks \ {t} : task'[u] = task[u]
    BY <1>0, <1>3, <2>1 DEF Request
  <2> QED BY <1>0, <1>1, <2>2, <2>3, OneTaskTimes
<1>4. ASSUME NEW t \in Tasks, Respond(t)
      PROVE  ServeTimes'
  <2>1. /\ task'[t] = Idle /\ row' = row
        /\ \A u \in Tasks \ {t} : task'[u] = task[u]
    BY <1>0, <1>4 DEF Respond
  <2> QED BY <1>0, <1>1, <2>1, BlankTimed, OneTaskTimes
<1>5. ASSUME NEW t \in Tasks, Arrive(t)
      PROVE  ServeTimes'
  <2>1. /\ task'[t].now = clock /\ task'[t].st = task[t].st /\ task'[t].reply = task[t].reply
        /\ row' = row /\ clock' = clock
        /\ \A u \in Tasks \ {t} : task'[u] = task[u]
    BY <1>0, <1>5, TaskFields DEF Arrive, Locals
  <2>2. TaskTimed(task'[t], clock')
    BY <1>0, <1>2, <2>1 DEF TaskTimed
  <2> QED BY <1>0, <1>1, <2>1, <2>2, OneTaskTimes
<1>6. ASSUME NEW t \in Tasks, ReadRow(t)
      PROVE  ServeTimes'
  <2>1. /\ task'[t].now = task[t].now /\ task'[t].st = row /\ task'[t].reply = task[t].reply
        /\ row' = row
        /\ \A u \in Tasks \ {t} : task'[u] = task[u]
    BY <1>0, <1>6, TaskFields DEF ReadRow, Locals
  <2>2. TaskTimed(task'[t], clock')
    BY <1>1, <1>2, <2>1 DEF TaskTimed
  <2> QED BY <1>0, <1>1, <2>1, <2>2, OneTaskTimes
<1>7. ASSUME NEW t \in Tasks, Retry(t)
      PROVE  /\ TaskTimed(task'[t], clock')
             /\ \A u \in Tasks \ {t} : task'[u] = task[u]
  <2>1. /\ task'[t].now \in {0, task[t].now} /\ task'[t].st = NoRow
        /\ task'[t].reply \in {NoBody, task[t].reply}
    BY <1>0, <1>7, RetryKeeps
  <2>2. \A u \in Tasks \ {t} : task'[u] = task[u]
    BY <1>0, <1>7, RetryType
  <2>3. TaskTimed(task'[t], clock')
    BY <1>0, <1>1, <1>2, <2>1, BlankTimed DEF TaskTimed
  <2> QED BY <2>2, <2>3
<1>8. ASSUME NEW t \in Tasks, StartGeneration(t)
      PROVE  ServeTimes'
  <2>1. row' = BumpedRow /\ Retry(t)
    BY <1>8 DEF StartGeneration
  <2>2. Timed(row'.cached, clock')
    BY <1>1, <2>1
  <2> QED BY <1>0, <1>7, <2>1, <2>2, OneTaskTimes
<1>9. ASSUME NEW t \in Tasks, Compile(t)
       PROVE  ServeTimes'
  <2>1. row' = row /\ \A u \in Tasks \ {t} : task'[u] = task[u]
    BY <1>0, <1>9 DEF Compile
  <2>2. CASE Known(task[t].st, Entries(task[t].mode, task[t].now))
             /\ CacheFresh(task[t].st, task[t].now)
    <3>1. PICK b \in {NoBody, task[t].st.cached} : task'[t] = Answered(task[t].st.gen, b)
      BY <1>0, <1>9, <2>2 DEF Compile
    <3>2. task'[t].now = 0 /\ task'[t].st = NoRow /\ task'[t].reply = b
      BY <3>1 DEF Answered, Idle
    <3>3. TaskTimed(task'[t], clock')
      BY <1>0, <1>1, <1>2, <3>2, BlankTimed DEF TaskTimed
    <3> QED BY <1>0, <1>1, <2>1, <3>3, OneTaskTimes
  <2>3. CASE ~ (Known(task[t].st, Entries(task[t].mode, task[t].now))
                /\ CacheFresh(task[t].st, task[t].now))
    <3>1. /\ task'[t].now = task[t].now /\ task'[t].st = task[t].st
          /\ task'[t].reply = task[t].reply
      BY <1>0, <1>9, <2>3, TaskFields DEF Compile, Locals
    <3>2. TaskTimed(task'[t], clock')
      BY <1>2, <3>1 DEF TaskTimed
    <3> QED BY <1>0, <1>1, <2>1, <3>2, OneTaskTimes
  <2> QED BY <2>2, <2>3
<1>10. ASSUME NEW t \in Tasks, Record(t)
       PROVE  ServeTimes'
  <2>1. CASE Retry(t) /\ row' = row
    BY <1>0, <1>1, <1>7, <2>1, OneTaskTimes
  <2>2. CASE /\ row' = RecordedRow(row.gen, task[t].entries)
             /\ task' = [task EXCEPT ![t] = [@ EXCEPT !.pc = "cache", !.gen = row'.gen]]
    <3>1. row'.cached \in {row.cached, NoBody}
      BY <2>2 DEF RecordedRow
    <3>2. /\ task'[t].now = task[t].now /\ task'[t].st = task[t].st
          /\ task'[t].reply = task[t].reply
          /\ \A u \in Tasks \ {t} : task'[u] = task[u]
      BY <1>0, <2>2, TaskFields DEF Locals
    <3>3. TaskTimed(task'[t], clock') /\ Timed(row'.cached, clock')
      BY <1>1, <1>2, <3>1, <3>2 DEF TaskTimed
    <3> QED BY <1>0, <3>2, <3>3, OneTaskTimes
  <2> QED BY <1>10, <2>1, <2>2 DEF Record
<1>11. ASSUME NEW t \in Tasks, SignAndCache(t)
       PROVE  ServeTimes'
  <2>1. PICK body : body = SignedBody(t)
    OBVIOUS
  <2>2. /\ row'.cached \in {row.cached, body}
        /\ task'[t] = Answered(body.gen, body)
        /\ \A u \in Tasks \ {t} : task'[u] = task[u]
    BY <1>0, <1>11, <2>1 DEF SignAndCache, SignedBody, Rows
  <2>3. Timed(body, clock')
    BY <1>2, <2>1 DEF TaskTimed, Timed, SignedBody, NotAfter
  <2>4. task'[t].now = 0 /\ task'[t].st = NoRow /\ task'[t].reply = body
    BY <2>2 DEF Answered, Idle
  <2>5. TaskTimed(task'[t], clock') /\ Timed(row'.cached, clock')
    BY <1>0, <1>1, <2>2, <2>3, <2>4, BlankTimed DEF TaskTimed
  <2> QED BY <1>0, <2>2, <2>5, OneTaskTimes
<1>12. CASE Tick \/ Change \/ UNCHANGED serveVars
  <2>1. task' = task /\ (row' = row \/ row' = BumpedRow)
    BY <1>12 DEF Tick, Change, ChangeApprovals, SetLegacy, SetMode, serveVars
  <2> QED BY <1>1, <1>2, <2>1 DEF ServeTimes
<1> QED BY <1>3, <1>4, <1>5, <1>6, <1>8, <1>9, <1>10, <1>11, <1>12 DEF ServeNext, Serve
\* A host holds no body, or one of the lifetime of the settings that was
\* signed before `now`.
Holds(h, now) ==
    h # NoBody => IsV2(h) /\ h.not_after = h.issued_at + TTL /\ h.issued_at <= now

\* A cached body that the cluster takes for fresh outlives one that the host
\* takes for old.
LEMMA HalvesMeet ==
    ASSUME NEW b \in Bodies, NEW h \in Bodies, NEW n \in Nat, NEW now \in Nat, n <= now,
           h.not_after = h.issued_at + TTL, PastHalfLife(h, n), b.not_after - now > TTL \div 2
    PROVE  b.not_after >= h.not_after
<1>1. b.not_after \in Nat /\ h.issued_at \in Nat /\ TTL \in Nat
  BY ServeAssumption DEF Bodies
<1>2. n >= h.issued_at + TTL \div 2
  BY <1>1 DEF PastHalfLife
<1> QED BY <1>1, <1>2

\* A step of serve gives the host what it may expect.
LEMMA StillServes ==
    ASSUME ServeInv, ServeTimes, NEW t \in Tasks, Serve(t), NEW h \in Bodies, NEW n \in Nat,
           n <= clock, Holds(h, n), Serves(task[t], h, n)
    PROVE  Serves(task'[t], h, n)
<1>0. /\ ServeTypeOK /\ clock \in Nat /\ task \in [Tasks -> Locals] /\ task[t] \in Locals
      /\ task[t].now \in Nat /\ task[t].gen \in Nat
      /\ task[t].st.gen \in Nat /\ task[t].st.cached \in Bodies
      /\ h.gen \in Nat /\ h.issued_at \in Nat /\ h.not_after \in Nat
  BY TaskFields, RowFields DEF ServeInv, ServeTypeOK, Bodies
<1>1. CASE Arrive(t)
  <2>1. task'[t].pc = "row" /\ task'[t].have = task[t].have /\ task'[t].now = clock
    BY <1>0, <1>1 DEF Arrive, Locals
  <2> QED BY <1>1, <2>1 DEF Serves, Arrive
<1>2. CASE ReadRow(t)
  <2>1. /\ task'[t].pc \in {"first", "compile"} /\ task'[t].have = task[t].have
        /\ task'[t].now = task[t].now
    BY <1>0, <1>2 DEF ReadRow, Locals
  <2> QED BY <1>2, <2>1 DEF Serves, ReadRow
<1>3. ASSUME Retry(t), task[t].pc \in {"first", "record"}
      PROVE  Serves(task'[t], h, n)
  <2>1. /\ task'[t].pc \in {"row", "aborted"}
        /\ task'[t].pc = "row" => task'[t].have = task[t].have /\ task'[t].now = task[t].now
    BY <1>0, <1>3, RetryKeeps
  <2> QED BY <1>3, <2>1 DEF Serves
<1>4. CASE StartGeneration(t)
  BY <1>3, <1>4 DEF StartGeneration
<1>5. CASE Compile(t)
  <2>0. /\ task[t].pc = "compile" /\ task[t].st.gen > 0 /\ task[t].now >= n
        /\ task[t].have = IF Wants(h, n) THEN 0 ELSE h.gen
        /\ task[t].st.cached = NoBody \/ Genuine(task[t].st.cached, task[t].st.gen)
    BY <1>5 DEF Compile, Serves, ServeInv, TaskOK
  <2>1. CASE ~ (Known(task[t].st, Entries(task[t].mode, task[t].now))
                /\ CacheFresh(task[t].st, task[t].now))
    <3>1. /\ task'[t].pc \in {"cache", "record"} /\ task'[t].have = task[t].have
          /\ task'[t].now = task[t].now
      BY <1>0, <1>5, <2>1 DEF Compile, Locals
    <3> QED BY <2>0, <3>1 DEF Serves
  <2>2. CASE /\ Known(task[t].st, Entries(task[t].mode, task[t].now))
             /\ CacheFresh(task[t].st, task[t].now)
             /\ task[t].have = task[t].st.gen
    <3>1. task'[t] = Answered(task[t].st.gen, NoBody)
      BY <1>0, <1>5, <2>2 DEF Compile
    <3>2. task'[t].pc = "answered" /\ task'[t].gen = task[t].st.gen /\ task'[t].reply = NoBody
      BY <1>0, <3>1, AnsweredType, Blank
    <3>3. ~ Wants(h, n) /\ task[t].st.gen = h.gen
      BY <1>0, <2>0, <2>2
    <3> QED BY <3>2, <3>3 DEF Serves
  <2>3. CASE /\ Known(task[t].st, Entries(task[t].mode, task[t].now))
             /\ CacheFresh(task[t].st, task[t].now)
             /\ task[t].have # task[t].st.gen
    <3>1. task'[t] = Answered(task[t].st.gen, task[t].st.cached)
      BY <1>0, <1>5, <2>3 DEF Compile
    <3>2. /\ task'[t].pc = "answered" /\ task'[t].reply = task[t].st.cached
          /\ task[t].st.cached # NoBody /\ task[t].st.cached.not_after - task[t].now > TTL \div 2
      BY <1>0, <2>3, <3>1, AnsweredType DEF CacheFresh
    <3>3. ASSUME h # NoBody, task[t].st.cached.gen = h.gen
          PROVE  task[t].st.cached.not_after >= h.not_after
      <4>1. task[t].st.cached.gen = task[t].st.gen
        BY <2>0, <3>2 DEF Genuine
      <4>2. Wants(h, n)
        BY <2>0, <2>3, <3>3, <4>1
      <4>3. PastHalfLife(h, n) /\ h.not_after = h.issued_at + TTL
        BY <3>3, <4>2 DEF Wants, Holds
      <4> QED BY <1>0, <2>0, <3>2, <4>3, HalvesMeet
    <3> QED BY <3>2, <3>3 DEF Serves, Outlives
  <2> QED BY <2>1, <2>2, <2>3
<1>6. CASE Record(t)
  <2>1. CASE Retry(t)
    BY <1>3, <1>6, <2>1 DEF Record
  <2>2. CASE task' = [task EXCEPT ![t] = [@ EXCEPT !.pc = "cache", !.gen = row'.gen]]
    <3>1. /\ task'[t].pc = "cache" /\ task'[t].have = task[t].have
          /\ task'[t].now = task[t].now
      BY <1>0, <2>2 DEF Locals
    <3> QED BY <1>6, <3>1 DEF Serves, Record
  <2> QED BY <1>6, <2>1, <2>2 DEF Record
<1>7. CASE SignAndCache(t)
  <2>0. task[t].pc = "cache" /\ task[t].gen > 0 /\ task[t].now >= n
    BY <1>7 DEF SignAndCache, Serves, ServeInv, TaskOK
  <2>1. PICK body : body = SignedBody(t)
    OBVIOUS
  <2>2. /\ body \in Bodies /\ body.gen = task[t].gen /\ body.not_after = task[t].now + TTL
    BY <1>0, <2>1, SignedBodyType DEF SignedBody, NotAfter
  <2>3. task'[t] = Answered(task[t].gen, body)
    BY <1>0, <1>7, <2>1 DEF SignAndCache, SignedBody
  <2>4. task'[t].pc = "answered" /\ task'[t].reply = body
    BY <1>0, <2>2, <2>3, AnsweredType
  <2>5. body # NoBody
    BY <2>0, <2>2, LoopType
  <2>6. h # NoBody => body.not_after >= h.not_after
    BY <1>0, <2>0, <2>2, ServeAssumption DEF Holds
  <2> QED BY <2>4, <2>5, <2>6 DEF Serves, Outlives
<1> QED BY <1>1, <1>2, <1>4, <1>5, <1>6, <1>7 DEF Serve
\* What the host has, on disk and in memory, stays timed.
LEMMA HostTimesLater ==
    ASSUME SyncInv, HostTimes, clock' \in Nat, clock <= clock'
    PROVE  /\ Timed(held, clock') /\ Timed(bodyFile, clock')
           /\ Timed(stateFile, clock') /\ Timed(mia.body, clock')
<1>1. /\ clock \in Nat /\ held \in Bodies /\ bodyFile \in Bodies /\ stateFile \in Bodies
      /\ mia.body \in Bodies
  BY DEF SyncInv, TypeOK, ServeTypeOK, Loops
<1> QED BY <1>1, LaterTimed DEF HostTimes

\* What is known to be out of date stays so.
LEMMA ForcedStays ==
    ASSUME SyncInv, Forced, UNCHANGED <<held, inForce, unloaded>>,
           clock \in Nat, clock' \in Nat, clock <= clock',
           row.gen \in Nat, row'.gen \in Nat, row.gen <= row'.gen
    PROVE  Forced'
<1>1. held.gen \in Nat /\ held.not_after \in Nat
  BY DEF SyncInv, TypeOK, Bodies
<1> QED BY <1>1 DEF Forced, Covered

\* The steps of the cluster.
LEMMA ClusterTimes ==
    ASSUME SyncInv, TimeInv, ServeInv', [ServeNext]_serveVars, UNCHANGED miaVars,
           \/ Tick \/ Change \/ UNCHANGED serveVars
           \/ \E u \in Tasks : Serve(u)
           \/ \E u \in Tasks : u # mia.call /\ Respond(u)
    PROVE  TimeInv'
<1>0. /\ ServeInv /\ UNCHANGED <<mia, held, inForce, bodyFile, stateFile, unloaded>>
      /\ clock \in Nat /\ clock' \in Nat /\ clock <= clock'
      /\ row.gen \in Nat /\ row'.gen \in Nat /\ row.gen <= row'.gen
      /\ task \in [Tasks -> Locals] /\ mia.now \in Nat /\ held \in Bodies /\ held.gen \in Nat
  BY OnlyUp DEF SyncInv, TypeOK, ServeTypeOK, Loops, Bodies, miaVars
<1>1. ServeTimes'
  BY <1>0, ServeTimesStep DEF TimeInv
<1>2. HostTimes'
  BY <1>0, HostTimesLater DEF TimeInv, HostTimes
<1>3. FileOrder'
  BY <1>0 DEF TimeInv, FileOrder, Outlives, Accepting
<1>4. Forced'
  BY <1>0, ForcedStays DEF TimeInv
<1>5. ASSUME mia.pc = "waiting"
      PROVE  /\ Serves(task'[mia.call], held, mia.now)
             /\ ~ Wants(held, mia.now) =>
                   Covered \/ (held.gen < row'.gen /\ Ahead(mia.call, held.gen + 1)')
  <2>1. PICK t \in Tasks, h \in Bodies, n \in Nat : t = mia.call /\ h = held /\ n = mia.now
    BY <1>0, <1>5 DEF SyncInv, TypeOK
  <2>2. Serves(task[t], h, n) /\ n <= clock /\ Holds(h, n)
    <3>1. h # NoBody => IsV2(h)
      BY <2>1 DEF SyncInv, Holdings, Kept
    <3> QED BY <1>5, <2>1, <3>1 DEF TimeInv, CallTimes, HostTimes, Timed, Holds
  <2>3. ~ Wants(h, n) => Covered \/ (h.gen < row.gen /\ Ahead(t, h.gen + 1))
    BY <1>5, <2>1 DEF TimeInv, ForcedCall
  <2>4. h.gen \in Nat /\ (h.gen < row.gen => h.gen + 1 <= row.gen /\ h.gen < row'.gen)
    BY <1>0, <2>1
  <2>5. CASE task'[t] = task[t]
    <3>1. Serves(task'[t], h, n)
      BY <2>2, <2>5
    <3>2. Ahead(t, h.gen + 1) => Ahead(t, h.gen + 1)'
      BY <2>5 DEF Ahead
    <3> QED BY <1>0, <2>1, <2>3, <2>4, <3>1, <3>2 DEF Ahead
  <2>6. ASSUME Serve(t)
        PROVE  /\ Serves(task'[t], h, n)
               /\ h.gen < row.gen /\ Ahead(t, h.gen + 1) => Ahead(t, h.gen + 1)'
    <3>1. Serves(task'[t], h, n)
      BY <1>0, <2>2, <2>6, StillServes DEF TimeInv
    <3>2. PICK g \in Nat : g = h.gen + 1
      BY <2>4
    <3>3. h.gen < row.gen /\ Ahead(t, g) => Ahead(t, g)'
      BY <1>0, <2>4, <2>6, <3>2, StaysAhead
    <3> QED BY <3>1, <3>2, <3>3
  <2>7. CASE Serve(t)
    BY <1>0, <2>1, <2>3, <2>4, <2>6, <2>7 DEF Ahead
  <2>8. task'[t] = task[t] \/ Serve(t)
    <3>1. CASE Tick \/ Change \/ UNCHANGED serveVars
      BY <3>1 DEF Tick, Change, ChangeApprovals, SetLegacy, SetMode, serveVars
    <3>2. ASSUME NEW u \in Tasks, Serve(u), u # t
          PROVE  task'[t] = task[t]
      BY <1>0, <3>2 DEF Serve, Arrive, ReadRow, StartGeneration, Retry, Compile, Record, SignAndCache
    <3>3. ASSUME NEW u \in Tasks, Respond(u), u # t
          PROVE  task'[t] = task[t]
      BY <1>0, <3>3 DEF Respond
    <3> QED BY <2>1, <3>1, <3>2, <3>3
  <2> QED BY <2>5, <2>7, <2>8
<1>6. CallTimes'
  BY <1>0, <1>5 DEF TimeInv, CallTimes
<1>7. ForcedCall'
  BY <1>0, <1>5 DEF ForcedCall, Covered, Ahead
<1> QED BY <1>1, <1>2, <1>3, <1>4, <1>6, <1>7 DEF TimeInv

\* The loop comes to rest with nothing else changed.
LEMMA TimesRest ==
    ASSUME SyncInv, TimeInv, ServeInv', [ServeNext]_serveVars, mia' = Resting, mia.pc # "apply",
           UNCHANGED <<held, inForce, bodyFile, stateFile, unloaded>>
    PROVE  TimeInv'
<1>0. /\ clock \in Nat /\ clock' \in Nat /\ clock <= clock'
      /\ row.gen \in Nat /\ row'.gen \in Nat /\ row.gen <= row'.gen
      /\ mia'.pc = "idle" /\ mia'.body = NoBody
  BY OnlyUp, LoopType DEF SyncInv
<1>1. ServeTimes'
  BY ServeTimesStep DEF SyncInv, TimeInv
<1>2. HostTimes'
  BY <1>0, HostTimesLater, BlankTimed DEF TimeInv, HostTimes
<1>3. FileOrder'
  BY <1>0 DEF TimeInv, FileOrder, Outlives, Accepting
<1>4. Forced'
  BY <1>0, ForcedStays DEF TimeInv
<1>5. CallTimes' /\ ForcedCall'
  BY <1>0 DEF CallTimes, ForcedCall
<1> QED BY <1>1, <1>2, <1>3, <1>4, <1>5 DEF TimeInv

\* A call begins: a held body that is not in force and not past its half is
\* behind the row the call will read.
LEMMA SendTimes ==
    ASSUME SyncInv, TimeInv, ServeInv', [ServeNext]_serveVars, NEW t \in Tasks, Send(t)
    PROVE  TimeInv'
<1>0. /\ mia \in Loops /\ mia.pc = "idle" /\ mia.body = NoBody /\ task \in [Tasks -> Locals]
      /\ clock \in Nat /\ clock' = clock /\ row' = row /\ row.gen \in Nat
      /\ UNCHANGED <<held, inForce, bodyFile, stateFile, unloaded>>
      /\ held \in Bodies /\ held.gen \in Nat /\ held.issued_at \in Nat /\ held.not_after \in Nat
  BY LoopType, OnlyUp DEF Send, Request, SyncInv, TypeOK, ServeTypeOK, Bodies
<1>1. mia'.pc = "waiting" /\ mia'.now = clock /\ mia'.call = t /\ mia'.body = NoBody
  BY <1>0 DEF Send, Loops
<1>2. task'[t].pc = "sent" /\ task'[t].have = Have
  BY <1>0, Blank DEF Send, Request, Locals, Idle
<1>3. held # NoBody => IsV2(held) /\ held.not_after = held.issued_at + TTL /\ held.issued_at <= clock
  BY DEF SyncInv, Holdings, Kept, TimeInv, HostTimes, Timed
<1>4. ServeTimes'
  BY ServeTimesStep DEF SyncInv, TimeInv
<1>5. HostTimes'
  BY <1>0, <1>1, BlankTimed DEF TimeInv, HostTimes
<1>6. FileOrder'
  BY <1>0, <1>1 DEF TimeInv, FileOrder, Outlives, Accepting
<1>7. Forced'
  BY <1>0, ForcedStays DEF TimeInv
<1>8. CallTimes'
  <2>1. Serves(task'[t], held, clock)
    BY <1>2 DEF Serves, Have, Wants
  <2> QED BY <1>0, <1>1, <1>3, <2>1 DEF CallTimes
<1>9. ForcedCall'
  <2>1. ASSUME ~ Wants(held, clock)
        PROVE  Covered \/ held.gen < row.gen
    <3>1. held # NoBody /\ clock < held.issued_at + TTL \div 2
      BY <1>0, <1>3, <2>1, ServeAssumption DEF Wants, PastHalfLife
    <3>2. ~ (clock > held.not_after)
      BY <1>0, <1>3, <3>1, ServeAssumption
    <3> QED BY <3>1, <3>2 DEF TimeInv, Forced
  <2>2. Ahead(t, held.gen + 1)'
    BY <1>2 DEF Ahead
  <2> QED BY <1>0, <1>1, <2>1, <2>2 DEF ForcedCall, Covered, Ahead
<1> QED BY <1>4, <1>5, <1>6, <1>7, <1>8, <1>9 DEF TimeInv

\* A body that is accepted outlives the state on disk.
LEMMA VerifyTimes ==
    ASSUME SyncInv, TimeInv, ServeInv', [ServeNext]_serveVars, Verify
    PROVE  TimeInv'
<1>1. CASE mia' = Resting
  BY <1>1, TimesRest DEF Verify
<1>2. CASE mia' = [Resting EXCEPT !.pc = "body", !.body = task[mia.call].reply]
  <2>1. PICK body : body = task[mia.call].reply
    OBVIOUS
  <2>2. /\ mia'.pc = "body" /\ mia'.body = body /\ mia.pc = "waiting" /\ mia.call \in Tasks
        /\ UNCHANGED <<held, inForce, bodyFile, stateFile, unloaded>>
    BY <1>2, <2>1, LoopType DEF Verify, Loops, SyncInv, TypeOK
  <2>3. /\ clock \in Nat /\ clock' = clock /\ row' = row /\ row.gen \in Nat
        /\ body \in Bodies /\ body.gen \in Nat /\ body.not_after \in Nat
        /\ held.gen \in Nat /\ held.not_after \in Nat
        /\ stateFile.gen \in Nat /\ stateFile.not_after \in Nat
    BY <2>1, <2>2, TaskFields, OnlyUp DEF Verify, Respond, SyncInv, TypeOK, Bodies
  <2>4. Admit(body, held, TRUE) /\ IsV2(body) /\ (held # NoBody => Outlives(body, held))
    <3>1. Admit(body, held, TRUE) /\ IsV2(body)
      BY <2>1, AnswerAdmitted DEF Verify
    <3>2. held # NoBody => Outlives(body, held)
      BY <2>1, <2>2 DEF Verify, TimeInv, CallTimes, Serves
    <3> QED BY <3>1, <3>2
  <2>5. stateFile # NoBody => Outlives(body, stateFile)
    <3> SUFFICES ASSUME stateFile # NoBody, body.gen = stateFile.gen
                 PROVE  body.not_after >= stateFile.not_after
      BY DEF Outlives
    <3>1. held # NoBody /\ Admit(held, stateFile, TRUE) /\ IsV2(held) /\ Outlives(held, stateFile)
      BY <2>2 DEF SyncInv, Files, Holdings, Kept, TimeInv, FileOrder
    <3>2. body.gen >= held.gen /\ held.gen >= stateFile.gen
      BY <2>4, <3>1 DEF Admit
    <3>3. held.gen = body.gen /\ held.gen = stateFile.gen
      BY <2>3, <3>2
    <3>4. body.not_after >= held.not_after /\ held.not_after >= stateFile.not_after
      BY <2>4, <3>1, <3>3 DEF Outlives
    <3> QED BY <2>3, <3>4
  <2>6. ServeTimes'
    BY ServeTimesStep DEF SyncInv, TimeInv
  <2>7. HostTimes'
    BY <2>1, <2>2, <2>3 DEF TimeInv, HostTimes, ServeTimes, TaskTimed
  <2>8. FileOrder'
    BY <2>2, <2>5 DEF TimeInv, FileOrder, Outlives
  <2>9. Forced'
    BY <2>2, <2>3, ForcedStays DEF TimeInv
  <2>10. CallTimes' /\ ForcedCall'
    BY <2>2 DEF CallTimes, ForcedCall
  <2> QED BY <2>6, <2>7, <2>8, <2>9, <2>10 DEF TimeInv
<1> QED BY <1>1, <1>2 DEF Verify

\* The two writes and the application of an accepted body.
LEMMA StoreTimes ==
    ASSUME SyncInv, TimeInv, ServeInv', [ServeNext]_serveVars, StoreBody \/ StoreState
    PROVE  TimeInv'
<1>0. /\ UNCHANGED <<clock, row, held, inForce, unloaded>> /\ mia.pc \in {"body", "state"}
      /\ clock \in Nat /\ row.gen \in Nat /\ mia \in Loops
  BY OnlyUp DEF StoreBody, StoreState, serveVars, SyncInv, TypeOK
<1>1. /\ mia'.body = mia.body /\ mia'.pc \in {"state", "apply"}
      /\ StoreBody => stateFile' = stateFile /\ bodyFile' \in {bodyFile, mia.body}
      /\ StoreState => bodyFile' = bodyFile /\ stateFile' \in {stateFile, mia.body} /\ mia'.pc = "apply"
  BY <1>0 DEF StoreBody, StoreState, Loops
<1>2. /\ mia.pc = "state" => bodyFile = mia.body
      /\ mia.body.not_after \in Nat
  BY <1>0 DEF SyncInv, Files, Loops, Bodies
<1>3. ServeTimes'
  BY ServeTimesStep DEF SyncInv, TimeInv
<1>4. HostTimes'
  BY <1>0, <1>1 DEF TimeInv, HostTimes
<1>5. FileOrder'
  <2>1. CASE StoreBody
    BY <1>0, <1>1, <2>1 DEF TimeInv, FileOrder, Outlives, Accepting
  <2>2. CASE StoreState
    <3>1. bodyFile' = mia.body
      BY <1>1, <1>2, <2>2 DEF StoreState
    <3>2. Outlives(mia.body, mia.body)
      BY <1>2 DEF Outlives
    <3>3. stateFile' # NoBody => Outlives(mia.body, stateFile')
      BY <1>0, <1>1, <2>2, <3>2 DEF TimeInv, FileOrder, Accepting
    <3> QED BY <1>1, <2>2, <3>1, <3>3 DEF FileOrder, Outlives
  <2> QED BY <2>1, <2>2
<1>6. Forced'
  BY <1>0, ForcedStays DEF TimeInv
<1>7. CallTimes' /\ ForcedCall'
  BY <1>1 DEF CallTimes, ForcedCall
<1> QED BY <1>3, <1>4, <1>5, <1>6, <1>7 DEF TimeInv

LEMMA ApplyTimes ==
    ASSUME SyncInv, TimeInv, ServeInv', [ServeNext]_serveVars, Apply
    PROVE  TimeInv'
<1>0. /\ UNCHANGED <<clock, row, bodyFile, stateFile>> /\ mia.pc = "apply"
      /\ held' = mia.body /\ inForce' = mia.body /\ mia'.pc = "idle" /\ mia'.body = NoBody
      /\ clock \in Nat /\ mia.body.not_after \in Nat
  BY OnlyUp, LoopType DEF Apply, serveVars, SyncInv, TypeOK, Loops, Bodies
<1>1. ServeTimes'
  BY ServeTimesStep DEF SyncInv, TimeInv
<1>2. HostTimes'
  BY <1>0, BlankTimed DEF TimeInv, HostTimes
<1>3. FileOrder'
  BY <1>0 DEF TimeInv, FileOrder, Outlives, Accepting
<1>4. Forced'
  BY <1>0 DEF Forced, Covered
<1>5. CallTimes' /\ ForcedCall'
  BY <1>0 DEF CallTimes, ForcedCall
<1> QED BY <1>1, <1>2, <1>3, <1>4, <1>5 DEF TimeInv

LEMMA LegacyTimes ==
    ASSUME SyncInv, TimeInv, ServeInv', [ServeNext]_serveVars, Legacy
    PROVE  TimeInv'
<1>0. /\ mia.pc = "waiting" /\ mia' = Resting /\ mia'.pc = "idle" /\ mia'.body = NoBody
      /\ UNCHANGED <<held, stateFile, unloaded>> /\ mia.now \in Nat
      /\ clock \in Nat /\ clock' \in Nat /\ clock <= clock'
  BY LoopType, OnlyUp DEF Legacy, SyncInv, TypeOK, Loops
<1>1. CASE UNCHANGED <<inForce, bodyFile>>
  BY <1>0, <1>1, TimesRest
<1>2. CASE held = NoBody /\ inForce' = V1Body(mia.now) /\ bodyFile' \in {bodyFile, inForce'}
  <2>1. stateFile = NoBody
    BY <1>0, <1>2 DEF SyncInv, Files
  <2>2. Timed(inForce', clock')
    BY <1>0, <1>2, LoopType, BlankTimed
  <2>3. ServeTimes'
    BY ServeTimesStep DEF SyncInv, TimeInv
  <2>4. HostTimes'
    BY <1>0, <1>2, <2>2, HostTimesLater, BlankTimed DEF TimeInv, HostTimes
  <2>5. FileOrder' /\ Forced' /\ CallTimes' /\ ForcedCall'
    BY <1>0, <1>2, <2>1 DEF FileOrder, Forced, CallTimes, ForcedCall
  <2> QED BY <2>3, <2>4, <2>5 DEF TimeInv
<1> QED BY <1>1, <1>2 DEF Legacy

\* A start puts the body file in force unless it does not load or has
\* expired; the state file is then expired too, or of an earlier generation.
LEMMA RestartTimes ==
    ASSUME SyncInv, TimeInv, ServeInv', [ServeNext]_serveVars, NEW readable \in BOOLEAN,
           NEW loads \in BOOLEAN, NEW hostKnown \in BOOLEAN,
           NEW fallback \in {NoBody, V1Body(clock)}, Restart(readable, loads, hostKnown, fallback)
    PROVE  TimeInv'
<1>0. /\ UNCHANGED <<clock, row, bodyFile>> /\ mia'.pc = "idle" /\ mia'.body = NoBody
      /\ held' = stateFile' /\ stateFile' \in {stateFile, NoBody}
      /\ clock \in Nat /\ row.gen \in Nat
      /\ stateFile \in Bodies /\ stateFile.gen \in Nat /\ stateFile.not_after \in Nat
      /\ bodyFile \in Bodies /\ bodyFile.gen \in Nat /\ bodyFile.not_after \in Nat
      /\ bodyFile.issued_at \in Nat
  BY OnlyUp, LoopType DEF Restart, serveVars, SyncInv, TypeOK, Bodies
<1>1. ServeTimes'
  BY ServeTimesStep DEF SyncInv, TimeInv
<1>2. HostTimes'
  BY <1>0, BlankTimed DEF TimeInv, HostTimes
<1>3. FileOrder'
  BY <1>0 DEF TimeInv, FileOrder, Outlives, Accepting
<1>4. Forced'
  <2> SUFFICES ASSUME stateFile' # NoBody
               PROVE  Covered' \/ stateFile.gen < row.gen \/ clock > stateFile.not_after
    BY <1>0 DEF Forced
  <2>1. /\ stateFile # NoBody /\ readable /\ stateFile' = stateFile /\ held' = stateFile
        /\ inForce' = LoadInForce(stateFile, loads, hostKnown, fallback)
    BY <1>0 DEF Restart
  <2>2. /\ bodyFile # NoBody /\ Admit(bodyFile, stateFile, TRUE) /\ IsV2(stateFile)
        /\ Outlives(bodyFile, stateFile)
    BY <2>1 DEF SyncInv, Files, BodyFileAdmitted, Holdings, Kept, TimeInv, FileOrder
  <2>3. bodyFile.gen >= stateFile.gen /\ IsV2(bodyFile)
    BY <2>1, <2>2 DEF Admit
  <2>4. bodyFile.gen <= row.gen
    BY <1>0, SignedBehind DEF SyncInv, Holdings
  <2>5. CASE bodyFile.gen # stateFile.gen
    BY <1>0, <2>3, <2>4, <2>5
  <2>6. CASE ~ loads
    <3>1. unloaded'
      BY <2>2, <2>6 DEF Restart
    <3>2. fallback # NoBody => ~ Admit(fallback, stateFile, hostKnown)
      BY <2>1, LoopType DEF Admit, IsV2, SyncInv, TypeOK, ServeTypeOK
    <3>3. inForce' = NoBody
      BY <2>1, <2>6, <3>2 DEF LoadInForce
    <3> QED BY <3>1, <3>3 DEF Covered
  <2>7. CASE bodyFile.gen = stateFile.gen /\ clock > bodyFile.not_after
    BY <1>0, <2>2, <2>7 DEF Outlives
  <2>8. CASE loads /\ bodyFile.gen = stateFile.gen /\ ~ (clock > bodyFile.not_after)
    <3>1. bodyFile.not_after = bodyFile.issued_at + TTL /\ bodyFile.issued_at <= clock
      BY <2>3 DEF TimeInv, HostTimes, Timed
    <3>2. InWindow(bodyFile, clock)
      BY <1>0, <2>8, <3>1, ServeAssumption, SyncAssumption DEF InWindow
    <3>3. inForce' = bodyFile
      BY <2>1, <2>2, <2>8, <3>2 DEF LoadInForce
    <3> QED BY <2>1, <2>2, <2>8, <3>3 DEF Covered, Outlives
  <2> QED BY <2>5, <2>6, <2>7, <2>8
<1>5. CallTimes' /\ ForcedCall'
  BY <1>0 DEF CallTimes, ForcedCall
<1> QED BY <1>1, <1>2, <1>3, <1>4, <1>5 DEF TimeInv

LEMMA TimeInvariant == Spec => []TimeInv
<1>1. Init => TimeInv
  <2> SUFFICES ASSUME Init PROVE TimeInv
    OBVIOUS
  <2>1. clock \in Nat /\ row.cached = NoBody /\ mia.pc = "idle" /\ mia.body = NoBody
    BY LoopType, BlankTimed DEF Init, ServeInit
  <2>2. ServeTimes
    BY <2>1, BlankTimed DEF Init, ServeInit, ServeTimes
  <2>3. HostTimes
    BY <2>1, BlankTimed DEF Init, HostTimes
  <2>4. FileOrder /\ CallTimes /\ Forced /\ ForcedCall
    BY <2>1 DEF Init, FileOrder, CallTimes, Forced, ForcedCall
  <2> QED BY <2>2, <2>3, <2>4 DEF TimeInv
<1>2. SyncInv /\ TimeInv /\ [Next]_vars => TimeInv'
  <2> SUFFICES ASSUME SyncInv, TimeInv, [Next]_vars PROVE TimeInv'
    OBVIOUS
  <2>1. [ServeNext]_serveVars
    BY ClusterStep DEF SyncInv
  <2>2. ServeInv'
    BY <2>1, ServeStep DEF SyncInv
  <2>3. CASE (Tick \/ Change \/ UNCHANGED serveVars) /\ UNCHANGED miaVars
    BY <2>1, <2>2, <2>3, ClusterTimes
  <2>4. ASSUME NEW t \in Tasks, Serve(t) /\ UNCHANGED miaVars PROVE TimeInv'
    BY <2>1, <2>2, <2>4, ClusterTimes
  <2>5. ASSUME NEW t \in Tasks, Unheard(t) PROVE TimeInv'
    BY <2>1, <2>2, <2>5, ClusterTimes DEF Unheard
  <2>6. CASE GiveUp \/ NotModified
    BY <2>1, <2>2, <2>6, TimesRest DEF GiveUp, NotModified
  <2>7. CASE Verify
    BY <2>1, <2>2, <2>7, VerifyTimes
  <2>8. CASE StoreBody \/ StoreState \/ Apply
    BY <2>1, <2>2, <2>8, StoreTimes, ApplyTimes
  <2>9. CASE Legacy
    BY <2>1, <2>2, <2>9, LegacyTimes
  <2> QED BY <2>1, <2>2, <2>3, <2>4, <2>5, <2>6, <2>7, <2>8, <2>9,
             SendTimes, RestartTimes, NextCases
<1> QED BY <1>1, <1>2, SyncInvariant, PTL DEF Spec

\* A host that is told to keep what it has does have it in force, for more
\* than half of its lifetime: whichever write failed, wherever the agent
\* stopped and started again, however long the call was on its way, and for
\* any number of calls it gave up before.  Only a host that found a body file
\* it could not load is told so with nothing in force, and then it holds the
\* state of that very generation, before its half-life (have_generation,
\* past_half_life, load_in_force, serve).
THEOREM NotModifiedInForce == Spec => []NotModifiedMeansInForce
<1>1. SyncInv /\ TimeInv => NotModifiedMeansInForce
  <2> SUFFICES ASSUME SyncInv, TimeInv, Unmodified
               PROVE  \/ AnsweredInForce
                      \/ /\ unloaded /\ inForce = NoBody
                         /\ held.gen = task[mia.call].gen
                         /\ ~ PastHalfLife(held, mia.now)
    BY DEF NotModifiedMeansInForce
  <2>1. PICK t \in Tasks : t = mia.call /\ task[t].pc = "answered"
    BY DEF SyncInv, TypeOK, Unmodified
  <2>2. ~ Wants(held, mia.now) /\ task[t].gen = held.gen
    BY <2>1 DEF TimeInv, CallTimes, Serves, Unmodified
  <2>3. /\ held.gen \in Nat /\ held.issued_at \in Nat /\ held.not_after \in Nat
        /\ inForce.not_after \in Nat /\ mia.now \in Nat
    BY DEF SyncInv, TypeOK, Bodies, Loops
  <2>4. Covered
    <3>1. ~ Ahead(t, held.gen + 1)
      BY <2>1, <2>2, <2>3 DEF Ahead
    <3> QED BY <2>1, <2>2, <3>1 DEF TimeInv, ForcedCall, Unmodified
  <2>5. held # NoBody /\ IsV2(held) /\ held.not_after = held.issued_at + TTL
    BY <2>2 DEF Wants, SyncInv, Holdings, Kept, TimeInv, HostTimes, Timed
  <2>6. mia.now < held.issued_at + TTL \div 2
    BY <2>2, <2>3, <2>5, ServeAssumption DEF Wants, PastHalfLife
  <2>7. held.not_after - mia.now > TTL \div 2
    BY <2>3, <2>5, <2>6, ServeAssumption
  <2>8. CASE inForce.gen = held.gen /\ inForce.not_after >= held.not_after
    BY <2>1, <2>2, <2>3, <2>7, <2>8, ServeAssumption DEF AnsweredInForce
  <2>9. CASE unloaded /\ inForce = NoBody
    BY <2>1, <2>2, <2>9 DEF Wants
  <2> QED BY <2>4, <2>8, <2>9 DEF Covered
<1> QED BY <1>1, SyncInvariant, TimeInvariant, PTL
=============================================================================

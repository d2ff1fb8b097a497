---------------------------- MODULE AuditDelivery ----------------------------
(***************************************************************************)
(* What forwarding audit events promises, whatever the spool file looks    *)
(* like: a bounded first-in first-out queue, delivered at least once.      *)
(*                                                                         *)
(* The queue has a durable copy that follows it, late when the disk fails, *)
(* and that the queue goes back to when the agent restarts.  Only the      *)
(* oldest waiting event is handed to CMIS; it leaves the queue when CMIS   *)
(* has answered for it or when newer events push it out.  A durable event  *)
(* disappears for no other reason, unless its file is moved aside whole.   *)
(***************************************************************************)
EXTENDS Naturals, Sequences, Functions

CONSTANTS
    Events,   \* what may be forwarded
    Cap       \* the queue's bound

VARIABLES
    queue,     \* events waiting, oldest first
    saved,     \* its durable copy
    aside,     \* events of files that were moved aside
    offered,   \* events taken up to be handed to CMIS
    log,       \* CMIS's log
    refused,   \* events CMIS refused for good
    gone       \* events pushed out of a full queue

vars == <<queue, saved, aside, offered, log, refused, gone>>

Answered == Range(log) \cup refused

Init ==
    /\ queue = <<>> /\ saved = <<>> /\ log = <<>>
    /\ aside = {} /\ offered = {} /\ refused = {} /\ gone = {}

\* A durable event stays durable until it is answered for, pushed out or set
\* aside.
Keeps == Range(saved) \ Range(saved') \subseteq Answered \cup gone' \cup aside'

\* The durable copy follows the queue, or lags behind it.
Saves ==
    /\ saved' \in Seq(Events)
    /\ \E moved \in {{}, Range(saved)} : aside' = aside \cup moved
    /\ Range(saved') \subseteq Range(saved) \cup Range(queue')
    /\ Keeps

\* The last n events of the queue are new; the oldest left if there were
\* too many.
Accept(n) ==
    LET all  == queue \o SubSeq(queue', Len(queue') - n + 1, Len(queue'))
        over == IF Len(all) > Cap THEN Len(all) - Cap ELSE 0
    IN  /\ queue' = SubSeq(all, over + 1, Len(all))
        /\ gone' = gone \cup Range(SubSeq(all, 1, over))
        /\ Saves
        /\ UNCHANGED <<offered, log, refused>>

Offer ==
    /\ queue # <<>>
    /\ offered' = offered \cup {Head(queue)}
    /\ UNCHANGED <<queue, saved, aside, log, refused, gone>>

\* CMIS appends an event it was handed, perhaps late, perhaps again.
Record(e) ==
    /\ e \in offered
    /\ log' = Append(log, e)
    /\ UNCHANGED <<queue, saved, aside, offered, refused, gone>>

Refuse(e) ==
    /\ e \in offered
    /\ refused' = refused \cup {e}
    /\ UNCHANGED <<queue, saved, aside, offered, log, gone>>

\* Only the oldest event leaves, and only once CMIS has answered for it.
Finish ==
    /\ queue # <<>> /\ Head(queue) \in Answered
    /\ queue' = Tail(queue)
    /\ Saves
    /\ UNCHANGED <<offered, log, refused, gone>>

\* The agent stops, perhaps while it makes room for new events and writes
\* them: what waits now is what was durable at that moment.
Stop ==
    /\ queue' = saved' /\ saved' \in Seq(Events) /\ Len(saved') <= Cap
    /\ \E n \in 0 .. Len(queue) : gone' = gone \cup Range(SubSeq(queue, 1, n))
    /\ (Range(saved') \ Range(saved)) \cap offered = {}
    /\ Keeps
    /\ UNCHANGED <<aside, offered, log, refused>>

\* It starts again with what is durable; a copy that cannot be read is
\* neither used nor lost.
Start ==
    /\ queue' \in {saved, <<>>}
    /\ Saves
    /\ UNCHANGED <<offered, log, refused, gone>>

Next ==
    \/ Offer \/ Finish \/ Stop \/ Start
    \/ \E e \in Events : Record(e) \/ Refuse(e)
    \/ \E n \in 1 .. Len(queue') : Accept(n)

Spec == Init /\ [][Next]_vars
=============================================================================

---------------------------- MODULE MCAppLedger ----------------------------
(* Instances of AppLedger: one lineage, the documents sent for it, and the  *)
(* terms and edits administrators choose from.                              *)
EXTENDS AppLedger, TLC

CONSTANTS l1, s1, s2, s3, u1, a1

MCSigner == [s \in Shas |-> "vendor"]

Sub(client, sha, protected, admin) ==
    [client |-> client, lin |-> l1, sha |-> sha, user |-> u1,
     protected |-> protected, admin |-> admin]

Auto(user, ttl) ==
    [user |-> user, path |-> "exact", policy |-> "auto", continuity |-> "anchored", ttl |-> ttl]

\* A binary an administrator registers or a host asks for, and two that
\* follow it.
IntakeSubmissions ==
    {Sub(1, s1, FALSE, a1), Sub(2, s1, FALSE, NoAdmin), Sub(3, s2, FALSE, NoAdmin),
     Sub(4, s3, FALSE, NoAdmin)}
IntakeTerms == {Auto("exact", Never)}

\* A binary an administrator registers on a protected path, and the one that
\* follows it, sent when the path is no longer protected.
ChangeSubmissions == {Sub(1, s1, TRUE, a1), Sub(2, s2, FALSE, NoAdmin)}
ChangeTerms == {Auto("exact", 1), [Auto("any", 1) EXCEPT !.policy = "manual"]}

NoEdit == [policy |-> Keep, continuity |-> Keep, ttl |-> KeepExpiry,
           narrowUser |-> FALSE, narrowPath |-> FALSE]
ChangeEdits == {[NoEdit EXCEPT !.ttl = 1], [NoEdit EXCEPT !.policy = "auto"]}

MCSymmetry == Permutations(RequestIds) \cup Permutations(ApprovalIds) \cup Permutations(Tasks)
=============================================================================

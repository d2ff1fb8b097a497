--------------------------- MODULE AdminAccounts ---------------------------
(***************************************************************************)
(* The administrator accounts of CMIS (F20): their state, their membership *)
(* of ferrogate-account-admins, their password and second factors, and the *)
(* single-use tokens that enrol them.  The store is replicated and every   *)
(* node may serve a call, so a call is three steps: the handler reads the  *)
(* rows it decides by, verifies the caller's second factor, and sends one  *)
(* transaction.  Rows change in between; what protects them is what the    *)
(* transaction itself checks.                                              *)
(*                                                                         *)
(* Sessions are the subject of AdminSignIn: here every active account may  *)
(* begin a call.  Passwords, seeds and names are abstracted to whether     *)
(* they are set.  row_version is compared with an earlier value only, so   *)
(* one bump stands for the several a transaction may make.                 *)
(***************************************************************************)
EXTENDS Integers, FiniteSets

CONSTANTS
    Accounts,                   \* the identifiers an account may get
    Tokens,                     \* the enrolment and bootstrap tokens
    Keys,                       \* the FIDO2 credentials
    Tasks,                      \* the calls in flight, on any node
    MAX_WEBAUTHN_CREDENTIALS,   \* FIDO2 credentials of one account
    MaxCalls                    \* bound: the calls of a behaviour

ASSUME AdminAccountsAssumption ==
    /\ MAX_WEBAUTHN_CREDENTIALS \in Nat \ {0}
    /\ MaxCalls \in Nat

VARIABLES
    account,        \* the rows of admin_accounts, with groups and credentials
    token,          \* the rows of admin_enrollment_tokens
    bootstrapped,   \* the setting admin_bootstrapped
    task,           \* what each call in flight is about to do
    calls,          \* the calls begun
    grants,         \* history: the completions each token wrote
    cleared         \* history: accounts whose factors a reset cleared last

vars == <<account, token, bootstrapped, task, calls, grants, cleared>>

States == {"none", "pending", "active", "disabled"}
Row == [state : States, member : BOOLEAN, password : BOOLEAN, totp : BOOLEAN,
        keys : SUBSET Keys, version : Nat]
NoRow == [state |-> "none", member |-> FALSE, password |-> FALSE, totp |-> FALSE,
          keys |-> {}, version |-> 0]

\* "superseded" and "redeemed" are both a used_at in the row.
TokenRow == [status : {"unissued", "live", "redeemed", "superseded"},
             for : SUBSET Accounts, expired : BOOLEAN]
Unissued == [status |-> "unissued", for |-> {}, expired |-> FALSE]
IsBootstrap(k) == token[k].for = {}

Idle == [op |-> "idle"]

Exists(a) == account[a].state # "none"
Active(a) == account[a].state = "active"
HoldsFactor(a) == account[a].totp \/ account[a].keys # {}

\* The active members of ferrogate-account-admins.
AccountAdmins == {a \in Accounts : Active(a) /\ account[a].member}
OtherAccountAdmin(a) == AccountAdmins \ {a} # {}

TypeOK ==
    /\ account \in [Accounts -> Row]
    /\ token \in [Tokens -> TokenRow]
    /\ bootstrapped \in BOOLEAN
    /\ calls \in 0..MaxCalls
    /\ grants \in [Tokens -> Nat]
    /\ cleared \subseteq Accounts
    /\ DOMAIN task = Tasks

-----------------------------------------------------------------------------
(* Beginning a call: the reads of the handler and its refusals.            *)

Begin(t, call) ==
    /\ task[t] = Idle
    /\ calls < MaxCalls
    /\ calls' = calls + 1
    /\ task' = [task EXCEPT ![t] = call]
    /\ UNCHANGED <<account, token, bootstrapped, grants, cleared>>

\* An administrator's call about another account: the permission of the
\* account administrators, and nobody acts on their own account.
AboutAnother(actor, target) ==
    /\ actor \in AccountAdmins
    /\ Exists(target)
    /\ actor # target

CreateAdminAccount(t, actor, member) ==
    /\ actor \in AccountAdmins
    /\ Begin(t, [op |-> "create", step |-> "proof", actor |-> actor, member |-> member])

\* The administrator sends the row version last listed.  A new display name
\* leaves the groups alone, and may be the actor's own.
UpdateAdminAccount(t, actor, target, member) ==
    LET demotes == account[target].member /\ ~member /\ Active(target) IN
    /\ \/ AboutAnother(actor, target)
       \/ actor = target /\ actor \in AccountAdmins /\ member
    /\ demotes => OtherAccountAdmin(target)
    /\ Begin(t, [op |-> "update", step |-> "proof", actor |-> actor, target |-> target,
                 member |-> member, expected |-> account[target].version,
                 guarded |-> demotes])

SetAdminAccountState(t, actor, target, wanted) ==
    LET removes == wanted = "disabled" /\ target \in AccountAdmins
        stored == IF wanted = "active" /\ ~account[target].password
                  THEN "pending" ELSE wanted IN
    /\ AboutAnother(actor, target)
    /\ removes => OtherAccountAdmin(target)
    /\ ~(wanted = "active" /\ account[target].state = "pending")
    /\ Begin(t, [op |-> "state", step |-> "proof", actor |-> actor, target |-> target,
                 stored |-> stored, guarded |-> removes])

ResetAdminCredentials(t, actor, target, password, mfa) ==
    /\ AboutAnother(actor, target)
    /\ password \/ mfa
    /\ account[target].state # "disabled"
    /\ mfa \/ account[target].totp
    /\ Begin(t, [op |-> "reset", step |-> "proof", actor |-> actor, target |-> target,
                 password |-> password, mfa |-> mfa])

ChangePassword(t, actor) ==
    /\ Active(actor)
    /\ account[actor].password
    /\ Begin(t, [op |-> "password", step |-> "proof", actor |-> actor])

\* A factor is "totp" or a FIDO2 credential.
Factors == {"totp"} \cup Keys
Held(a) == (IF account[a].totp THEN {"totp"} ELSE {}) \cup account[a].keys

CompleteAddFactor(t, actor, factor) ==
    /\ Active(actor)
    /\ Begin(t, [op |-> "add", step |-> "proof", actor |-> actor, factor |-> factor])

RemoveFactor(t, actor, factor) ==
    /\ Active(actor)
    /\ factor \in Held(actor)
    /\ Cardinality(Held(actor)) > 1
    /\ Begin(t, [op |-> "remove", step |-> "proof", actor |-> actor, factor |-> factor])

\* The second factor of the caller, read again when it is verified.  A wrong
\* proof, or an account that holds no factor any more, ends the call.
VerifyProof(t) ==
    /\ task[t] # Idle
    /\ task[t].step = "proof"
    /\ \/ /\ HoldsFactor(task[t].actor)
          /\ task' = [task EXCEPT ![t].step = "write"]
       \/ task' = [task EXCEPT ![t] = Idle]
    /\ UNCHANGED <<account, token, bootstrapped, calls, grants, cleared>>

LiveToken(k) == token[k].status = "live" /\ ~token[k].expired

\* The holder of a token: which credentials are missing is decided by the
\* account as it is read here.  A password-only reset proves the old TOTP.
CompleteEnroll(t, k, useTotp, useKeys) ==
    \E a \in token[k].for :
        LET needsFactor == ~HoldsFactor(a) IN
        /\ LiveToken(k)
        /\ account[a].state # "disabled"
        /\ IF needsFactor THEN useTotp \/ useKeys # {}
           ELSE account[a].totp /\ ~useTotp /\ useKeys = {}
        /\ Begin(t, [op |-> "enroll", step |-> "write", target |-> a, token |-> k,
                     password |-> ~account[a].password, totp |-> useTotp, keys |-> useKeys])

NoAccounts == \A a \in Accounts : ~Exists(a)

CompleteBootstrap(t, k) ==
    /\ LiveToken(k)
    /\ IsBootstrap(k)
    /\ ~bootstrapped
    /\ NoAccounts
    /\ Begin(t, [op |-> "bootstrap", step |-> "write", token |-> k])

\* A leader that starts; leadership may have moved before it inserts.
Arm(t) ==
    /\ ~bootstrapped
    /\ NoAccounts
    /\ \A k \in Tokens : ~(LiveToken(k) /\ IsBootstrap(k))
    /\ Begin(t, [op |-> "arm", step |-> "write"])

-----------------------------------------------------------------------------
(* The transactions.                                                       *)

Writing(t, op) ==
    /\ task[t].op = op
    /\ task[t].step = "write"
    /\ task' = [task EXCEPT ![t] = Idle]
    /\ UNCHANGED calls

\* The transaction changed no row, or was rolled back.
NothingWritten == UNCHANGED <<account, token, bootstrapped, grants, cleared>>

Bumped(row) == [row EXCEPT !.version = @ + 1]

\* The unredeemed tokens of an account can no longer be redeemed.
Superseded(tokens, a) ==
    [k \in Tokens |-> IF tokens[k].status = "live" /\ tokens[k].for = {a}
                      THEN [tokens[k] EXCEPT !.status = "superseded"] ELSE tokens[k]]
Issued(tokens, k, for) == [tokens EXCEPT ![k] = [status |-> "live", for |-> for, expired |-> FALSE]]

\* A mutant of OtherAdminInStatement: the handler's check alone.
OtherAdminAtRead(call) == TRUE

\* The condition every guarded account write carries.
OtherAdminInStatement(call) == call.guarded => OtherAccountAdmin(call.target)

admin_create_account(t) ==
    /\ Writing(t, "create")
    /\ \E a \in Accounts, k \in Tokens :
        /\ ~Exists(a)
        /\ token[k] = Unissued
        /\ account' = [account EXCEPT ![a] =
               [NoRow EXCEPT !.state = "pending", !.member = task[t].member, !.version = 1]]
        /\ token' = Issued(token, k, {a})
        /\ UNCHANGED <<bootstrapped, grants, cleared>>

admin_update_account(t) ==
    LET call == task[t] IN
    /\ Writing(t, "update")
    /\ IF account[call.target].version = call.expected /\ OtherAdminInStatement(call)
       THEN /\ account' = [account EXCEPT ![call.target] = Bumped([@ EXCEPT !.member = call.member])]
            /\ UNCHANGED <<token, bootstrapped, grants, cleared>>
       ELSE NothingWritten

admin_set_account_state(t) ==
    LET call == task[t] IN
    /\ Writing(t, "state")
    /\ account' = IF OtherAdminInStatement(call)
                  THEN [account EXCEPT ![call.target] = Bumped([@ EXCEPT !.state = call.stored])]
                  ELSE account
    \* The second statement looks at the row the first one left.
    /\ token' = IF account'[call.target].state = "disabled"
                THEN Superseded(token, call.target) ELSE token
    /\ UNCHANGED <<bootstrapped, grants, cleared>>

admin_reset_credentials(t) ==
    LET call == task[t]
        row == account[call.target] IN
    /\ Writing(t, "reset")
    /\ \E k \in Tokens :
        /\ token[k] = Unissued
        /\ token' = Issued(Superseded(token, call.target), k, {call.target})
        /\ account' = [account EXCEPT ![call.target] = Bumped(
               [row EXCEPT !.password = @ /\ ~call.password,
                           !.totp = @ /\ ~call.mfa,
                           !.keys = IF call.mfa THEN {} ELSE @])]
        /\ cleared' = IF call.mfa THEN cleared \cup {call.target} ELSE cleared
        /\ UNCHANGED <<bootstrapped, grants>>

admin_change_password(t) ==
    /\ Writing(t, "password")
    /\ account' = [account EXCEPT ![task[t].actor] = Bumped([@ EXCEPT !.password = TRUE])]
    /\ UNCHANGED <<token, bootstrapped, grants, cleared>>

\* A credential belongs to one account (UNIQUE).
Registered(key) == \E a \in Accounts : key \in account[a].keys
BelowCap(a) == Cardinality(account[a].keys) < MAX_WEBAUTHN_CREDENTIALS

admin_add_factor(t) ==
    LET a == task[t].actor
        f == task[t].factor IN
    /\ Writing(t, "add")
    /\ \/ /\ f = "totp"
          /\ IF Active(a) /\ ~account[a].totp
             THEN /\ account' = [account EXCEPT ![a] = Bumped([@ EXCEPT !.totp = TRUE])]
                  /\ UNCHANGED <<token, bootstrapped, grants, cleared>>
             ELSE NothingWritten
       \/ /\ f \in Keys
          /\ IF ~Registered(f) /\ BelowCap(a)
             THEN /\ account' = [account EXCEPT ![a].keys = @ \cup {f}]
                  /\ UNCHANGED <<token, bootstrapped, grants, cleared>>
             ELSE NothingWritten

\* A mutant of AnotherFactorRemains: the handler's count alone.
AnotherFactorAtRead(a, f) == TRUE

\* What the removing statements check besides the row they name.
AnotherFactorRemains(a, f) == Held(a) \ {f} # {}

admin_remove_factor(t) ==
    LET a == task[t].actor
        f == task[t].factor IN
    /\ Writing(t, "remove")
    /\ \/ /\ f = "totp"
          /\ IF account[a].totp /\ AnotherFactorRemains(a, f)
             THEN /\ account' = [account EXCEPT ![a] = Bumped([@ EXCEPT !.totp = FALSE])]
                  /\ UNCHANGED <<token, bootstrapped, grants, cleared>>
             ELSE NothingWritten
       \/ /\ f \in Keys
          /\ IF f \in account[a].keys /\ AnotherFactorRemains(a, f)
             THEN /\ account' = [account EXCEPT ![a].keys = @ \ {f}]
                  /\ UNCHANGED <<token, bootstrapped, grants, cleared>>
             ELSE NothingWritten

\* A mutant of TokenLiveInStatement: the handler's look at the token alone.
TokenLiveAtRead(k) == TRUE

\* The condition of every statement of a completion.  Its clock was read
\* with the token, so a token that expired since still counts as live.
TokenLiveInStatement(k) == token[k].status = "live"

Redeemed(k) == [token EXCEPT ![k].status = "redeemed"]
Granted(k) == [grants EXCEPT ![k] = @ + 1]

admin_complete_enrollment(t) ==
    LET call == task[t]
        a == call.target
        row == account[a]
        activated == IF row.state \in {"pending", "active"} THEN "active" ELSE row.state IN
    /\ Writing(t, "enroll")
    /\ IF TokenLiveInStatement(call.token) /\ ~\E key \in call.keys : Registered(key)
       THEN /\ account' = [account EXCEPT ![a] = Bumped(
                   [row EXCEPT !.password = @ \/ call.password,
                               !.totp = @ \/ call.totp,
                               !.keys = IF BelowCap(a) THEN @ \cup call.keys ELSE @,
                               !.state = activated])]
            /\ token' = Redeemed(call.token)
            /\ grants' = Granted(call.token)
            /\ cleared' = cleared \ {a}
            /\ UNCHANGED bootstrapped
       ELSE NothingWritten

admin_bootstrap_account(t) ==
    LET k == task[t].token IN
    /\ Writing(t, "bootstrap")
    /\ \E a \in Accounts :
        /\ ~Exists(a)
        /\ IF TokenLiveInStatement(k)
           THEN /\ account' = [account EXCEPT ![a] =
                       [state |-> "active", member |-> TRUE, password |-> TRUE,
                        totp |-> TRUE, keys |-> {}, version |-> 1]]
                /\ token' = [token EXCEPT ![k].status = "redeemed", ![k].for = {a}]
                /\ bootstrapped' = TRUE
                /\ grants' = Granted(k)
                /\ UNCHANGED cleared
           ELSE NothingWritten

admin_insert_enrollment_token(t) ==
    /\ Writing(t, "arm")
    /\ \E k \in Tokens :
        /\ token[k] = Unissued
        /\ token' = Issued(token, k, {})
    /\ UNCHANGED <<account, bootstrapped, grants, cleared>>

\* The lifetime of a token ends.
Expire(k) ==
    /\ LiveToken(k)
    /\ token' = [token EXCEPT ![k].expired = TRUE]
    /\ UNCHANGED <<account, bootstrapped, task, calls, grants, cleared>>

-----------------------------------------------------------------------------
\* A cluster is empty, or its administrators were bootstrapped and enrolled.
Init ==
    /\ \E admins \in SUBSET Accounts, keys \in SUBSET Keys :
        /\ account = [a \in Accounts |->
               IF a \in admins
               THEN [state |-> "active", member |-> TRUE, password |-> TRUE, totp |-> TRUE,
                     keys |-> IF admins = {a} /\ Cardinality(keys) <= MAX_WEBAUTHN_CREDENTIALS
                              THEN keys ELSE {}, version |-> 1]
               ELSE NoRow]
        /\ bootstrapped = (admins # {})
    /\ token = [k \in Tokens |-> Unissued]
    /\ task = [t \in Tasks |-> Idle]
    /\ calls = 0
    /\ grants = [k \in Tokens |-> 0]
    /\ cleared = {}

BeginCall(t) ==
    \/ \E actor \in Accounts, member \in BOOLEAN : CreateAdminAccount(t, actor, member)
    \/ \E actor, target \in Accounts :
        \/ \E member \in BOOLEAN : UpdateAdminAccount(t, actor, target, member)
        \/ \E wanted \in {"active", "disabled"} : SetAdminAccountState(t, actor, target, wanted)
        \/ \E password, mfa \in BOOLEAN : ResetAdminCredentials(t, actor, target, password, mfa)
    \/ \E actor \in Accounts :
        \/ ChangePassword(t, actor)
        \/ \E f \in Factors : CompleteAddFactor(t, actor, f) \/ RemoveFactor(t, actor, f)
    \/ \E k \in Tokens :
        \/ \E useTotp \in BOOLEAN, useKeys \in {{}} \cup {{key} : key \in Keys} :
            CompleteEnroll(t, k, useTotp, useKeys)
        \/ CompleteBootstrap(t, k)
    \/ Arm(t)

EndCall(t) ==
    \/ admin_create_account(t)
    \/ admin_update_account(t)
    \/ admin_set_account_state(t)
    \/ admin_reset_credentials(t)
    \/ admin_change_password(t)
    \/ admin_add_factor(t)
    \/ admin_remove_factor(t)
    \/ admin_complete_enrollment(t)
    \/ admin_bootstrap_account(t)
    \/ admin_insert_enrollment_token(t)

Next ==
    \/ \E t \in Tasks : BeginCall(t) \/ VerifyProof(t) \/ EndCall(t)
    \/ \E k \in Tokens : Expire(k)

Spec == Init /\ [][Next]_vars

-----------------------------------------------------------------------------
\* No write that asked for the guard of rule 4, and no group change at all,
\* takes the last active account administrator away, whatever other calls
\* wrote since it read the account (admin_set_account_state,
\* admin_update_account).  Only a state change whose handler did not find an
\* active account administrator can.
LastAdminGuarded ==
    [][(AccountAdmins # {} /\ AccountAdmins' = {}) =>
        \E t \in Tasks : /\ task[t].op = "state"
                         /\ ~task[t].guarded
                         /\ task'[t] = Idle]_vars

\* Concurrent removals never leave an active account without a second factor:
\* it has none only after a reset that cleared them, until an enrolment is
\* completed (admin_remove_totp, admin_remove_webauthn_credential).
FactorKept == \A a \in Accounts : Active(a) /\ ~HoldsFactor(a) => a \in cleared

\* A token writes credentials once, however many completions read it live,
\* and never after a reset or a disabling superseded it
\* (admin_complete_enrollment, admin_bootstrap_account).
TokensSingleUse ==
    \A k \in Tokens : grants[k] <= IF token[k].status = "redeemed" THEN 1 ELSE 0

\* Rule 4 as it is stated: once there is an active account administrator
\* there always is one.  The code does not keep it (see the README).
AccountAdminRemains == bootstrapped => AccountAdmins # {}
=============================================================================

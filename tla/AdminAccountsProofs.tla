------------------------- MODULE AdminAccountsProofs -------------------------
(***************************************************************************)
(* Proofs about AdminAccounts, for any accounts, tokens, FIDO2 credentials, *)
(* calls in flight and bounds.                                              *)
(***************************************************************************)
EXTENDS AdminAccounts, FiniteSetTheorems, TLAPS

-----------------------------------------------------------------------------
(* The invariant                                                           *)

\* An account that has a factor, or lost its factors to a reset.
Sound(a) == HoldsFactor(a) \/ a \in cleared

ByActor == {"create", "update", "state", "reset", "password", "add", "remove"}
OnTarget == {"update", "state", "reset", "enroll"}

\* What a call in flight holds, by its operation.
CallOK(c) ==
    /\ c = Idle \/ c.op \in ByActor \cup {"enroll", "bootstrap", "arm"}
    /\ c.op \in ByActor => c.actor \in Accounts /\ Exists(c.actor)
    /\ c.op \in OnTarget => c.target \in Accounts /\ Exists(c.target)
    /\ c.op = "create" => c.member \in BOOLEAN
    /\ c.op = "update" => c.member \in BOOLEAN /\ c.guarded \in BOOLEAN /\ c.expected \in Nat
    /\ c.op = "state" => c.stored \in {"pending", "active", "disabled"} /\ c.guarded \in BOOLEAN
    /\ c.op = "reset" => c.password \in BOOLEAN /\ c.mfa \in BOOLEAN
    /\ c.op = "enroll" => /\ c.token \in Tokens /\ c.password \in BOOLEAN
                          /\ c.totp \in BOOLEAN /\ c.keys \in SUBSET Keys
    /\ c.op = "bootstrap" => c.token \in Tokens

\* A call that will activate an account or set its password read it with a
\* factor, or after a reset had cleared them.
ActivatesSound(c) ==
    /\ c.op = "state" /\ c.stored = "active" => Sound(c.target)
    /\ c.op = "password" => Sound(c.actor)

\* A completion whose token is still live brings a factor unless the account
\* holds one: what could have taken it away would have superseded the token.
EnrolsSound(c) ==
    c.op = "enroll" =>
        /\ token[c.token].status # "unissued"
        /\ token[c.token].status = "live" =>
              /\ token[c.token].for = {c.target}
              /\ c.totp \/ c.keys # {} \/ HoldsFactor(c.target)

\* A group change asked for the guard if it demotes the row it read, and the
\* version it read is not ahead of the row's.
UpdatesAsRead(c) ==
    c.op = "update" =>
        /\ c.expected <= account[c.target].version
        /\ c.expected = account[c.target].version =>
              (c.guarded <=> account[c.target].member /\ ~c.member /\ Active(c.target))

Good(c) == CallOK(c) /\ ActivatesSound(c) /\ EnrolsSound(c) /\ UpdatesAsRead(c)

CallsOK == \A t \in Tasks : Good(task[t])

\* Rows that are not there, and rows with something to sign in by.
RowsOK ==
    \A a \in Accounts :
        /\ ~Exists(a) => ~HoldsFactor(a) /\ a \notin cleared /\ ~account[a].password
        /\ Active(a) \/ account[a].password => Sound(a)

\* A token is for one account, or for the bootstrap; an unissued one was
\* never used.
TokensOK ==
    \A k \in Tokens :
        /\ token[k].for = {} \/ \E a \in Accounts : token[k].for = {a} /\ Exists(a)
        /\ token[k].status = "unissued" => token[k] = Unissued

Inv == TypeOK /\ RowsOK /\ TokensOK /\ CallsOK /\ TokensSingleUse

-----------------------------------------------------------------------------
(* Rows and calls                                                          *)

LEMMA RowFields ==
    ASSUME TypeOK, NEW a \in Accounts
    PROVE  /\ account[a] \in Row
           /\ account[a].state \in States /\ account[a].member \in BOOLEAN
           /\ account[a].password \in BOOLEAN /\ account[a].totp \in BOOLEAN
           /\ account[a].keys \in SUBSET Keys /\ account[a].version \in Nat
<1>1. account[a] \in Row
  BY DEF TypeOK
<1> QED BY <1>1 DEF Row

LEMMA TokenFields ==
    ASSUME TypeOK, NEW k \in Tokens
    PROVE  /\ token[k] \in TokenRow
           /\ token[k].status \in {"unissued", "live", "redeemed", "superseded"}
           /\ token[k].for \in SUBSET Accounts /\ token[k].expired \in BOOLEAN
           /\ grants[k] \in Nat
<1>1. token[k] \in TokenRow
  BY DEF TypeOK
<1> QED BY <1>1 DEF TokenRow, TypeOK

\* What a transaction keeps of everything a call may have read: no account
\* disappears or loses its factors but to a reset, a row that changes its
\* state or groups changes its version, no token comes back to life, and no
\* token of an account that lost its factors stays live.
Stable ==
    /\ \A a \in Accounts : Exists(a) =>
          /\ Exists(a)'
          /\ Sound(a) => Sound(a)'
          /\ account'[a].version >= account[a].version
          /\ account'[a].version = account[a].version =>
                account'[a].state = account[a].state /\ account'[a].member = account[a].member
    /\ \A k \in Tokens : token'[k].status = "live" /\ token[k].status # "unissued" =>
          /\ token[k].status = "live" /\ token'[k].for = token[k].for
          /\ \A a \in Accounts : token[k].for = {a} /\ HoldsFactor(a) => HoldsFactor(a)'
    /\ \A k \in Tokens : token[k].status # "unissued" => token'[k].status # "unissued"

\* A call that is in flight over such a step still holds what it held.
LEMMA CallStable ==
    ASSUME TypeOK, TypeOK', Stable, NEW t \in Tasks, task'[t] = task[t], Good(task[t])
    PROVE  Good(task[t])'
<1> USE DEF Stable, Good
<1>1. CallOK(task[t])'
  BY DEF CallOK, ByActor, OnTarget
<1>2. ActivatesSound(task[t])'
  BY DEF CallOK, ByActor, OnTarget, ActivatesSound
<1>3. EnrolsSound(task[t])'
  BY DEF CallOK, OnTarget, EnrolsSound
<1>4. UpdatesAsRead(task[t])'
  <2> SUFFICES ASSUME task[t].op = "update"
               PROVE  /\ task[t].expected <= account'[task[t].target].version
                      /\ task[t].expected = account'[task[t].target].version =>
                           (task[t].guarded <=> /\ account'[task[t].target].member
                                                /\ ~task[t].member /\ Active(task[t].target)')
    BY DEF UpdatesAsRead
  <2>1. task[t].target \in Accounts /\ Exists(task[t].target) /\ task[t].expected \in Nat
    BY DEF CallOK, OnTarget
  <2>2. account[task[t].target].version \in Nat /\ account'[task[t].target].version \in Nat
    BY <2>1, RowFields DEF TypeOK, Row
  <2> QED BY <2>1, <2>2 DEF UpdatesAsRead, Active
<1> QED BY <1>1, <1>2, <1>3, <1>4

\* No call is in flight where t is idle.
LEMMA IdleGood == Good(Idle)
BY DEF Good, Idle, CallOK, ActivatesSound, EnrolsSound, UpdatesAsRead, ByActor, OnTarget

\* The calls in flight after a step that ends the call of t.
LEMMA CallsEnd ==
    ASSUME Inv, TypeOK', Stable, NEW t \in Tasks, task' = [task EXCEPT ![t] = Idle]
    PROVE  CallsOK'
<1>1. ASSUME NEW u \in Tasks, u # t
      PROVE  Good(task[u])'
  BY <1>1, CallStable DEF Inv, CallsOK, TypeOK
<1>2. task'[t] = Idle
  BY DEF Inv, TypeOK
<1>3. Good(task[t])'
  BY <1>2 DEF Good, Idle, CallOK, ActivatesSound, EnrolsSound, UpdatesAsRead, ByActor, OnTarget
<1> QED BY <1>1, <1>3 DEF CallsOK

\* A step that leaves the rows alone and gives t a call that holds what it
\* should.
LEMMA CallsBegin ==
    ASSUME Inv, NEW t \in Tasks, NEW call, task' = [task EXCEPT ![t] = call],
           UNCHANGED <<account, token, bootstrapped, grants, cleared>>, calls' \in 0 .. MaxCalls,
           Good(call)
    PROVE  Inv'
<1>1. TypeOK'
  BY DEF Inv, TypeOK
<1>2. RowsOK' /\ TokensOK' /\ TokensSingleUse'
  BY DEF Inv, RowsOK, TokensOK, TokensSingleUse, Exists, Active, HoldsFactor, Sound
<1>3. Stable
  BY RowFields DEF Inv, Stable, Exists, HoldsFactor, Sound
<1>4. ASSUME NEW u \in Tasks, u # t
      PROVE  Good(task[u])'
  BY <1>1, <1>3, <1>4, CallStable DEF Inv, CallsOK, TypeOK
<1>5. task'[t] = call
  BY DEF Inv, TypeOK
<1>6. Good(task[t])'
  BY <1>5 DEF Good, CallOK, ActivatesSound, EnrolsSound, UpdatesAsRead, Exists, Active, HoldsFactor, Sound
<1> QED BY <1>1, <1>2, <1>4, <1>6 DEF Inv, CallsOK

LEMMA BeginGood ==
    ASSUME Inv, NEW t \in Tasks, NEW call, Begin(t, call), Good(call)
    PROVE  Inv'
<1>1. calls' \in 0 .. MaxCalls
  BY AdminAccountsAssumption DEF Begin, Inv, TypeOK
<1> QED BY <1>1, CallsBegin DEF Begin

-----------------------------------------------------------------------------
(* Beginning a call                                                        *)

LEMMA BeginStep ==
    ASSUME Inv, NEW t \in Tasks, BeginCall(t)
    PROVE  Inv'
<1> USE DEF Inv, Good, CallOK, ActivatesSound, EnrolsSound, UpdatesAsRead, ByActor, OnTarget
<1>1. ASSUME NEW actor \in Accounts, NEW member \in BOOLEAN, CreateAdminAccount(t, actor, member)
      PROVE  Inv'
  <2> DEFINE call == [op |-> "create", step |-> "proof", actor |-> actor, member |-> member]
  <2>1. Good(call)
    BY <1>1 DEF CreateAdminAccount, AccountAdmins, Active, Exists, Idle
  <2> QED BY <1>1, <2>1, BeginGood DEF CreateAdminAccount
<1>2. ASSUME NEW actor \in Accounts, NEW target \in Accounts, NEW member \in BOOLEAN,
             UpdateAdminAccount(t, actor, target, member)
      PROVE  Inv'
  <2> DEFINE demotes == account[target].member /\ ~member /\ Active(target)
             call == [op |-> "update", step |-> "proof", actor |-> actor, target |-> target,
                      member |-> member, expected |-> account[target].version,
                      guarded |-> demotes]
  <2>1. Begin(t, call) /\ Exists(target) /\ Exists(actor)
    BY <1>2 DEF UpdateAdminAccount, AboutAnother, AccountAdmins, Active, Exists
  <2>2. account[target].version \in Nat /\ demotes \in BOOLEAN
    BY RowFields DEF Active
  <2>3. CallOK(call) /\ ActivatesSound(call) /\ EnrolsSound(call)
    BY <2>1, <2>2 DEF Idle
  <2>4. call.guarded = demotes /\ call.member = member /\ call.target = target
        /\ call.expected = account[target].version
    OBVIOUS
  <2>5. UpdatesAsRead(call)
    <3>1. call.expected <= account[call.target].version
      BY <2>2, <2>4
    <3>2. call.guarded <=> account[call.target].member /\ ~call.member /\ Active(call.target)
      <4> HIDE DEF call
      <4> QED BY <2>4, Zenon
    <3> HIDE DEF call
    <3> QED BY <3>1, <3>2, Zenon DEF UpdatesAsRead
  <2>6. Good(call)
    BY <2>3, <2>5
  <2> HIDE DEF call, Good, Inv
  <2> QED BY <2>1, <2>6, BeginGood
<1>3. ASSUME NEW actor \in Accounts, NEW target \in Accounts, NEW wanted \in {"active", "disabled"},
             SetAdminAccountState(t, actor, target, wanted)
      PROVE  Inv'
  <2> DEFINE removes == wanted = "disabled" /\ target \in AccountAdmins
             stored == IF wanted = "active" /\ ~account[target].password THEN "pending" ELSE wanted
             call == [op |-> "state", step |-> "proof", actor |-> actor, target |-> target,
                      stored |-> stored, guarded |-> removes]
  <2>1. Begin(t, call) /\ Exists(target) /\ Exists(actor)
    BY <1>3 DEF SetAdminAccountState, AboutAnother, AccountAdmins, Active, Exists
  <2>2. stored = "active" => Sound(target)
    BY RowFields DEF RowsOK
  <2>3. Good(call)
    BY <2>1, <2>2 DEF Idle
  <2> HIDE DEF call, Good, Inv
  <2> QED BY <2>1, <2>3, BeginGood
<1>4. ASSUME NEW actor \in Accounts, NEW target \in Accounts, NEW password \in BOOLEAN,
             NEW mfa \in BOOLEAN, ResetAdminCredentials(t, actor, target, password, mfa)
      PROVE  Inv'
  <2> DEFINE call == [op |-> "reset", step |-> "proof", actor |-> actor, target |-> target,
                      password |-> password, mfa |-> mfa]
  <2>1. Begin(t, call) /\ Exists(target) /\ Exists(actor)
    BY <1>4 DEF ResetAdminCredentials, AboutAnother, AccountAdmins, Active, Exists
  <2>2. Good(call)
    BY <2>1 DEF Idle
  <2> QED BY <2>1, <2>2, BeginGood
<1>5. ASSUME NEW actor \in Accounts, ChangePassword(t, actor)
      PROVE  Inv'
  <2> DEFINE call == [op |-> "password", step |-> "proof", actor |-> actor]
  <2>1. Begin(t, call) /\ Exists(actor) /\ Sound(actor)
    BY <1>5 DEF ChangePassword, Active, Exists, RowsOK
  <2>2. Good(call)
    BY <2>1 DEF Idle
  <2> QED BY <2>1, <2>2, BeginGood
<1>6. ASSUME NEW actor \in Accounts, NEW f \in Factors,
             CompleteAddFactor(t, actor, f) \/ RemoveFactor(t, actor, f)
      PROVE  Inv'
  <2>1. PICK op \in {"add", "remove"} :
            Begin(t, [op |-> op, step |-> "proof", actor |-> actor, factor |-> f])
    BY <1>6 DEF CompleteAddFactor, RemoveFactor
  <2>2. Exists(actor)
    BY <1>6 DEF CompleteAddFactor, RemoveFactor, Active, Exists
  <2>3. Good([op |-> op, step |-> "proof", actor |-> actor, factor |-> f])
    BY <2>2 DEF Idle
  <2> QED BY <2>1, <2>3, BeginGood
<1>7. ASSUME NEW k \in Tokens, NEW useTotp \in BOOLEAN, NEW useKeys \in SUBSET Keys,
             CompleteEnroll(t, k, useTotp, useKeys)
      PROVE  Inv'
  <2>1. PICK a \in token[k].for :
           /\ LiveToken(k)
           /\ ~HoldsFactor(a) => useTotp \/ useKeys # {}
           /\ Begin(t, [op |-> "enroll", step |-> "write", target |-> a, token |-> k,
                        password |-> ~account[a].password, totp |-> useTotp, keys |-> useKeys])
    BY <1>7 DEF CompleteEnroll
  <2> DEFINE call == [op |-> "enroll", step |-> "write", target |-> a, token |-> k,
                      password |-> ~account[a].password, totp |-> useTotp, keys |-> useKeys]
  <2>2. a \in Accounts /\ token[k].for = {a} /\ Exists(a) /\ token[k].status = "live"
    BY <2>1 DEF TokensOK, LiveToken
  <2>3. (~account[a].password) \in BOOLEAN
    OBVIOUS
  <2>4. Good(call)
    BY <2>1, <2>2, <2>3 DEF Idle
  <2>5. Begin(t, call)
    BY <2>1
  <2> HIDE DEF call, Good, Inv
  <2> QED BY <2>4, <2>5, BeginGood
<1>8. ASSUME NEW k \in Tokens, CompleteBootstrap(t, k)
      PROVE  Inv'
  <2>1. Good([op |-> "bootstrap", step |-> "write", token |-> k])
    BY DEF Idle
  <2> QED BY <1>8, <2>1, BeginGood DEF CompleteBootstrap
<1>9. ASSUME Arm(t)
      PROVE  Inv'
  <2>1. Good([op |-> "arm", step |-> "write"])
    BY DEF Idle
  <2> QED BY <1>9, <2>1, BeginGood DEF Arm
<1>10. \A key \in Keys : {key} \in SUBSET Keys
  OBVIOUS
<1>11. ASSUME NEW k \in Tokens, NEW useTotp \in BOOLEAN,
              NEW useKeys \in {{}} \cup {{key} : key \in Keys}, CompleteEnroll(t, k, useTotp, useKeys)
       PROVE  Inv'
  <2>1. useKeys \in SUBSET Keys
    OBVIOUS
  <2> QED BY <1>7, <1>11, <2>1
<1> HIDE DEF Inv, Good, CallOK, ActivatesSound, EnrolsSound, UpdatesAsRead, ByActor, OnTarget
<1> QED BY <1>1, <1>2, <1>3, <1>4, <1>5, <1>6, <1>8, <1>9, <1>11 DEF BeginCall

LEMMA ProofStep ==
    ASSUME Inv, NEW t \in Tasks, VerifyProof(t)
    PROVE  Inv'
<1>1. CASE task' = [task EXCEPT ![t] = Idle]
  BY <1>1, CallsBegin, IdleGood DEF VerifyProof, Inv, TypeOK
<1>2. CASE task' = [task EXCEPT ![t].step = "write"]
  <2> DEFINE call == [task[t] EXCEPT !.step = "write"]
  <2>1. task' = [task EXCEPT ![t] = call]
    BY <1>2
  <2>2. Good(task[t]) /\ task[t] # Idle
    BY DEF Inv, CallsOK, VerifyProof
  <2>3. Good(call)
    BY <2>2 DEF Good, CallOK, ActivatesSound, EnrolsSound, UpdatesAsRead
  <2> QED BY <2>1, <2>3, CallsBegin DEF VerifyProof, Inv, TypeOK
<1> QED BY <1>1, <1>2 DEF VerifyProof

-----------------------------------------------------------------------------
(* The transactions                                                        *)

LEMMA NothingStep ==
    ASSUME Inv, NEW t \in Tasks, task' = [task EXCEPT ![t] = Idle], UNCHANGED calls, NothingWritten
    PROVE  Inv'
BY CallsBegin, IdleGood DEF NothingWritten, Inv, TypeOK

\* Superseding the tokens of an account changes their status alone, and only
\* of live ones.
LEMMA SupersededTokens ==
    ASSUME TypeOK, NEW x \in Accounts
    PROVE  /\ Superseded(token, x) \in [Tokens -> TokenRow]
           /\ \A k \in Tokens :
                /\ Superseded(token, x)[k].for = token[k].for
                /\ Superseded(token, x)[k].status \in {token[k].status, "superseded"}
                /\ token[k].status # "live" => Superseded(token, x)[k] = token[k]
                /\ token[k].for = {x} => Superseded(token, x)[k].status # "live"
<1>1. \A k \in Tokens : token[k] \in TokenRow
  BY TokenFields
<1>2. \A k \in Tokens : [token[k] EXCEPT !.status = "superseded"] \in TokenRow
  BY <1>1 DEF TokenRow
<1>3. \A k \in Tokens : /\ [token[k] EXCEPT !.status = "superseded"].for = token[k].for
                         /\ [token[k] EXCEPT !.status = "superseded"].status = "superseded"
  BY <1>1 DEF TokenRow
<1> QED BY <1>1, <1>2, <1>3 DEF Superseded

\* A bump changes the version alone.
LEMMA BumpedRow ==
    ASSUME NEW row \in Row
    PROVE  /\ Bumped(row) \in Row /\ Bumped(row).version = row.version + 1
           /\ Bumped(row).state = row.state /\ Bumped(row).member = row.member
           /\ Bumped(row).password = row.password
           /\ Bumped(row).totp = row.totp /\ Bumped(row).keys = row.keys
<1>1. row.version \in Nat
  BY DEF Row
<1> QED BY <1>1 DEF Bumped, Row

\* A transaction that writes one row of an account that is there, and may
\* supersede its tokens.
LEMMA RowWritten ==
    ASSUME Inv, NEW t \in Tasks, task' = [task EXCEPT ![t] = Idle], UNCHANGED calls,
           NEW x \in Accounts, NEW r \in Row, account' = [account EXCEPT ![x] = r],
           UNCHANGED <<bootstrapped, grants, cleared>>,
           token' = token \/ token' = Superseded(token, x),
           Exists(x), r.state # "none", r.version >= account[x].version,
           r.version = account[x].version => r.state = account[x].state /\ r.member = account[x].member,
           HoldsFactor(x) => r.totp \/ r.keys # {},
           r.state = "active" \/ r.password => r.totp \/ r.keys # {} \/ x \in cleared
    PROVE  Inv'
<1> USE DEF Inv
<1>1. /\ account'[x] = r
      /\ \A a \in Accounts \ {x} : account'[a] = account[a]
  BY DEF TypeOK
<1>2. token' \in [Tokens -> TokenRow]
  BY SupersededTokens DEF TypeOK
<1>3. TypeOK'
  BY <1>2 DEF TypeOK
<1>4. \A k \in Tokens :
         /\ token'[k].for = token[k].for
         /\ token'[k].status \in {token[k].status, "superseded"}
         /\ token[k].status # "live" => token'[k] = token[k]
  BY SupersededTokens
<1>5. \A a \in Accounts : (Exists(a) => Exists(a)') /\ (HoldsFactor(a) => HoldsFactor(a)')
                           /\ (Sound(a) => Sound(a)')
  BY <1>1 DEF Exists, HoldsFactor, Sound
<1>6. \A a \in Accounts : Exists(a) =>
          /\ account'[a].version >= account[a].version
          /\ account'[a].version = account[a].version =>
                account'[a].state = account[a].state /\ account'[a].member = account[a].member
  BY <1>1, RowFields
<1>7. Stable
  BY <1>4, <1>5, <1>6, TokenFields DEF Stable
<1>8. RowsOK'
  BY <1>1 DEF RowsOK, Exists, HoldsFactor, Active, Sound
<1>9. TokensOK'
  BY <1>4, <1>5, TokenFields DEF TokensOK
<1>10. TokensSingleUse'
  BY <1>4, TokenFields DEF TokensSingleUse
<1> QED BY <1>3, <1>7, <1>8, <1>9, <1>10, CallsEnd

\* The calls that write one row.
LEMMA UpdateStep ==
    ASSUME Inv, NEW t \in Tasks, admin_update_account(t)
    PROVE  Inv'
<1> DEFINE call == task[t]
           x == call.target
           r == Bumped([account[x] EXCEPT !.member = call.member])
<1>1. Good(call) /\ call.op = "update" /\ task' = [task EXCEPT ![t] = Idle] /\ UNCHANGED calls
  BY DEF Inv, CallsOK, admin_update_account, Writing
<1>2. x \in Accounts /\ Exists(x) /\ call.member \in BOOLEAN
  BY <1>1 DEF Good, CallOK, OnTarget
<1>3. CASE NothingWritten
  BY <1>1, <1>3, NothingStep
<1>4. CASE account' = [account EXCEPT ![x] = r] /\ UNCHANGED <<token, bootstrapped, grants, cleared>>
  <2>1. account[x] \in Row /\ account[x].version \in Nat
    BY <1>2, RowFields DEF Inv
  <2>2. /\ r \in Row /\ r.state = account[x].state /\ r.version = account[x].version + 1
        /\ r.totp = account[x].totp /\ r.keys = account[x].keys /\ r.password = account[x].password
    <3> DEFINE changed == [account[x] EXCEPT !.member = call.member]
    <3>1. /\ changed \in Row /\ changed.state = account[x].state
          /\ changed.version = account[x].version
          /\ changed.totp = account[x].totp /\ changed.keys = account[x].keys
          /\ changed.password = account[x].password
      BY <1>2, <2>1 DEF Row
    <3> HIDE DEF changed
    <3>2. r = Bumped(changed)
      BY DEF changed
    <3> QED BY <3>1, <3>2, BumpedRow
  <2>3. /\ r.state # "none"
        /\ HoldsFactor(x) => r.totp \/ r.keys # {}
        /\ r.state = "active" \/ r.password => r.totp \/ r.keys # {} \/ x \in cleared
    BY <1>2, <2>2 DEF Inv, RowsOK, Sound, HoldsFactor, Active, Exists
  <2>4. r.version >= account[x].version /\ r.version # account[x].version
    BY <2>1, <2>2
  <2> HIDE DEF r, x
  <2> QED BY <1>1, <1>2, <1>4, <2>2, <2>3, <2>4, RowWritten
<1> QED BY <1>3, <1>4 DEF admin_update_account

LEMMA StateStep ==
    ASSUME Inv, NEW t \in Tasks, admin_set_account_state(t)
    PROVE  Inv'
<1> DEFINE call == task[t]
           x == call.target
           changed == [account[x] EXCEPT !.state = call.stored]
           r == Bumped(changed)
<1>1. Good(call) /\ call.op = "state" /\ task' = [task EXCEPT ![t] = Idle] /\ UNCHANGED calls
  BY DEF Inv, CallsOK, admin_set_account_state, Writing
<1>2. /\ x \in Accounts /\ Exists(x) /\ call.stored \in {"pending", "active", "disabled"}
      /\ call.stored = "active" => Sound(x)
  BY <1>1 DEF Good, CallOK, OnTarget, ActivatesSound
<1>3. account[x] \in Row /\ account[x].version \in Nat
  BY <1>2, RowFields DEF Inv
<1>4. /\ changed \in Row /\ changed.state = call.stored /\ changed.version = account[x].version
      /\ changed.totp = account[x].totp /\ changed.keys = account[x].keys
      /\ changed.password = account[x].password
  BY <1>2, <1>3 DEF Row, States
<1>5. UNCHANGED <<bootstrapped, grants, cleared>> /\ (token' = token \/ token' = Superseded(token, x))
  BY DEF admin_set_account_state
<1>6. CASE account' = account
  <2> DEFINE s == account[x]
  <2>1. account' = [account EXCEPT ![x] = s]
    BY <1>6 DEF Inv, TypeOK
  <2>2. /\ s \in Row /\ s.state # "none" /\ s.version >= account[x].version
        /\ HoldsFactor(x) => s.totp \/ s.keys # {}
        /\ s.state = "active" \/ s.password => s.totp \/ s.keys # {} \/ x \in cleared
    BY <1>2, <1>3 DEF Inv, RowsOK, Sound, HoldsFactor, Active, Exists
  <2> HIDE DEF x
  <2> QED BY <1>1, <1>2, <1>5, <2>1, <2>2, RowWritten
<1>7. CASE account' = [account EXCEPT ![x] = r]
  <2> HIDE DEF changed
  <2>1. /\ r \in Row /\ r.state = call.stored /\ r.version = account[x].version + 1
        /\ r.totp = account[x].totp /\ r.keys = account[x].keys /\ r.password = account[x].password
    BY <1>4, BumpedRow
  <2>2. /\ r.state # "none"
        /\ HoldsFactor(x) => r.totp \/ r.keys # {}
        /\ r.state = "active" \/ r.password => r.totp \/ r.keys # {} \/ x \in cleared
    BY <1>2, <2>1 DEF Inv, RowsOK, Sound, HoldsFactor
  <2>3. r.version >= account[x].version /\ r.version # account[x].version
    BY <1>3, <2>1
  <2> HIDE DEF r, x
  <2> QED BY <1>1, <1>2, <1>5, <1>7, <2>1, <2>2, <2>3, RowWritten
<1> QED BY <1>6, <1>7 DEF admin_set_account_state

LEMMA PasswordStep ==
    ASSUME Inv, NEW t \in Tasks, admin_change_password(t)
    PROVE  Inv'
<1> DEFINE x == task[t].actor
           changed == [account[x] EXCEPT !.password = TRUE]
           r == Bumped(changed)
<1>1. Good(task[t]) /\ task[t].op = "password" /\ task' = [task EXCEPT ![t] = Idle] /\ UNCHANGED calls
  BY DEF Inv, CallsOK, admin_change_password, Writing
<1>2. x \in Accounts /\ Exists(x) /\ Sound(x)
  BY <1>1 DEF Good, CallOK, ByActor, ActivatesSound
<1>3. account[x] \in Row /\ account[x].version \in Nat
  BY <1>2, RowFields DEF Inv
<1>4. /\ changed \in Row /\ changed.state = account[x].state /\ changed.version = account[x].version
      /\ changed.totp = account[x].totp /\ changed.keys = account[x].keys
  BY <1>2, <1>3 DEF Row
<1>5. account' = [account EXCEPT ![x] = r] /\ UNCHANGED <<token, bootstrapped, grants, cleared>>
  BY DEF admin_change_password
<1> HIDE DEF changed
<1>6. /\ r \in Row /\ r.state = account[x].state /\ r.version = account[x].version + 1
      /\ r.totp = account[x].totp /\ r.keys = account[x].keys
  BY <1>4, BumpedRow
<1>7. /\ r.state # "none"
      /\ HoldsFactor(x) => r.totp \/ r.keys # {}
      /\ r.state = "active" \/ r.password => r.totp \/ r.keys # {} \/ x \in cleared
  BY <1>2, <1>6 DEF Sound, HoldsFactor, Exists
<1>8. r.version >= account[x].version /\ r.version # account[x].version
  BY <1>3, <1>6
<1> HIDE DEF r, x
<1> QED BY <1>1, <1>2, <1>5, <1>6, <1>7, <1>8, RowWritten

\* Adding or removing a TOTP seed bumps the row, a FIDO2 credential does not;
\* in both cases the factors that remain are not fewer than one.
LEMMA FactorStep ==
    ASSUME Inv, NEW t \in Tasks, admin_add_factor(t) \/ admin_remove_factor(t)
    PROVE  Inv'
<1> DEFINE x == task[t].actor
           f == task[t].factor
<1>1. /\ Good(task[t]) /\ task[t].op \in {"add", "remove"}
      /\ task' = [task EXCEPT ![t] = Idle] /\ UNCHANGED calls
  BY DEF Inv, CallsOK, admin_add_factor, admin_remove_factor, Writing
<1>2. x \in Accounts /\ Exists(x)
  BY <1>1 DEF Good, CallOK, ByActor
<1>3. /\ account[x] \in Row /\ account[x].version \in Nat /\ account[x].keys \in SUBSET Keys
      /\ account[x].totp \in BOOLEAN
  BY <1>2, RowFields DEF Inv
<1>4. account[x].state = "active" \/ account[x].password => Sound(x)
  BY <1>2 DEF Inv, RowsOK, Active
<1>5. CASE NothingWritten
  BY <1>1, <1>5, NothingStep
<1>6. ASSUME NEW b \in BOOLEAN,
             account' = [account EXCEPT ![x] = Bumped([account[x] EXCEPT !.totp = b])],
             UNCHANGED <<token, bootstrapped, grants, cleared>>,
             b \/ account[x].keys # {}
      PROVE  Inv'
  <2> DEFINE changed == [account[x] EXCEPT !.totp = b]
             r == Bumped(changed)
  <2>1. /\ changed \in Row /\ changed.state = account[x].state /\ changed.version = account[x].version
        /\ changed.totp = b /\ changed.keys = account[x].keys /\ changed.password = account[x].password
    BY <1>3 DEF Row
  <2> HIDE DEF changed
  <2>2. /\ r \in Row /\ r.state = account[x].state /\ r.version = account[x].version + 1
        /\ r.totp = b /\ r.keys = account[x].keys /\ r.password = account[x].password
    BY <2>1, BumpedRow
  <2>3. /\ r.state # "none"
        /\ HoldsFactor(x) => r.totp \/ r.keys # {}
        /\ r.state = "active" \/ r.password => r.totp \/ r.keys # {} \/ x \in cleared
    BY <1>2, <1>6, <2>2 DEF Exists
  <2>4. r.version >= account[x].version /\ r.version # account[x].version
    BY <1>3, <2>2
  <2>5. account' = [account EXCEPT ![x] = r]
    BY <1>6 DEF changed
  <2> HIDE DEF r, x
  <2> QED BY <1>1, <1>2, <1>6, <2>2, <2>3, <2>4, <2>5, RowWritten
<1>7. ASSUME NEW keys \in SUBSET Keys,
             account' = [account EXCEPT ![x].keys = keys],
             UNCHANGED <<token, bootstrapped, grants, cleared>>,
             account[x].totp \/ keys # {}
      PROVE  Inv'
  <2> DEFINE r == [account[x] EXCEPT !.keys = keys]
  <2>1. account' = [account EXCEPT ![x] = r]
    BY <1>7
  <2>2. /\ r \in Row /\ r.state = account[x].state /\ r.version = account[x].version
        /\ r.member = account[x].member
        /\ r.totp = account[x].totp /\ r.keys = keys /\ r.password = account[x].password
    BY <1>3 DEF Row
  <2>3. /\ r.state # "none" /\ r.version >= account[x].version
        /\ HoldsFactor(x) => r.totp \/ r.keys # {}
        /\ r.state = "active" \/ r.password => r.totp \/ r.keys # {} \/ x \in cleared
    BY <1>2, <1>3, <1>7, <2>2 DEF Exists
  <2> HIDE DEF r, x
  <2> QED BY <1>1, <1>2, <1>7, <2>1, <2>2, <2>3, RowWritten
<1>8. CASE admin_add_factor(t)
  <2>1. CASE account' = [account EXCEPT ![x] = Bumped([@ EXCEPT !.totp = TRUE])]
             /\ UNCHANGED <<token, bootstrapped, grants, cleared>>
    BY <1>6, <2>1
  <2>2. CASE /\ f \in Keys /\ account' = [account EXCEPT ![x].keys = @ \cup {f}]
             /\ UNCHANGED <<token, bootstrapped, grants, cleared>>
    <3>1. account[x].keys \cup {f} \in SUBSET Keys /\ account[x].keys \cup {f} # {}
      BY <1>3, <2>2
    <3> QED BY <1>7, <2>2, <3>1
  <2> QED BY <1>5, <1>8, <2>1, <2>2 DEF admin_add_factor
<1>9. CASE admin_remove_factor(t)
  <2>1. CASE /\ f = "totp" /\ AnotherFactorRemains(x, f)
             /\ account' = [account EXCEPT ![x] = Bumped([@ EXCEPT !.totp = FALSE])]
             /\ UNCHANGED <<token, bootstrapped, grants, cleared>>
    <3>1. account[x].keys # {}
      BY <2>1 DEF AnotherFactorRemains, Held
    <3> QED BY <1>6, <2>1, <3>1
  <2>2. CASE /\ f \in Keys /\ AnotherFactorRemains(x, f)
             /\ account' = [account EXCEPT ![x].keys = @ \ {f}]
             /\ UNCHANGED <<token, bootstrapped, grants, cleared>>
    <3>1. account[x].totp \/ account[x].keys \ {f} # {}
      BY <2>2 DEF AnotherFactorRemains, Held
    <3>2. account[x].keys \ {f} \in SUBSET Keys
      BY <1>3
    <3> QED BY <1>7, <2>2, <3>1, <3>2
  <2> QED BY <1>5, <1>9, <2>1, <2>2 DEF admin_remove_factor
<1> QED BY <1>8, <1>9

\* What a transaction that leaves every account at least where it was must
\* keep of the tokens.
LEMMA StableParts ==
    ASSUME TypeOK,
           \A a \in Accounts : Exists(a) =>
              /\ Exists(a)'
              /\ Sound(a) => Sound(a)'
              /\ account'[a].version >= account[a].version
              /\ account'[a].version = account[a].version =>
                    account'[a].state = account[a].state /\ account'[a].member = account[a].member,
           \A j \in Tokens :
              \/ token[j].status = "unissued"
              \/ token'[j].status \in {"redeemed", "superseded"}
              \/ /\ token'[j].status = token[j].status /\ token'[j].for = token[j].for
                 /\ \A a \in Accounts : token[j].for = {a} /\ HoldsFactor(a) => HoldsFactor(a)'
    PROVE  Stable
BY DEF Stable

\* The calls that issue or redeem a token.
LEMMA CreateStep ==
    ASSUME Inv, NEW t \in Tasks, admin_create_account(t)
    PROVE  Inv'
<1> USE DEF Inv
<1>1. Good(task[t]) /\ task[t].op = "create" /\ task' = [task EXCEPT ![t] = Idle] /\ UNCHANGED calls
  BY DEF CallsOK, admin_create_account, Writing
<1>2. task[t].member \in BOOLEAN
  BY <1>1 DEF Good, CallOK
<1> DEFINE r == [NoRow EXCEPT !.state = "pending", !.member = task[t].member, !.version = 1]
<1>3. PICK x \in Accounts, k \in Tokens :
        /\ ~Exists(x) /\ token[k] = Unissued
        /\ account' = [account EXCEPT ![x] = r]
        /\ token' = Issued(token, k, {x})
        /\ UNCHANGED <<bootstrapped, grants, cleared>>
  BY DEF admin_create_account
<1>4. /\ r \in Row /\ r.state = "pending" /\ r.password = FALSE /\ r.totp = FALSE /\ r.keys = {}
  BY <1>2 DEF NoRow, Row, States
<1> HIDE DEF r
<1>5. account'[x] = r /\ \A a \in Accounts \ {x} : account'[a] = account[a]
  BY <1>3 DEF TypeOK
<1>6. /\ token'[k] = [status |-> "live", for |-> {x}, expired |-> FALSE]
      /\ \A j \in Tokens \ {k} : token'[j] = token[j]
      /\ token' \in [Tokens -> TokenRow]
  BY <1>3 DEF TypeOK, Issued, TokenRow
<1>7. TypeOK'
  BY <1>1, <1>3, <1>4, <1>6 DEF TypeOK
<1>8. x \notin cleared /\ ~HoldsFactor(x) /\ token[k].status = "unissued"
  BY <1>3 DEF RowsOK, Unissued
<1>9. Stable
  <2>1. ASSUME NEW a \in Accounts, Exists(a)
        PROVE  /\ account'[a] = account[a] /\ Exists(a)' /\ (Sound(a) => Sound(a)')
               /\ (HoldsFactor(a) => HoldsFactor(a)') /\ account[a].version \in Nat
    BY <1>3, <1>5, <2>1, RowFields DEF Exists, HoldsFactor, Sound
  <2>2. \A a \in Accounts : Exists(a) => account'[a].version >= account[a].version
    BY <2>1
  <2>3. ASSUME NEW j \in Tokens, token[j].status # "unissued"
        PROVE  /\ token'[j].status = token[j].status /\ token'[j].for = token[j].for
               /\ \A a \in Accounts : token[j].for = {a} /\ HoldsFactor(a) => HoldsFactor(a)'
    <3>1. token'[j] = token[j]
      BY <1>6, <1>8, <2>3
    <3>2. \A a \in Accounts : HoldsFactor(a) => Exists(a)
      BY DEF RowsOK
    <3> QED BY <2>1, <3>1, <3>2
  <2> QED BY <2>1, <2>2, <2>3, StableParts
<1>10. RowsOK'
  BY <1>3, <1>4, <1>5, <1>8 DEF RowsOK, Exists, HoldsFactor, Active, Sound
<1>11. TokensOK'
  BY <1>4, <1>5, <1>6 DEF TokensOK, Exists
<1>12. TokensSingleUse'
  <2>1. token'[k].status = "live" /\ grants' = grants /\ grants[k] <= 0
    BY <1>3, <1>6, <1>8 DEF TokensSingleUse
  <2> QED BY <1>6, <2>1 DEF TokensSingleUse
<1> QED BY <1>1, <1>7, <1>9, <1>10, <1>11, <1>12, CallsEnd

LEMMA ResetStep ==
    ASSUME Inv, NEW t \in Tasks, admin_reset_credentials(t)
    PROVE  Inv'
<1> USE DEF Inv
<1>0. PICK call, x : call = task[t] /\ x = call.target
  OBVIOUS
<1> DEFINE changed == [account[x] EXCEPT !.password = @ /\ ~call.password,
                                         !.totp = @ /\ ~call.mfa,
                                         !.keys = IF call.mfa THEN {} ELSE @]
           r == Bumped(changed)
<1>1. Good(call) /\ call.op = "reset" /\ task' = [task EXCEPT ![t] = Idle] /\ UNCHANGED calls
  BY <1>0 DEF CallsOK, admin_reset_credentials, Writing
<1>2. x \in Accounts /\ Exists(x) /\ call.password \in BOOLEAN /\ call.mfa \in BOOLEAN
  BY <1>0, <1>1 DEF Good, CallOK, OnTarget
<1>3. /\ account[x] \in Row /\ account[x].version \in Nat /\ account[x].password \in BOOLEAN
      /\ account[x].totp \in BOOLEAN /\ account[x].keys \in SUBSET Keys
  BY <1>2, RowFields
<1>4. PICK k \in Tokens :
        /\ token[k] = Unissued
        /\ token' = Issued(Superseded(token, x), k, {x})
        /\ account' = [account EXCEPT ![x] = r]
        /\ cleared' = IF call.mfa THEN cleared \cup {x} ELSE cleared
        /\ UNCHANGED <<bootstrapped, grants>>
  BY <1>0 DEF admin_reset_credentials
<1>5. /\ changed \in Row /\ changed.state = account[x].state /\ changed.version = account[x].version
      /\ changed.password => account[x].password
      /\ ~call.mfa => changed.totp = account[x].totp /\ changed.keys = account[x].keys
  BY <1>2, <1>3 DEF Row
<1> HIDE DEF changed
<1>6. /\ r \in Row /\ r.state = account[x].state /\ r.version = account[x].version + 1
      /\ r.password => account[x].password
      /\ ~call.mfa => r.totp = account[x].totp /\ r.keys = account[x].keys
  BY <1>5, BumpedRow
<1> HIDE DEF r
<1>7. account'[x] = r /\ \A a \in Accounts \ {x} : account'[a] = account[a]
  BY <1>2, <1>4 DEF TypeOK
<1>8. /\ token'[k] = [status |-> "live", for |-> {x}, expired |-> FALSE]
      /\ \A j \in Tokens \ {k} : token'[j] = Superseded(token, x)[j]
      /\ token' \in [Tokens -> TokenRow]
  BY <1>2, <1>4, SupersededTokens DEF Issued, TokenRow
<1>9. TypeOK'
  BY <1>1, <1>2, <1>4, <1>6, <1>8 DEF TypeOK
<1>10. token[k].status = "unissued"
  BY <1>4 DEF Unissued
<1>11. \A a \in Accounts : (Exists(a) => Exists(a)') /\ (Sound(a) => Sound(a)')
                            /\ (a # x => (HoldsFactor(a) <=> HoldsFactor(a)'))
  BY <1>2, <1>4, <1>6, <1>7 DEF Exists, HoldsFactor, Sound
<1>12. \A a \in Accounts :
          /\ account'[a].version >= account[a].version
          /\ account'[a].version = account[a].version =>
                account'[a].state = account[a].state /\ account'[a].member = account[a].member
  BY <1>3, <1>6, <1>7, RowFields
<1>13. \A j \in Tokens \ {k} :
          /\ token'[j].for = token[j].for /\ token'[j].status \in {token[j].status, "superseded"}
          /\ token[j].status # "live" => token'[j] = token[j]
          /\ token[j].for = {x} => token'[j].status # "live"
  BY <1>2, <1>8, SupersededTokens
<1>14. Stable
  <2>1. \A j \in Tokens : token'[j].status = "live" /\ token[j].status # "unissued" =>
          /\ token[j].status = "live" /\ token'[j].for = token[j].for
          /\ \A a \in Accounts : token[j].for = {a} /\ HoldsFactor(a) => HoldsFactor(a)'
    BY <1>10, <1>11, <1>13
  <2>2. \A j \in Tokens : token[j].status # "unissued" => token'[j].status # "unissued"
    BY <1>10, <1>13
  <2> QED BY <1>11, <1>12, <2>1, <2>2 DEF Stable
<1>15. RowsOK'
  <2>1. ASSUME NEW a \in Accounts, a # x
        PROVE  /\ ~Exists(a)' => ~HoldsFactor(a)' /\ a \notin cleared' /\ ~account'[a].password
               /\ Active(a)' \/ account'[a].password => Sound(a)'
    BY <1>4, <1>7, <2>1 DEF RowsOK, Exists, HoldsFactor, Active, Sound
  <2>2. Exists(x)'
    BY <1>2, <1>11
  <2>3. account'[x].state = "active" \/ account'[x].password => Sound(x)'
    BY <1>2, <1>6, <1>7, <1>11 DEF RowsOK, Active
  <2> QED BY <1>2, <2>1, <2>2, <2>3 DEF RowsOK, Active
<1>16. TokensOK'
  BY <1>2, <1>8, <1>11, <1>13, TokenFields DEF TokensOK
<1>17. TokensSingleUse'
  <2>1. token'[k].status = "live" /\ grants' = grants /\ grants[k] <= 0
    BY <1>4, <1>8, <1>10 DEF TokensSingleUse
  <2>2. \A j \in Tokens \ {k} : token[j].status = "redeemed" => token'[j].status = "redeemed"
    BY <1>13
  <2>3. \A j \in Tokens \ {k} : token[j].status # "redeemed" => grants'[j] <= 0
    BY <2>1 DEF TokensSingleUse
  <2>4. \A j \in Tokens : grants'[j] \in Nat /\ grants[j] <= 1
    BY <2>1, TokenFields DEF TokensSingleUse
  <2>5. \A j \in Tokens : grants'[j] <= 1
    BY <2>1, <2>4
  <2> QED BY <2>1, <2>2, <2>3, <2>5, <2>4 DEF TokensSingleUse
<1> QED BY <1>1, <1>9, <1>14, <1>15, <1>16, <1>17, CallsEnd

LEMMA EnrollStep ==
    ASSUME Inv, NEW t \in Tasks, admin_complete_enrollment(t)
    PROVE  Inv'
<1> USE DEF Inv
<1>0. PICK call, x, k : call = task[t] /\ x = call.target /\ k = call.token
  OBVIOUS
<1> DEFINE activated == IF account[x].state \in {"pending", "active"} THEN "active" ELSE account[x].state
           changed == [account[x] EXCEPT !.password = @ \/ call.password,
                                         !.totp = @ \/ call.totp,
                                         !.keys = IF BelowCap(x) THEN @ \cup call.keys ELSE @,
                                         !.state = activated]
           r == Bumped(changed)
<1>1. Good(call) /\ call.op = "enroll" /\ task' = [task EXCEPT ![t] = Idle] /\ UNCHANGED calls
  BY <1>0 DEF CallsOK, admin_complete_enrollment, Writing
<1>2. /\ x \in Accounts /\ Exists(x) /\ k \in Tokens /\ call.password \in BOOLEAN
      /\ call.totp \in BOOLEAN /\ call.keys \in SUBSET Keys
  BY <1>0, <1>1 DEF Good, CallOK, OnTarget
<1>3. CASE NothingWritten
  BY <1>1, <1>3, NothingStep
<1>4. CASE /\ token[k].status = "live"
           /\ account' = [account EXCEPT ![x] = r]
           /\ token' = Redeemed(k) /\ grants' = Granted(k)
           /\ cleared' = cleared \ {x} /\ UNCHANGED bootstrapped
  <2>1. /\ account[x] \in Row /\ account[x].version \in Nat /\ account[x].password \in BOOLEAN
        /\ account[x].totp \in BOOLEAN /\ account[x].keys \in SUBSET Keys
        /\ account[x].state \in States
    BY <1>2, RowFields
  <2>2. call.totp \/ call.keys # {} \/ HoldsFactor(x)
    BY <1>0, <1>1, <1>4 DEF Good, EnrolsSound
  <2>3. activated \in States /\ activated # "none"
    BY <1>2, <2>1 DEF Exists, States
  <2>4. ~BelowCap(x) => account[x].keys # {}
    BY FS_EmptySet, AdminAccountsAssumption DEF BelowCap
  <2>5. /\ changed \in Row /\ changed.state = activated /\ changed.version = account[x].version
        /\ changed.totp \/ changed.keys # {}
    <3>1. changed \in Row /\ changed.state = activated /\ changed.version = account[x].version
      BY <1>2, <2>1, <2>3 DEF Row
    <3>2. (changed.totp <=> account[x].totp \/ call.totp)
          /\ changed.keys = IF BelowCap(x) THEN account[x].keys \cup call.keys ELSE account[x].keys
      BY <1>2, <2>1 DEF Row
    <3> QED BY <2>2, <2>4, <3>1, <3>2 DEF HoldsFactor
  <2> HIDE DEF changed, activated
  <2>6. /\ r \in Row /\ r.state # "none" /\ r.version = account[x].version + 1
        /\ r.totp \/ r.keys # {}
    BY <2>3, <2>5, BumpedRow
  <2> HIDE DEF r
  <2>7. account'[x] = r /\ \A a \in Accounts \ {x} : account'[a] = account[a]
    BY <1>2, <1>4 DEF TypeOK
  <2>8. /\ token'[k].status = "redeemed" /\ token'[k].for = token[k].for
        /\ \A j \in Tokens \ {k} : token'[j] = token[j]
        /\ token' \in [Tokens -> TokenRow]
    BY <1>2, <1>4 DEF TypeOK, Redeemed, TokenRow
  <2>9. /\ grants' \in [Tokens -> Nat] /\ grants'[k] = grants[k] + 1
        /\ \A j \in Tokens \ {k} : grants'[j] = grants[j]
    BY <1>2, <1>4 DEF TypeOK, Granted
  <2>10. TypeOK'
    BY <1>1, <1>4, <2>6, <2>8, <2>9 DEF TypeOK
  <2>11. \A a \in Accounts : /\ Exists(a) => Exists(a)'
                             /\ HoldsFactor(a) => HoldsFactor(a)'
                             /\ Sound(a) => Sound(a)'
    BY <1>4, <2>6, <2>7 DEF Exists, HoldsFactor, Sound
  <2>12. \A a \in Accounts :
          /\ account'[a].version >= account[a].version
          /\ account'[a].version = account[a].version =>
                account'[a].state = account[a].state /\ account'[a].member = account[a].member
    BY <2>1, <2>6, <2>7, RowFields
  <2>13. Stable
    <3>1. \A j \in Tokens : j = k \/ (token'[j].status = token[j].status /\ token'[j].for = token[j].for)
      BY <2>8
    <3>2. \A j \in Tokens :
             \/ token'[j].status \in {"redeemed", "superseded"}
             \/ /\ token'[j].status = token[j].status /\ token'[j].for = token[j].for
                /\ \A a \in Accounts : token[j].for = {a} /\ HoldsFactor(a) => HoldsFactor(a)'
      BY <2>8, <2>11, <3>1
    <3> QED BY <2>11, <2>12, <3>2, StableParts
  <2>14. RowsOK'
    BY <1>4, <2>6, <2>7 DEF RowsOK, Exists, HoldsFactor, Active, Sound
  <2>15. TokensOK'
    <3>1. \A j \in Tokens : token'[j].for = token[j].for
      BY <2>8
    <3>2. \A j \in Tokens : token'[j].status = "unissued" => token'[j] = token[j] /\ token[j].status = "unissued"
      BY <2>8
    <3>3. ASSUME NEW j \in Tokens
          PROVE  token'[j].for = {} \/ \E a \in Accounts : token'[j].for = {a} /\ Exists(a)'
      BY <2>11, <3>1 DEF TokensOK
    <3>4. ASSUME NEW j \in Tokens
          PROVE  token'[j].status = "unissued" => token'[j] = Unissued
      BY <3>2 DEF TokensOK
    <3> QED BY <3>3, <3>4 DEF TokensOK
  <2>16. TokensSingleUse'
    BY <1>2, <1>4, <2>8, <2>9, TokenFields DEF TokensSingleUse
  <2> QED BY <1>1, <2>10, <2>13, <2>14, <2>15, <2>16, CallsEnd
<1> QED BY <1>0, <1>3, <1>4 DEF admin_complete_enrollment, TokenLiveInStatement

LEMMA BootstrapStep ==
    ASSUME Inv, NEW t \in Tasks, admin_bootstrap_account(t)
    PROVE  Inv'
<1> USE DEF Inv
<1>0. PICK k : k = task[t].token
  OBVIOUS
<1>1. Good(task[t]) /\ task[t].op = "bootstrap" /\ task' = [task EXCEPT ![t] = Idle] /\ UNCHANGED calls
  BY DEF CallsOK, admin_bootstrap_account, Writing
<1>2. k \in Tokens
  BY <1>0, <1>1 DEF Good, CallOK
<1> DEFINE r == [state |-> "active", member |-> TRUE, password |-> TRUE,
                 totp |-> TRUE, keys |-> {}, version |-> 1]
<1>3. CASE NothingWritten
  BY <1>1, <1>3, NothingStep
<1>4. ASSUME NEW x \in Accounts, ~Exists(x), token[k].status = "live",
             account' = [account EXCEPT ![x] = r],
             token' = [token EXCEPT ![k].status = "redeemed", ![k].for = {x}],
             bootstrapped' = TRUE, grants' = Granted(k), UNCHANGED cleared
      PROVE  Inv'
  <2>1. r \in Row /\ r.state = "active" /\ r.totp = TRUE
    BY DEF Row, States
  <2> HIDE DEF r
  <2>2. account'[x] = r /\ \A a \in Accounts \ {x} : account'[a] = account[a]
    BY <1>4 DEF TypeOK
  <2> DEFINE redeemed == [token[k] EXCEPT !.status = "redeemed", !.for = {x}]
  <2>3. redeemed \in TokenRow /\ redeemed.status = "redeemed" /\ redeemed.for = {x}
    BY <1>2, TokenFields DEF TokenRow
  <2>4. token' = [token EXCEPT ![k] = redeemed]
    BY <1>2, <1>4 DEF TypeOK
  <2> HIDE DEF redeemed
  <2>5. /\ token'[k] = redeemed
        /\ \A j \in Tokens \ {k} : token'[j] = token[j]
        /\ token' \in [Tokens -> TokenRow]
    BY <1>2, <2>3, <2>4 DEF TypeOK
  <2>6. /\ grants' \in [Tokens -> Nat] /\ grants'[k] = grants[k] + 1
        /\ \A j \in Tokens \ {k} : grants'[j] = grants[j]
    BY <1>2, <1>4 DEF TypeOK, Granted
  <2>7. TypeOK'
    BY <1>1, <1>4, <2>1, <2>5, <2>6 DEF TypeOK
  <2>8. ASSUME NEW a \in Accounts, Exists(a)
        PROVE  /\ account'[a] = account[a] /\ Exists(a)' /\ (Sound(a) => Sound(a)')
               /\ (HoldsFactor(a) => HoldsFactor(a)') /\ account[a].version \in Nat
    BY <1>4, <2>2, <2>8, RowFields DEF Exists, HoldsFactor, Sound
  <2>9. Stable
    <3>1. \A a \in Accounts : Exists(a) => account'[a].version >= account[a].version
      BY <2>8
    <3>2. \A a \in Accounts : HoldsFactor(a) => Exists(a)
      BY DEF RowsOK
    <3>3. \A j \in Tokens :
             \/ token'[j].status \in {"redeemed", "superseded"}
             \/ /\ token'[j].status = token[j].status /\ token'[j].for = token[j].for
                /\ \A a \in Accounts : token[j].for = {a} /\ HoldsFactor(a) => HoldsFactor(a)'
      BY <2>3, <2>5, <2>8, <3>2
    <3> QED BY <2>8, <3>1, <3>3, StableParts
  <2>10. RowsOK'
    BY <1>4, <2>1, <2>2 DEF RowsOK, Exists, HoldsFactor, Active, Sound
  <2>11. TokensOK'
    <3>1. Exists(x)'
      BY <2>1, <2>2 DEF Exists
    <3>2. ASSUME NEW j \in Tokens
          PROVE  token'[j].for = {} \/ \E a \in Accounts : token'[j].for = {a} /\ Exists(a)'
      BY <2>3, <2>5, <2>8, <3>1 DEF TokensOK
    <3>3. ASSUME NEW j \in Tokens
          PROVE  token'[j].status = "unissued" => token'[j] = Unissued
      BY <2>3, <2>5 DEF TokensOK
    <3> QED BY <3>2, <3>3 DEF TokensOK
  <2>12. TokensSingleUse'
    <3>1. grants[k] <= 0 /\ grants[k] \in Nat
      BY <1>2, <1>4, TokenFields DEF TokensSingleUse
    <3>2. grants'[k] <= 1 /\ token'[k].status = "redeemed"
      BY <2>3, <2>5, <2>6, <3>1
    <3> QED BY <2>5, <2>6, <3>2 DEF TokensSingleUse
  <2> QED BY <1>1, <2>7, <2>9, <2>10, <2>11, <2>12, CallsEnd
<1> QED BY <1>0, <1>3, <1>4 DEF admin_bootstrap_account, TokenLiveInStatement

\* Arming the bootstrap issues a token and changes no account.
LEMMA ArmStep ==
    ASSUME Inv, NEW t \in Tasks, admin_insert_enrollment_token(t)
    PROVE  Inv'
<1> USE DEF Inv
<1>1. /\ task' = [task EXCEPT ![t] = Idle]
      /\ UNCHANGED <<calls, account, bootstrapped, grants, cleared>>
  BY DEF admin_insert_enrollment_token, Writing
<1>2. PICK k \in Tokens : token[k] = Unissued /\ token' = Issued(token, k, {})
  BY DEF admin_insert_enrollment_token
<1>3. /\ token'[k].status = "live" /\ token'[k].for = {}
      /\ \A j \in Tokens \ {k} : token'[j] = token[j]
      /\ token' \in [Tokens -> TokenRow]
  BY <1>2 DEF TypeOK, Issued, TokenRow
<1>4. TypeOK'
  BY <1>1, <1>3 DEF TypeOK
<1>5. token[k].status = "unissued"
  BY <1>2 DEF Unissued
<1>6. \A a \in Accounts : /\ Exists(a) => Exists(a)'
                          /\ HoldsFactor(a) => HoldsFactor(a)'
                          /\ Sound(a) => Sound(a)'
                          /\ account'[a] = account[a] /\ account[a].version \in Nat
  BY <1>1, RowFields DEF Exists, HoldsFactor, Sound
<1>7. Stable
  <2>1. \A a \in Accounts : account'[a].version >= account[a].version
    BY <1>6
  <2>2. \A j \in Tokens :
           \/ token[j].status = "unissued"
           \/ /\ token'[j].status = token[j].status /\ token'[j].for = token[j].for
              /\ \A a \in Accounts : token[j].for = {a} /\ HoldsFactor(a) => HoldsFactor(a)'
    BY <1>3, <1>5, <1>6
  <2> QED BY <1>6, <2>1, <2>2, StableParts
<1>8. RowsOK'
  BY <1>1 DEF RowsOK, Exists, HoldsFactor, Active, Sound
<1>9. TokensOK'
  <2>1. ASSUME NEW j \in Tokens
        PROVE  token'[j].for = {} \/ \E a \in Accounts : token'[j].for = {a} /\ Exists(a)'
    BY <1>3, <1>6 DEF TokensOK
  <2>2. ASSUME NEW j \in Tokens
        PROVE  token'[j].status = "unissued" => token'[j] = Unissued
    BY <1>3 DEF TokensOK
  <2> QED BY <2>1, <2>2 DEF TokensOK
<1>10. TokensSingleUse'
  <2>1. grants' = grants /\ grants[k] <= 0
    BY <1>1, <1>5 DEF TokensSingleUse
  <2> QED BY <1>3, <2>1 DEF TokensSingleUse
<1> QED BY <1>1, <1>4, <1>7, <1>8, <1>9, <1>10, CallsEnd

\* The end of a token's lifetime is seen by none of the statements.
LEMMA ExpireStep ==
    ASSUME Inv, NEW k \in Tokens, Expire(k)
    PROVE  Inv'
<1> USE DEF Inv
<1>1. UNCHANGED <<account, bootstrapped, task, calls, grants, cleared>>
  BY DEF Expire
<1> DEFINE expired == [token[k] EXCEPT !.expired = TRUE]
<1>2. /\ expired \in TokenRow /\ expired.status = token[k].status /\ expired.for = token[k].for
      /\ token[k].status = "live"
  BY TokenFields DEF TokenRow, Expire, LiveToken
<1>3. token' = [token EXCEPT ![k] = expired]
  BY DEF Expire, TypeOK
<1> HIDE DEF expired
<1>4. /\ token' \in [Tokens -> TokenRow] /\ token'[k] = expired
      /\ \A j \in Tokens \ {k} : token'[j] = token[j]
  BY <1>2, <1>3 DEF TypeOK
<1>5. \A j \in Tokens : /\ token'[j].status = token[j].status
                        /\ token'[j].for = token[j].for
                        /\ token'[j].status = "unissued" => token'[j] = token[j]
  BY <1>2, <1>4
<1>6. TypeOK'
  BY <1>1, <1>4 DEF TypeOK
<1>7. \A a \in Accounts : /\ Exists(a) => Exists(a)'
                          /\ HoldsFactor(a) => HoldsFactor(a)'
                          /\ Sound(a) => Sound(a)'
                          /\ account'[a] = account[a] /\ account[a].version \in Nat
  BY <1>1, RowFields DEF Exists, HoldsFactor, Sound
<1>8. Stable
  <2>1. \A a \in Accounts : account'[a].version >= account[a].version
    BY <1>7
  <2> QED BY <1>5, <1>7, <2>1, StableParts
<1>9. RowsOK'
  BY <1>1 DEF RowsOK, Exists, HoldsFactor, Active, Sound
<1>10. TokensOK'
  <2>1. ASSUME NEW j \in Tokens
        PROVE  token'[j].for = {} \/ \E a \in Accounts : token'[j].for = {a} /\ Exists(a)'
    BY <1>5, <1>7 DEF TokensOK
  <2>2. ASSUME NEW j \in Tokens
        PROVE  token'[j].status = "unissued" => token'[j] = Unissued
    BY <1>5 DEF TokensOK
  <2> QED BY <2>1, <2>2 DEF TokensOK
<1>11. TokensSingleUse'
  BY <1>1, <1>5 DEF TokensSingleUse
<1>12. CallsOK'
  <2>1. ASSUME NEW t \in Tasks
        PROVE  Good(task[t])'
    BY <1>1, <1>6, <1>8, CallStable DEF CallsOK
  <2> QED BY <2>1 DEF CallsOK
<1> QED BY <1>6, <1>9, <1>10, <1>11, <1>12

-----------------------------------------------------------------------------
(* The theorems                                                            *)

LEMMA InitInv == Init => Inv
<1> SUFFICES ASSUME Init PROVE Inv
  OBVIOUS
<1>1. PICK admins \in SUBSET Accounts, keys \in SUBSET Keys :
         account = [a \in Accounts |->
               IF a \in admins
               THEN [state |-> "active", member |-> TRUE, password |-> TRUE, totp |-> TRUE,
                     keys |-> IF admins = {a} /\ Cardinality(keys) <= MAX_WEBAUTHN_CREDENTIALS
                              THEN keys ELSE {}, version |-> 1]
               ELSE NoRow]
  BY DEF Init
<1>2. \A a \in Accounts :
         /\ account[a] \in Row
         /\ account[a].totp \/ account[a].state = "none"
         /\ account[a].state = "none" => account[a] = NoRow
  BY <1>1 DEF NoRow, Row, States
<1>3. TypeOK
  <2>1. account \in [Accounts -> Row]
    BY <1>1, <1>2
  <2>2. token \in [Tokens -> TokenRow]
    BY DEF Init, Unissued, TokenRow
  <2>3. calls \in 0 .. MaxCalls
    BY AdminAccountsAssumption DEF Init
  <2> QED BY <2>1, <2>2, <2>3 DEF TypeOK, Init
<1>4. RowsOK
  BY <1>2 DEF RowsOK, Exists, HoldsFactor, Active, Sound, NoRow, Init
<1>5. TokensOK /\ TokensSingleUse
  BY DEF TokensOK, TokensSingleUse, Init, Unissued
<1>6. CallsOK
  BY IdleGood DEF CallsOK, Init
<1> QED BY <1>3, <1>4, <1>5, <1>6 DEF Inv

LEMMA NextInv == Inv /\ [Next]_vars => Inv'
<1> SUFFICES ASSUME Inv, [Next]_vars PROVE Inv'
  OBVIOUS
<1>1. CASE UNCHANGED vars
  BY <1>1 DEF vars, Inv, TypeOK, RowsOK, TokensOK, CallsOK, TokensSingleUse, Good, CallOK,
              ActivatesSound, EnrolsSound, UpdatesAsRead, Sound, HoldsFactor, Exists, Active
<1>2. ASSUME NEW t \in Tasks, EndCall(t)
      PROVE  Inv'
  BY <1>2, CreateStep, UpdateStep, StateStep, ResetStep, PasswordStep, FactorStep, EnrollStep,
     BootstrapStep, ArmStep DEF EndCall
<1> QED BY <1>1, <1>2, BeginStep, ProofStep, ExpireStep DEF Next

LEMMA Invariant == Spec => []Inv
BY InitInv, NextInv, PTL DEF Spec

\* However many completions read a token while it was live, on whatever node,
\* one of them at most writes credentials, and none after a reset or a
\* disabling superseded the token: the statements of
\* admin_complete_enrollment and admin_bootstrap_account check it.
THEOREM TokensUsedOnce == Spec => []TokensSingleUse
<1>1. Inv => TokensSingleUse
  BY DEF Inv
<1> QED BY <1>1, Invariant, PTL

\* No interleaving of factor removals, enrolments and state changes leaves an
\* active account without a second factor, unless a reset cleared them and
\* no enrolment has been completed since (admin_remove_totp,
\* admin_remove_webauthn_credential, admin_complete_enrollment).
THEOREM FactorsKept == Spec => []FactorKept
<1>1. Inv => FactorKept
  BY DEF Inv, FactorKept, RowsOK, Sound
<1> QED BY <1>1, Invariant, PTL

\* A row the transaction leaves active and a member keeps the group manned.
LEMMA AdminStays ==
    ASSUME NEW a \in Accounts, account'[a].state = "active", account'[a].member
    PROVE  AccountAdmins' # {}
BY DEF AccountAdmins, Active

\* Every transaction but a group change and a state change keeps the account
\* administrators there are.
LEMMA AdminsKept ==
    ASSUME Inv, NEW t \in Tasks, NEW a \in AccountAdmins,
           \/ admin_create_account(t) \/ admin_reset_credentials(t) \/ admin_change_password(t)
           \/ admin_add_factor(t) \/ admin_remove_factor(t) \/ admin_complete_enrollment(t)
           \/ admin_bootstrap_account(t) \/ admin_insert_enrollment_token(t)
    PROVE  AccountAdmins' # {}
<1>1. a \in Accounts /\ account[a].state = "active" /\ account[a].member /\ account[a] \in Row
  BY RowFields DEF AccountAdmins, Active, Inv
<1>2. DOMAIN account = Accounts
  BY DEF Inv, TypeOK
<1>3. CASE account'[a] = account[a]
  BY <1>1, <1>3, AdminStays
<1>4. ASSUME NEW changed \in Row, account'[a] = Bumped(changed),
             changed.state = account[a].state, changed.member = account[a].member
      PROVE  AccountAdmins' # {}
  <2>1. account'[a].state = "active" /\ account'[a].member
    BY <1>1, <1>4, BumpedRow
  <2> QED BY <1>1, <2>1, AdminStays
<1>5. CASE admin_create_account(t) \/ admin_bootstrap_account(t)
  <2>1. account' = account \/ \E x \in Accounts : \E r : ~Exists(x) /\ account' = [account EXCEPT ![x] = r]
    BY <1>5 DEF admin_create_account, admin_bootstrap_account, NothingWritten
  <2> QED BY <1>1, <1>2, <1>3, <2>1 DEF Exists
<1>6. CASE admin_reset_credentials(t)
  <2> DEFINE call == task[t]
             x == call.target
             changed == [account[x] EXCEPT !.password = @ /\ ~call.password,
                                           !.totp = @ /\ ~call.mfa,
                                           !.keys = IF call.mfa THEN {} ELSE @]
  <2>1. account' = [account EXCEPT ![x] = Bumped(changed)]
    BY <1>6 DEF admin_reset_credentials
  <2>2. CASE a # x
    BY <1>1, <1>2, <1>3, <2>1, <2>2
  <2>3. CASE a = x
    <3>1. call.password \in BOOLEAN /\ call.mfa \in BOOLEAN
      BY <1>6 DEF admin_reset_credentials, Writing, Inv, CallsOK, Good, CallOK
    <3>2. changed \in Row /\ changed.state = account[a].state /\ changed.member = account[a].member
      BY <1>1, <2>3, <3>1 DEF Row
    <3>3. account'[a] = Bumped(changed)
      BY <1>1, <1>2, <2>1, <2>3
    <3> HIDE DEF changed, x
    <3> QED BY <1>4, <3>2, <3>3
  <2> QED BY <2>2, <2>3
<1>7. CASE admin_change_password(t)
  <2> DEFINE x == task[t].actor
             changed == [account[x] EXCEPT !.password = TRUE]
  <2>1. account' = [account EXCEPT ![x] = Bumped(changed)]
    BY <1>7 DEF admin_change_password
  <2>2. CASE a # x
    BY <1>1, <1>2, <1>3, <2>1, <2>2
  <2>3. CASE a = x
    <3>1. changed \in Row /\ changed.state = account[a].state /\ changed.member = account[a].member
      BY <1>1, <2>3 DEF Row
    <3>2. account'[a] = Bumped(changed)
      BY <1>1, <1>2, <2>1, <2>3
    <3> HIDE DEF changed, x
    <3> QED BY <1>4, <3>1, <3>2
  <2> QED BY <2>2, <2>3
<1>8. CASE admin_add_factor(t) \/ admin_remove_factor(t)
  <2> DEFINE x == task[t].actor
  <2>1. \/ account' = account
        \/ \E b \in BOOLEAN : account' = [account EXCEPT ![x] = Bumped([account[x] EXCEPT !.totp = b])]
        \/ \E keys : account' = [account EXCEPT ![x].keys = keys]
    BY <1>8 DEF admin_add_factor, admin_remove_factor, NothingWritten
  <2>2. CASE account' = account \/ a # x
    BY <1>1, <1>2, <1>3, <2>1, <2>2
  <2>3. ASSUME a = x, NEW b \in BOOLEAN,
               account' = [account EXCEPT ![x] = Bumped([account[x] EXCEPT !.totp = b])]
        PROVE  AccountAdmins' # {}
    <3> DEFINE changed == [account[x] EXCEPT !.totp = b]
    <3>1. changed \in Row /\ changed.state = account[a].state /\ changed.member = account[a].member
      BY <1>1, <2>3 DEF Row
    <3>2. account'[a] = Bumped(changed)
      BY <1>1, <1>2, <2>3
    <3> HIDE DEF changed, x
    <3> QED BY <1>4, <3>1, <3>2
  <2>4. ASSUME a = x, NEW keys, account' = [account EXCEPT ![x].keys = keys]
        PROVE  AccountAdmins' # {}
    <3>1. account'[a].state = account[a].state /\ account'[a].member = account[a].member
      BY <1>1, <1>2, <2>4 DEF Row
    <3> QED BY <1>1, <3>1, AdminStays
  <2> QED BY <2>1, <2>2, <2>3, <2>4
<1>9. CASE admin_complete_enrollment(t)
  <2> DEFINE call == task[t]
             x == call.target
             activated == IF account[x].state \in {"pending", "active"} THEN "active" ELSE account[x].state
             changed == [account[x] EXCEPT !.password = @ \/ call.password,
                                           !.totp = @ \/ call.totp,
                                           !.keys = IF BelowCap(x) THEN @ \cup call.keys ELSE @,
                                           !.state = activated]
  <2>1. account' = account \/ account' = [account EXCEPT ![x] = Bumped(changed)]
    BY <1>9 DEF admin_complete_enrollment, NothingWritten
  <2>2. CASE account' = account \/ a # x
    BY <1>1, <1>2, <1>3, <2>1, <2>2
  <2>3. CASE a = x /\ account' = [account EXCEPT ![x] = Bumped(changed)]
    <3>1. call.password \in BOOLEAN /\ call.totp \in BOOLEAN /\ call.keys \in SUBSET Keys
      BY <1>9 DEF admin_complete_enrollment, Writing, Inv, CallsOK, Good, CallOK
    <3>2. activated = "active" /\ account[x].keys \in SUBSET Keys
      BY <1>1, <2>3 DEF Row
    <3>3. changed \in Row /\ changed.state = account[a].state /\ changed.member = account[a].member
      <4> HIDE DEF activated
      <4> QED BY <1>1, <2>3, <3>1, <3>2 DEF Row
    <3>4. account'[a] = Bumped(changed)
      BY <1>1, <1>2, <2>3
    <3> HIDE DEF changed, x
    <3> QED BY <1>4, <3>3, <3>4
  <2> QED BY <2>1, <2>2, <2>3
<1>10. CASE admin_insert_enrollment_token(t)
  BY <1>3, <1>10 DEF admin_insert_enrollment_token
<1> QED BY <1>5, <1>6, <1>7, <1>8, <1>9, <1>10

\* A group change keeps an account administrator: what it read to decide
\* whether it needs the guard is still so, or its version check refuses it.
LEMMA AdminsKeptByUpdate ==
    ASSUME Inv, NEW t \in Tasks, AccountAdmins # {}, admin_update_account(t)
    PROVE  AccountAdmins' # {}
<1> DEFINE call == task[t]
           x == call.target
           changed == [account[x] EXCEPT !.member = call.member]
<1>1. DOMAIN account = Accounts
  BY DEF Inv, TypeOK
<1>2. /\ x \in Accounts /\ call.member \in BOOLEAN /\ account[x] \in Row
      /\ call.expected = account[x].version =>
            (call.guarded <=> account[x].member /\ ~call.member /\ Active(x))
  BY RowFields DEF admin_update_account, Writing, Inv, CallsOK, Good, CallOK, OnTarget, UpdatesAsRead
<1>3. CASE account' = account
  BY <1>3 DEF AccountAdmins, Active
<1>4. CASE /\ account[x].version = call.expected /\ OtherAdminInStatement(call)
           /\ account' = [account EXCEPT ![x] = Bumped(changed)]
  <2>1. ASSUME NEW a \in AccountAdmins, a # x
        PROVE  AccountAdmins' # {}
    BY <1>1, <1>4, <2>1, AdminStays DEF AccountAdmins, Active
  <2>2. CASE call.guarded
    <3>1. PICK a \in AccountAdmins : a # x
      BY <1>4, <2>2 DEF OtherAdminInStatement, OtherAccountAdmin
    <3> QED BY <2>1, <3>1
  <2>3. CASE ~call.guarded /\ x \in AccountAdmins
    <3>1. account[x].state = "active" /\ call.member = TRUE
      BY <1>2, <1>4, <2>3 DEF AccountAdmins, Active
    <3>2. changed \in Row /\ changed.state = "active" /\ changed.member = TRUE
      BY <1>2, <3>1 DEF Row
    <3>3. account'[x] = Bumped(changed)
      BY <1>1, <1>2, <1>4
    <3> HIDE DEF changed
    <3>4. account'[x].state = "active" /\ account'[x].member
      BY <3>2, <3>3, BumpedRow
    <3> HIDE DEF x
    <3> QED BY <1>2, <3>4, AdminStays
  <2> QED BY <2>1, <2>2, <2>3
<1> QED BY <1>3, <1>4 DEF admin_update_account, NothingWritten

\* A state change that asked for the guard keeps one too.
LEMMA AdminsKeptByState ==
    ASSUME Inv, NEW t \in Tasks, AccountAdmins # {}, admin_set_account_state(t), AccountAdmins' = {}
    PROVE  task[t].op = "state" /\ ~task[t].guarded /\ task'[t] = Idle
<1> DEFINE call == task[t]
           x == call.target
<1>1. DOMAIN account = Accounts
  BY DEF Inv, TypeOK
<1>2. task[t].op = "state" /\ task'[t] = Idle
  BY DEF admin_set_account_state, Writing, Inv, TypeOK
<1>3. account' # account
  BY DEF AccountAdmins, Active
<1>4. OtherAdminInStatement(call) /\ \E r : account' = [account EXCEPT ![x] = r]
  BY <1>3 DEF admin_set_account_state
<1>5. ASSUME call.guarded
      PROVE  FALSE
  <2>1. PICK a \in AccountAdmins : a # x
    BY <1>4, <1>5 DEF OtherAdminInStatement, OtherAccountAdmin
  <2>2. a \in Accounts /\ account'[a] = account[a]
    BY <1>1, <1>4, <2>1 DEF AccountAdmins
  <2> QED BY <2>1, <2>2, AdminStays DEF AccountAdmins, Active
<1> QED BY <1>2, <1>5

\* Rule 4 of the account writes, for every interleaving of the calls of any
\* number of administrators: no group change takes the last active account
\* administrator away, and only a state change whose handler did not find an
\* active account administrator can (admin_update_account,
\* admin_set_account_state).
THEOREM LastAdmin == Spec => LastAdminGuarded
<1> DEFINE Unguarded == \E t \in Tasks : /\ task[t].op = "state"
                                         /\ ~task[t].guarded
                                         /\ task'[t] = Idle
<1>1. ASSUME Inv, [Next]_vars
      PROVE  [(AccountAdmins # {} /\ AccountAdmins' = {}) => Unguarded]_vars
  <2> SUFFICES ASSUME AccountAdmins # {}, AccountAdmins' = {}
               PROVE  Unguarded
    OBVIOUS
  <2>1. account' # account
    BY DEF AccountAdmins, Active
  <2>2. PICK t \in Tasks : EndCall(t)
    <3>1. ASSUME NEW t \in Tasks, BeginCall(t) \/ VerifyProof(t)
          PROVE  account' = account
      BY <3>1 DEF BeginCall, VerifyProof, Begin, CreateAdminAccount, UpdateAdminAccount,
                  SetAdminAccountState, ResetAdminCredentials, ChangePassword, CompleteAddFactor,
                  RemoveFactor, CompleteEnroll, CompleteBootstrap, Arm
    <3> QED BY <1>1, <2>1, <3>1 DEF Next, Expire, vars
  <2>3. admin_set_account_state(t)
    <3>1. PICK a : a \in AccountAdmins
      OBVIOUS
    <3> QED BY <1>1, <2>2, <3>1, AdminsKept, AdminsKeptByUpdate DEF EndCall
  <2> QED BY <1>1, <2>3, AdminsKeptByState
<1> QED BY <1>1, Invariant, PTL DEF Spec, LastAdminGuarded
=============================================================================

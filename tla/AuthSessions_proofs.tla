-------------------------- MODULE AuthSessions_proofs --------------------------
(***************************************************************************)
(* Proofs about AuthSessions, for any accounts, calls and faults: an       *)
(* identifier leads to one account, a revoked account is refused, a token  *)
(* that was used to refresh or to log out stays dead, and without          *)
(* overlapping calls the table holds one session of an account, to which   *)
(* its cached tokens belong.                                               *)
(***************************************************************************)
EXTENDS AuthSessions, FiniteSetTheorems, TLAPS

-----------------------------------------------------------------------------
(* Accounts                                                                *)

RPC == {"idle", "email", "phone", "insert", "done", "failed"}

\* What Register has seen to when it has come to its insert: the form of the
\* identifiers, and that the phone number was nobody's when it began.
FormOk(a) ==
  /\ rpc[a] \in {"email", "phone", "insert"} \/ a \in Existing => Kind[Username[a]] = "name"
  /\ rpc[a] \in {"phone", "insert"} \/ a \in Existing => Kind[Email[a]] = "email"
  /\ rpc[a] = "insert" \/ a \in Existing => Phone[a] = None \/ Kind[Phone[a]] = "mobile"

PhoneWasFree(a) ==
  rpc[a] = "insert" \/ a \in Existing =>
    \A b \in before[a] : Phone[a] # None => Phone[b] # Phone[a]

AccountInv ==
  /\ AccountType
  /\ \A a \in Existing : rpc[a] \in {"done", "failed"}
  /\ \A a \in Accounts : before[a] \subseteq Existing /\ FormOk(a) /\ PhoneWasFree(a)
  /\ \A a, b \in Existing : a # b => Username[a] # Username[b] /\ Email[a] # Email[b]

LEMMA RegisterStep ==
  ASSUME AccountInv, NEW a \in Accounts, Register(a)
  PROVE  AccountInv' /\ Existing \subseteq Existing'
         /\ \A b \in Existing : users'[b] = users[b]
<1>1. AccountType'
  BY DEF AccountInv, AccountType, Register, CheckUsername, CheckEmail, CheckPhone, Check, Create,
         Existing
<1>2. Existing' = Existing \/ (Existing' = Existing \cup {a} /\ rpc[a] = "insert" /\ Unique(a))
  BY DEF AccountInv, AccountType, Register, CheckUsername, CheckEmail, CheckPhone, Create, Existing
<1>3. rpc[a] \notin {"done", "failed"} /\ a \notin Existing
  BY DEF AccountInv, Register, CheckUsername, CheckEmail, CheckPhone, Check, Create
<1>4. /\ \A b \in Accounts : b # a => rpc'[b] = rpc[b] /\ before'[b] = before[b] /\ users'[b] = users[b]
      /\ rpc'[a] \in RPC
  BY <1>1 DEF AccountInv, AccountType, Register, CheckUsername, CheckEmail, CheckPhone, Check, Create,
              RPC
<1>5. \A b \in Existing : users'[b] = users[b]
  BY <1>3, <1>4 DEF Existing
<1>6. before'[a] = before[a] \/ (rpc[a] = "idle" /\ before'[a] = Existing)
  BY DEF AccountInv, AccountType, Register, CheckUsername, CheckEmail, CheckPhone, Check, Create
<1>7. a \in Existing' => rpc'[a] \in {"done", "failed"}
  BY <1>3 DEF AccountInv, AccountType, Register, CheckUsername, CheckEmail, CheckPhone, Check, Create,
              Existing
<1>8. FormOk(a)' /\ PhoneWasFree(a)'
  <2>1. CASE CheckUsername(a)
    <3>1. a \notin Existing' /\ (rpc'[a] = "email" \/ rpc'[a] = "failed")
          /\ (rpc'[a] = "email" => UsernameOk(a))
      BY <1>3, <2>1 DEF CheckUsername, Check, AccountInv, AccountType, Existing
    <3> QED BY <3>1 DEF FormOk, PhoneWasFree, UsernameOk
  <2>2. CASE CheckEmail(a)
    <3>1. a \notin Existing' /\ rpc[a] = "email" /\ (rpc'[a] = "phone" \/ rpc'[a] = "failed")
          /\ (rpc'[a] = "phone" => EmailOk(a))
      BY <1>3, <2>2 DEF CheckEmail, Check, AccountInv, AccountType, Existing
    <3> QED BY <3>1 DEF AccountInv, FormOk, PhoneWasFree, EmailOk
  <2>3. CASE CheckPhone(a)
    <3>1. a \notin Existing' /\ rpc[a] = "phone" /\ (rpc'[a] = "insert" \/ rpc'[a] = "failed")
          /\ (rpc'[a] = "insert" => PhoneOk(a)) /\ before'[a] = before[a] /\ before[a] \subseteq Existing
      BY <1>3, <2>3 DEF CheckPhone, Check, AccountInv, AccountType, Existing
    <3>2. rpc'[a] = "insert" /\ Phone[a] # None => \A b \in Existing : Phone[b] # Phone[a]
      BY <3>1 DEF PhoneOk, Holders
    <3> QED BY <3>1, <3>2 DEF AccountInv, FormOk, PhoneWasFree, PhoneOk
  <2>4. CASE Create(a)
    BY <2>4 DEF Create, AccountInv, AccountType, FormOk, PhoneWasFree, Existing
  <2> QED BY <2>1, <2>2, <2>3, <2>4 DEF Register
<1>9. \A b \in Accounts : b # a => FormOk(b)' /\ PhoneWasFree(b)'
  BY <1>2, <1>4 DEF AccountInv, FormOk, PhoneWasFree
<1>10. \A b \in Accounts : before'[b] \subseteq Existing'
  BY <1>2, <1>4, <1>6 DEF AccountInv
<1>11. \A b, d \in Existing' : b # d => Username[b] # Username[d] /\ Email[b] # Email[d]
  BY <1>2 DEF AccountInv, Unique, Holders
<1>12. \A b \in Existing' : rpc'[b] \in {"done", "failed"}
  <2> SUFFICES ASSUME NEW b \in Existing', b # a PROVE rpc'[b] \in {"done", "failed"}
    BY <1>7
  <2>1. b \in Existing
    BY <1>2
  <2> QED BY <1>4, <2>1 DEF AccountInv, Existing
<1> QED BY <1>1, <1>2, <1>5, <1>8, <1>9, <1>10, <1>11, <1>12 DEF AccountInv

\* The other steps keep the set of accounts, and end registrations at most.
LEMMA AccountsKept ==
  ASSUME AccountInv, AccountType', Existing' = Existing, UNCHANGED before,
         \A a \in Accounts : rpc'[a] = rpc[a] \/ rpc'[a] = "failed"
  PROVE  AccountInv'
<1>1. \A a \in Accounts : FormOk(a)' /\ PhoneWasFree(a)'
  BY DEF AccountInv, FormOk, PhoneWasFree
<1>2. \A a \in Existing' : rpc'[a] \in {"done", "failed"}
  BY DEF AccountInv, Existing
<1> QED BY <1>1, <1>2 DEF AccountInv

LEMMA Exclusive == ASSUME AccountInv PROVE IdentifiersAreExclusive
<1> SUFFICES ASSUME NEW a \in Existing, NEW b \in Existing, a # b
             PROVE  /\ {Username[a], Email[a]} \cap {Username[b], Email[b], Phone[b]} = {}
                    /\ Phone[a] = Phone[b] /\ Phone[a] # None => a \notin before[b] /\ b \notin before[a]
  BY DEF IdentifiersAreExclusive
<1>1. a \in Accounts /\ b \in Accounts
  BY DEF Existing
<1>2. /\ Kind[Username[a]] = "name" /\ Kind[Username[b]] = "name"
      /\ Kind[Email[a]] = "email" /\ Kind[Email[b]] = "email"
      /\ Phone[b] = None \/ Kind[Phone[b]] = "mobile"
  BY <1>1 DEF AccountInv, FormOk
<1>3. Username[a] # Username[b] /\ Email[a] # Email[b]
  BY DEF AccountInv
<1>4. Username[a] # None /\ Email[a] # None
  BY <1>1, IdentifiersAssumption
<1>5. {Username[a], Email[a]} \cap {Username[b], Email[b], Phone[b]} = {}
  BY <1>2, <1>3, <1>4
<1>6. Phone[a] = Phone[b] /\ Phone[a] # None => a \notin before[b] /\ b \notin before[a]
  BY <1>1 DEF AccountInv, PhoneWasFree
<1> QED BY <1>5, <1>6

-----------------------------------------------------------------------------
(* Calls                                                                   *)

\* Which calls get where.
Roles ==
  \A c \in Calls :
    /\ pc[c] = "status" => c \in Refreshes \cup Verifications
    /\ pc[c] = "revoke" => c \in Revocations
    /\ pc[c] \in {"select", "erase", "uncache"} => c \in Writers
    /\ pc[c] \in {"save", "cache", "failed"} => c \in Issuers

\* A call concerns an account that has a row, ...
Owners == \A c \in Calls : owner[c] # None => owner[c] \in Existing

\* ... and a token and a selected row of the same account, of a session that
\* has been issued or stored.
Given ==
  \A c \in Calls : token[c] # None => pc[token[c]] = "done" /\ owner[token[c]] = owner[c]

Stored == {"cache", "done", "failed"}

Selected ==
  \A c \in Calls : chosen[c] # None =>
    /\ pc[c] \in {"erase", "uncache"}
    /\ pc[chosen[c]] \in Stored /\ owner[chosen[c]] = owner[c]

\* Calls that began on a revoked account have got no further than its status.
Barred ==
  \A c \in barred :
    /\ owner[c] \in Accounts /\ users[owner[c]] = "revoked"
    /\ IF c \in Logouts THEN pc[c] # "idle" ELSE pc[c] = "status"

CallType ==
  /\ pc \in [Calls -> PC]
  /\ owner \in [Calls -> Accounts \cup {None}]
  /\ token \in [Calls -> Issuers \cup {None}]
  /\ chosen \in [Calls -> Issuers \cup {None}]
  /\ sessions \in SUBSET Issuers
  /\ cached \in SUBSET Issuers
  /\ overlapped \in SUBSET Accounts
  /\ unfinished \in SUBSET Accounts
  /\ barred \in SUBSET Calls

CallInv == CallType /\ Consistent /\ Roles /\ Owners /\ Given /\ Selected /\ Barred

\* The calls but c stay as they are.
Only(c) ==
  \A d \in Calls : d # c =>
    /\ pc'[d] = pc[d] /\ owner'[d] = owner[d] /\ token'[d] = token[d] /\ chosen'[d] = chosen[d]
    /\ d \in barred' <=> d \in barred

CallVarsTyped ==
  /\ pc' \in [Calls -> PC]
  /\ owner' \in [Calls -> Accounts \cup {None}]
  /\ token' \in [Calls -> Issuers \cup {None}]
  /\ chosen' \in [Calls -> Issuers \cup {None}]
  /\ barred' \in SUBSET Calls

LEMMA GotoShape ==
  ASSUME CallType, NEW c \in Calls, NEW l \in PC, Goto(c, l),
         NEW v \in Issuers \cup {None}, chosen' = [chosen EXCEPT ![c] = v]
  PROVE  /\ CallVarsTyped /\ Only(c)
         /\ pc'[c] = l /\ owner' = owner /\ token' = token /\ chosen'[c] = v /\ barred' = barred
BY DEF CallType, CallVarsTyped, Goto, Only

LEMMA FailShape ==
  ASSUME CallType, NEW c \in Calls, Fail(c),
         NEW v \in Issuers \cup {None}, chosen' = [chosen EXCEPT ![c] = v]
  PROVE  /\ CallVarsTyped /\ Only(c)
         /\ pc'[c] = "idle" /\ owner'[c] = None /\ token'[c] = None /\ chosen'[c] = v
         /\ c \notin barred'
BY DEF CallType, CallVarsTyped, Fail, Only, PC

LEMMA BeginShape ==
  ASSUME CallType, NEW c \in Calls, NEW a \in Accounts, NEW s \in Issuers \cup {None},
         NEW l \in PC, Begin(c, a, s, l)
  PROVE  /\ CallVarsTyped /\ Only(c)
         /\ pc[c] = "idle" /\ pc'[c] = l /\ owner'[c] = a /\ token'[c] = s /\ chosen' = chosen
         /\ c \in barred' => users[a] = "revoked" \/ c \in barred
BY DEF CallType, CallVarsTyped, Begin, Only

LEMMA Unchosen ==
  ASSUME CallType, NEW c \in Calls, UNCHANGED chosen
  PROVE  chosen[c] \in Issuers \cup {None} /\ chosen' = [chosen EXCEPT ![c] = chosen[c]]
BY DEF CallType

\* The ways a call may begin, ...
Begins(c) ==
  \E a \in Existing, s \in Issuers \cup {None}, l \in {"status", "revoke", "select"} :
    /\ Begin(c, a, s, l)
    /\ s # None => s \in sessions \cap Issued /\ owner[s] = a
    /\ l = "status" => c \in Refreshes \cup Verifications
    /\ l = "revoke" => c \in Revocations /\ users[a] = "active"
    /\ l = "select" => c \in Logouts \/ (c \in Logins /\ users[a] = "active")

\* ... fail without a trace, ...
Fails(c) ==
  /\ Fail(c)
  /\ chosen' = [chosen EXCEPT ![c] = None]
  /\ \/ pc[c] \in {"status", "revoke", "save"} /\ UNCHANGED <<sessions, cached, unfinished>>
     \/ /\ pc[c] \in {"select", "erase", "uncache"}
        /\ unfinished' = unfinished \cup {owner[c]}
        /\ \/ UNCHANGED <<sessions, cached>>
           \/ pc[c] = "erase" /\ sessions' = sessions \ {chosen[c]} /\ UNCHANGED cached
           \/ pc[c] = "uncache" /\ cached' = cached \ {chosen[c]} /\ UNCHANGED sessions

\* ... and go on: to the account, through SessionRepo.Delete, ...
ReadsStatus(c) ==
  /\ UNCHANGED <<sessions, cached, unfinished, chosen>>
  /\ \/ pc[c] = "status" /\ users[owner[c]] = "active" /\ c \in Verifications /\ Goto(c, "done")
     \/ pc[c] = "status" /\ users[owner[c]] = "active" /\ c \in Refreshes /\ Goto(c, "select")
     \/ pc[c] = "revoke" /\ Goto(c, "select")

Selects(c) ==
  /\ pc[c] = "select"
  /\ \E s \in SessionsOf(owner[c]) : chosen' = [chosen EXCEPT ![c] = s]
  /\ Goto(c, "erase")
  /\ UNCHANGED <<sessions, cached, unfinished>>

Erases(c) ==
  /\ pc[c] = "erase"
  /\ Goto(c, "uncache")
  /\ sessions' = sessions \ {chosen[c]}
  /\ UNCHANGED <<chosen, cached, unfinished>>

Deletes(c) ==
  /\ Goto(c, IF c \in Issuers THEN "save" ELSE "done")
  /\ chosen' = [chosen EXCEPT ![c] = None]
  /\ UNCHANGED <<sessions, unfinished>>
  /\ \/ pc[c] = "select" /\ SessionsOf(owner[c]) = {} /\ UNCHANGED cached
     \/ pc[c] = "uncache" /\ cached' = cached \ {chosen[c]}

\* ... whose failure does not end RevokeUser, ...
GivesUp(c) ==
  /\ c \in Revocations
  /\ pc[c] \in {"select", "erase", "uncache"}
  /\ Goto(c, "done")
  /\ chosen' = [chosen EXCEPT ![c] = None]
  /\ unfinished' = unfinished \cup {owner[c]}
  /\ \/ UNCHANGED <<sessions, cached>>
     \/ pc[c] = "erase" /\ sessions' = sessions \ {chosen[c]} /\ UNCHANGED cached
     \/ pc[c] = "uncache" /\ cached' = cached \ {chosen[c]} /\ UNCHANGED sessions

\* ... and to the new session.
Saves(c) ==
  /\ pc[c] = "save"
  /\ Goto(c, "cache") \/ Goto(c, "failed")
  /\ sessions' = sessions \cup {c}
  /\ UNCHANGED <<chosen, cached, unfinished>>

Caches(c) ==
  /\ pc[c] = "cache"
  /\ Goto(c, "done")
  /\ cached' = cached \cup {c} \/ UNCHANGED cached
  /\ UNCHANGED <<chosen, sessions, unfinished>>

Goes(c) ==
  /\ UNCHANGED overlapped
  /\ \/ ReadsStatus(c) \/ Selects(c) \/ Erases(c) \/ Deletes(c) \/ GivesUp(c)
     \/ Saves(c) \/ Caches(c)

CallShape(c) == Begins(c) \/ (Fails(c) /\ UNCHANGED overlapped) \/ Goes(c)

LEMMA NoneChosen ==
  ASSUME CallInv, NEW c \in Calls, pc[c] \notin {"erase", "uncache"}, UNCHANGED chosen
  PROVE  chosen' = [chosen EXCEPT ![c] = None]
BY DEF CallInv, CallType, Selected

LEMMA CallHasShape ==
  ASSUME CallInv, NEW c \in Calls, Call(c)
  PROVE  CallShape(c)
<1>1. CASE Login(c)
  <2>1. PICK i \in Identifiers : \E a \in Matches(i) :
          c \in Logins /\ users[a] = "active" /\ Begin(c, a, None, "select")
    BY <1>1 DEF Login
  <2>2. Matches(i) \subseteq Existing
    BY DEF Matches, Holders
  <2> QED BY <2>1, <2>2 DEF CallShape, Begins
<1>2. CASE GetTokenInfo(c)
  <2>1. PICK s \in Issued \cap sessions :
          Begin(c, owner[s], s, IF c \in Logouts THEN "select" ELSE "status")
    BY <1>2 DEF GetTokenInfo
  <2>2. s \in Issuers /\ owner[s] \in Existing
    BY DEF Issued, CallInv, Owners, Consistent, Calls, Writers
  <2>3. c \in Logouts \/ (c \in Refreshes /\ c \notin Logouts)
    BY <1>2, CallsAssumption DEF GetTokenInfo
  <2> QED BY <2>1, <2>2, <2>3 DEF CallShape, Begins
<1>3. CASE VerifyAccessToken(c)
  <2>1. PICK s \in Issued \cap cached : c \in Verifications /\ Begin(c, owner[s], None, "status")
    BY <1>3 DEF VerifyAccessToken
  <2>2. owner[s] \in Existing
    BY DEF Issued, CallInv, Owners, Consistent, Calls, Writers
  <2> QED BY <2>1, <2>2 DEF CallShape, Begins
<1>4. CASE RevokeUser(c)
  BY <1>4 DEF RevokeUser, CallShape, Begins, Existing
<1>5. CASE CheckStatus(c)
  <2>1. c \in Refreshes \cup Verifications /\ Refreshes \cap Verifications = {}
    BY <1>5, CallsAssumption DEF CheckStatus, CallInv, Roles
  <2>2. chosen' = [chosen EXCEPT ![c] = None]
    BY <1>5, NoneChosen DEF CheckStatus
  <2> QED BY <1>5, <2>1, <2>2 DEF CheckStatus, CallShape, Fails, Goes, ReadsStatus, storeVars
<1>6. CASE MarkRevoked(c)
  <2>1. chosen' = [chosen EXCEPT ![c] = None]
    BY <1>6, NoneChosen DEF MarkRevoked
  <2> QED BY <1>6, <2>1 DEF MarkRevoked, CallShape, Fails, Goes, ReadsStatus, storeVars
<1>7. CASE Select(c)
  <2>1. UNCHANGED chosen => chosen' = [chosen EXCEPT ![c] = None]
    BY <1>7, NoneChosen DEF Select
  <2> QED BY <1>7, <2>1 DEF Select, CallShape, Fails, Goes, Selects, Deletes, GivesUp, Deleted,
          DeleteFails, storeVars
<1>8. CASE Erase(c)
  BY <1>8 DEF Erase, CallShape, Fails, Goes, Erases, GivesUp, DeleteFails
<1>9. CASE Uncache(c)
  BY <1>9 DEF Uncache, CallShape, Fails, Goes, Deletes, GivesUp, Deleted, DeleteFails
<1>10. CASE Save(c)
  <2>1. chosen' = [chosen EXCEPT ![c] = None]
    BY <1>10, NoneChosen DEF Save
  <2> QED BY <1>10, <2>1 DEF Save, CallShape, Fails, Goes, Saves
<1>11. CASE Cache(c)
  BY <1>11 DEF Cache, CallShape, Goes, Caches
<1> QED
  BY <1>1, <1>2, <1>3, <1>4, <1>5, <1>6, <1>7, <1>8, <1>9, <1>10, <1>11 DEF Call

\* What such a step does to the call itself.
Effect(c) ==
  /\ CallVarsTyped /\ Only(c)
  /\ pc[c] \notin {"done", "failed"}
  /\ pc[c] = "cache" => pc'[c] = "done" /\ owner'[c] = owner[c]
  /\ pc'[c] # "idle" => owner'[c] \in Existing
  /\ owner'[c] # None => owner'[c] \in Existing

RowsEffect(c) ==
  /\ \/ sessions' \subseteq sessions
     \/ sessions' \subseteq sessions \cup {c} /\ pc'[c] \in {"cache", "failed"} /\ c \in Issuers
  /\ \/ cached' \subseteq cached
     \/ cached' \subseteq cached \cup {c} /\ pc'[c] = "done" /\ c \in Issuers

ChosenEffect(c) ==
  /\ pc'[c] \in {"erase", "uncache"} => chosen'[c] # None
  /\ chosen'[c] # None =>
       /\ pc'[c] \in {"erase", "uncache"} /\ owner'[c] = owner[c]
       /\ chosen'[c] = chosen[c] \/ chosen'[c] \in SessionsOf(owner[c])

TokenEffect(c) ==
  token'[c] # None =>
    \/ token'[c] = token[c] /\ owner'[c] = owner[c]
    \/ token'[c] \in Issued /\ owner[token'[c]] = owner'[c]

RoleEffect(c) ==
  /\ pc'[c] = "status" => c \in Refreshes \cup Verifications
  /\ pc'[c] = "revoke" => c \in Revocations
  /\ pc'[c] \in {"select", "erase", "uncache"} => c \in Writers
  /\ pc'[c] \in {"save", "cache", "failed"} => c \in Issuers

BarredEffect(c) ==
  c \in barred' => /\ owner'[c] \in Accounts /\ users[owner'[c]] = "revoked"
                   /\ IF c \in Logouts THEN pc'[c] # "idle" ELSE pc'[c] = "status"

AllEffects(c) ==
  Effect(c) /\ RowsEffect(c) /\ ChosenEffect(c) /\ TokenEffect(c) /\ RoleEffect(c) /\ BarredEffect(c)

LEMMA BeginsEffects ==
  ASSUME CallInv, NEW c \in Calls, Begins(c)
  PROVE  AllEffects(c)
<1>1. PICK a \in Existing, s \in Issuers \cup {None}, l \in {"status", "revoke", "select"} :
        /\ Begin(c, a, s, l)
        /\ s # None => s \in sessions \cap Issued /\ owner[s] = a
        /\ l = "status" => c \in Refreshes \cup Verifications
        /\ l = "revoke" => c \in Revocations /\ users[a] = "active"
        /\ l = "select" => c \in Logouts \/ (c \in Logins /\ users[a] = "active")
  BY DEF Begins
<1>2. a \in Accounts
  BY DEF Existing
<1>3. /\ CallVarsTyped /\ Only(c)
      /\ pc[c] = "idle" /\ pc'[c] = l /\ owner'[c] = a /\ token'[c] = s /\ chosen' = chosen
      /\ c \in barred' => users[a] = "revoked" \/ c \in barred
  BY <1>1, <1>2, BeginShape DEF CallInv, PC
<1>4. UNCHANGED <<sessions, cached>>
  BY <1>1 DEF Begin, storeVars
<1>5. c \notin barred /\ chosen[c] = None
  BY <1>3 DEF CallInv, Barred, Selected
<1>6. Effect(c) /\ RowsEffect(c)
  BY <1>3, <1>4 DEF Effect, RowsEffect
<1>7. ChosenEffect(c)
  BY <1>3, <1>5 DEF ChosenEffect
<1>8. TokenEffect(c)
  BY <1>1, <1>3 DEF TokenEffect
<1>9. RoleEffect(c)
  BY <1>1, <1>3 DEF RoleEffect, Writers, Issuers
<1>10. BarredEffect(c)
  BY <1>1, <1>2, <1>3, <1>5, CallsAssumption DEF BarredEffect
<1> QED BY <1>6, <1>7, <1>8, <1>9, <1>10 DEF AllEffects

LEMMA FailsEffects ==
  ASSUME CallInv, NEW c \in Calls, Fails(c)
  PROVE  AllEffects(c)
<1>1. /\ CallVarsTyped /\ Only(c)
      /\ pc'[c] = "idle" /\ owner'[c] = None /\ token'[c] = None /\ chosen'[c] = None
      /\ c \notin barred'
  BY FailShape DEF CallInv, Fails
<1>2. pc[c] \notin {"done", "failed", "cache"}
  BY DEF Fails
<1>3. sessions' \subseteq sessions /\ cached' \subseteq cached
  BY DEF Fails
<1> QED BY <1>1, <1>2, <1>3 DEF AllEffects, Effect, RowsEffect, ChosenEffect, TokenEffect,
        RoleEffect, BarredEffect

LEMMA GoesEffects ==
  ASSUME CallInv, NEW c \in Calls, Goes(c)
  PROVE  AllEffects(c)
<1>1. \E l \in PC, v \in Issuers \cup {None} : Goto(c, l) /\ chosen' = [chosen EXCEPT ![c] = v]
  BY Unchosen DEF Goes, ReadsStatus, Selects, Erases, Deletes, GivesUp, Saves, Caches, PC,
     CallInv, CallType, SessionsOf
<1>2. PICK l \in PC, v \in Issuers \cup {None} :
        /\ Goto(c, l) /\ chosen' = [chosen EXCEPT ![c] = v]
        /\ CallVarsTyped /\ Only(c)
        /\ pc'[c] = l /\ owner' = owner /\ token' = token /\ chosen'[c] = v /\ barred' = barred
  BY <1>1, GotoShape DEF CallInv
<1>3. \A k : Goto(c, k) => pc'[c] = k
  BY DEF Goto, CallInv, CallType
<1>4. \A w : chosen' = [chosen EXCEPT ![c] = w] => chosen'[c] = w
  BY DEF CallInv, CallType
<1>5. pc[c] \in {"status", "revoke", "select", "erase", "uncache", "save", "cache"}
  BY DEF Goes, ReadsStatus, Selects, Erases, Deletes, GivesUp, Saves, Caches
<1>6. Effect(c)
  <2>1. owner[c] \in Existing
    BY <1>5 DEF CallInv, Consistent, Owners
  <2>2. pc[c] = "cache" => pc'[c] = "done"
    BY <1>3 DEF Goes, ReadsStatus, Selects, Erases, Deletes, GivesUp, Saves, Caches
  <2> QED BY <1>2, <1>5, <2>1, <2>2 DEF Effect
<1>7. RowsEffect(c)
  <2>1. pc[c] \in {"save", "cache"} => c \in Issuers
    BY DEF CallInv, Roles
  <2> QED BY <1>3, <2>1 DEF RowsEffect, Goes, ReadsStatus, Selects, Erases, Deletes, GivesUp, Saves,
          Caches
<1>8. ChosenEffect(c)
  <2>1. None \notin sessions
    BY CallsAssumption DEF CallInv, CallType, Calls, Writers
  <2>2. pc[c] = "erase" => chosen[c] # None
    BY DEF CallInv, Consistent
  <2>3. pc[c] \notin {"erase", "uncache"} => chosen[c] = None
    BY DEF CallInv, Selected
  <2>4. CASE ReadsStatus(c) \/ Saves(c) \/ Caches(c)
    BY <1>3, <2>3, <2>4 DEF ChosenEffect, ReadsStatus, Saves, Caches
  <2>5. CASE Selects(c)
    BY <1>2, <1>3, <1>4, <2>1, <2>5 DEF ChosenEffect, Selects, SessionsOf
  <2>6. CASE Erases(c)
    BY <1>2, <1>3, <2>2, <2>6 DEF ChosenEffect, Erases
  <2>7. CASE Deletes(c) \/ GivesUp(c)
    BY <1>3, <1>4, <2>7 DEF ChosenEffect, Deletes, GivesUp
  <2> QED BY <2>4, <2>5, <2>6, <2>7 DEF Goes
<1>9. TokenEffect(c)
  BY <1>2 DEF TokenEffect
<1>10. RoleEffect(c)
  <2>1. /\ pc[c] \in {"select", "erase", "uncache"} => c \in Writers
        /\ pc[c] = "revoke" => c \in Revocations
        /\ pc[c] \in {"save", "cache"} => c \in Issuers
    BY DEF CallInv, Roles
  <2> QED BY <1>3, <2>1 DEF RoleEffect, Goes, ReadsStatus, Selects, Erases, Deletes, GivesUp, Saves,
          Caches, Writers, Issuers
<1>11. BarredEffect(c)
  <2> SUFFICES ASSUME c \in barred
               PROVE  /\ owner[c] \in Accounts /\ users[owner[c]] = "revoked"
                      /\ IF c \in Logouts THEN pc'[c] # "idle" ELSE pc'[c] = "status"
    BY <1>2 DEF BarredEffect
  <2>1. /\ owner[c] \in Accounts /\ users[owner[c]] = "revoked"
        /\ c \notin Logouts => pc[c] = "status"
    BY DEF CallInv, Barred
  <2>2. pc[c] # "status"
    BY <2>1 DEF Goes, ReadsStatus, Selects, Erases, Deletes, GivesUp, Saves, Caches
  <2>3. pc'[c] # "idle"
    BY <1>3 DEF Goes, ReadsStatus, Selects, Erases, Deletes, GivesUp, Saves, Caches
  <2> QED BY <2>1, <2>2, <2>3
<1> QED BY <1>6, <1>7, <1>8, <1>9, <1>10, <1>11 DEF AllEffects

LEMMA CallEffects ==
  ASSUME CallInv, NEW c \in Calls, Call(c)
  PROVE  AllEffects(c)
BY CallHasShape, BeginsEffects, FailsEffects, GoesEffects DEF CallShape

\* A revoked account stays revoked, and every account stays.
UsersKept ==
  /\ Existing \subseteq Existing'
  /\ \A a \in Existing : users'[a] = users[a] \/ users'[a] = "revoked"

LEMMA CallUsers ==
  ASSUME AccountInv, CallInv, NEW c \in Calls, Call(c)
  PROVE  AccountInv' /\ UsersKept
<1>1. CASE MarkRevoked(c)
  <2>1. owner[c] \in Existing
    BY <1>1 DEF MarkRevoked, CallInv, Consistent, Owners
  <2>2. users' = users \/ users' = [users EXCEPT ![owner[c]] = "revoked"]
    BY <1>1 DEF MarkRevoked
  <2>3. AccountType' /\ Existing' = Existing /\ UsersKept
    BY <1>1, <2>1, <2>2 DEF MarkRevoked, AccountInv, AccountType, Existing, UsersKept
  <2> QED BY <1>1, <2>3, AccountsKept DEF MarkRevoked
<1>2. CASE UNCHANGED accountVars
  BY <1>2, AccountsKept DEF accountVars, AccountInv, AccountType, Existing, UsersKept
<1> QED
  BY <1>1, <1>2 DEF Call, Login, GetTokenInfo, VerifyAccessToken, RevokeUser, Begin, CheckStatus,
                    Select, Erase, Uncache, Save, Cache

LEMMA CallHistory ==
  ASSUME CallInv, NEW c \in Calls, Call(c)
  PROVE  overlapped' \in SUBSET Accounts /\ unfinished' \in SUBSET Accounts
<1>1. CallShape(c)
  BY CallHasShape
<1>2. CASE Begins(c)
  BY <1>2 DEF Begins, Begin, Existing, CallInv, CallType
<1>3. CASE (Fails(c) /\ UNCHANGED overlapped) \/ Goes(c)
  <2>1. pc[c] # "idle" => owner[c] \in Accounts
    BY DEF CallInv, Consistent, CallType
  <2> QED BY <1>3, <2>1 DEF Fails, Goes, ReadsStatus, Selects, Erases, Deletes, GivesUp, Saves, Caches,
          CallInv, CallType
<1> QED BY <1>1, <1>2, <1>3 DEF CallShape

LEMMA CallStep ==
  ASSUME AccountInv, CallInv, NEW c \in Calls, Call(c)
  PROVE  CallInv'
<1>1. AllEffects(c) /\ UsersKept
  BY CallEffects, CallUsers
<1>2. CallVarsTyped /\ Only(c) /\ pc[c] \notin {"done", "failed"} /\ c \in Calls
  BY <1>1 DEF AllEffects, Effect
<1>3. CallType'
  BY <1>1, <1>2, CallHistory DEF CallInv, CallType, CallVarsTyped, AllEffects, RowsEffect
<1>4. Consistent'
  <2>1. \A s \in sessions : pc[s] \in Stored /\ s \in Calls
    BY DEF CallInv, CallType, Consistent, Stored, Calls, Writers
  <2>2. \A s \in cached : pc[s] = "done" /\ s \in Calls
    BY DEF CallInv, CallType, Consistent, Calls, Writers
  <2>3. \A s \in sessions' : pc'[s] \in {"cache", "done", "failed"}
    BY <1>1, <1>2, <2>1 DEF AllEffects, RowsEffect, Effect, Only, Stored
  <2>4. \A s \in cached' : pc'[s] = "done"
    BY <1>1, <1>2, <2>2 DEF AllEffects, RowsEffect, Only
  <2>5. ASSUME NEW d \in Calls
        PROVE  /\ pc'[d] # "idle" => owner'[d] # None
               /\ pc'[d] \in {"erase", "uncache"} => chosen'[d] # None
    <3>1. CASE d = c
      <4>1. None \notin Existing
        BY IdentifiersAssumption DEF Existing
      <4> QED BY <1>1, <3>1, <4>1 DEF AllEffects, Effect, ChosenEffect
    <3>2. CASE d # c
      BY <1>2, <3>2 DEF Only, CallInv, Consistent
    <3> QED BY <3>1, <3>2
  <2> QED BY <2>3, <2>4, <2>5 DEF Consistent
<1>5. Roles'
  BY <1>1, <1>2 DEF CallInv, Roles, AllEffects, RoleEffect, Only
<1>6. Owners'
  <2> SUFFICES ASSUME NEW d \in Calls, owner'[d] # None
               PROVE  owner'[d] \in Existing'
    BY DEF Owners
  <2>1. CASE d = c
    BY <1>1, <2>1 DEF AllEffects, Effect, UsersKept
  <2>2. CASE d # c
    BY <1>1, <1>2, <2>2 DEF Only, CallInv, Owners, UsersKept
  <2> QED BY <2>1, <2>2
<1>7. \A s \in Calls : pc[s] \in Stored => pc'[s] \in Stored /\ owner'[s] = owner[s]
                                       /\ (pc[s] = "done" => pc'[s] = "done")
  BY <1>1, <1>2 DEF AllEffects, Effect, Only, Stored
<1>8. Given'
  <2> SUFFICES ASSUME NEW d \in Calls, token'[d] # None
               PROVE  pc'[token'[d]] = "done" /\ owner'[token'[d]] = owner'[d]
    BY DEF Given
  <2>1. pc[token'[d]] = "done" /\ owner[token'[d]] = owner'[d] /\ token'[d] \in Calls
    <3>1. token'[d] \in Issuers
      BY <1>2 DEF CallVarsTyped
    <3>2. CASE d = c
      BY <1>1, <3>1, <3>2 DEF AllEffects, TokenEffect, CallInv, Given, Issued, Calls, Writers
    <3>3. CASE d # c
      BY <1>2, <3>1, <3>3 DEF Only, CallInv, Given, Calls, Writers
    <3> QED BY <3>2, <3>3
  <2> QED BY <1>7, <2>1 DEF Stored
<1>9. Selected'
  <2> SUFFICES ASSUME NEW d \in Calls, chosen'[d] # None
               PROVE  /\ pc'[d] \in {"erase", "uncache"}
                      /\ pc'[chosen'[d]] \in Stored /\ owner'[chosen'[d]] = owner'[d]
    BY DEF Selected
  <2>1. /\ pc'[d] \in {"erase", "uncache"} /\ chosen'[d] \in Calls
        /\ pc[chosen'[d]] \in Stored /\ owner[chosen'[d]] = owner'[d]
    <3>1. chosen'[d] \in Calls
      BY <1>2 DEF CallVarsTyped, Calls, Writers
    <3>2. CASE d = c
      BY <1>1, <3>1, <3>2 DEF AllEffects, ChosenEffect, CallInv, Selected, SessionsOf, Consistent, Stored
    <3>3. CASE d # c
      BY <1>2, <3>1, <3>3 DEF Only, CallInv, Selected
    <3> QED BY <3>1, <3>2, <3>3
  <2> QED BY <1>7, <2>1
<1>10. Barred'
  <2> SUFFICES ASSUME NEW d \in barred'
               PROVE  /\ owner'[d] \in Accounts /\ users'[owner'[d]] = "revoked"
                      /\ IF d \in Logouts THEN pc'[d] # "idle" ELSE pc'[d] = "status"
    BY DEF Barred
  <2>1. d \in Calls
    BY <1>2 DEF CallVarsTyped
  <2>2. /\ owner'[d] \in Accounts /\ users[owner'[d]] = "revoked"
        /\ IF d \in Logouts THEN pc'[d] # "idle" ELSE pc'[d] = "status"
    BY <1>1, <1>2, <2>1 DEF AllEffects, BarredEffect, Only, CallInv, Barred
  <2> QED BY <1>1, <2>2 DEF UsersKept, Existing
<1> QED BY <1>3, <1>4, <1>5, <1>6, <1>8, <1>9, <1>10 DEF CallInv

\* The steps of nobody's call.
LEMMA StillStep ==
  ASSUME CallInv, UNCHANGED callVars, UNCHANGED historyVars, UNCHANGED sessions,
         cached' \subseteq cached, UsersKept
  PROVE  CallInv'
<1> USE DEF callVars, historyVars, CallInv
<1>1. CallType' /\ Consistent'
  BY DEF CallType, Consistent
<1>2. Roles' /\ Given' /\ Selected'
  BY DEF Roles, Given, Selected
<1>3. Owners'
  BY DEF Owners, UsersKept
<1>4. Barred'
  BY DEF Barred, UsersKept, Existing
<1> QED BY <1>1, <1>2, <1>3, <1>4

LEMMA CrashStep ==
  ASSUME AccountInv, CallInv, Crash
  PROVE  AccountInv' /\ CallInv' /\ UsersKept
<1> DEFINE lost == {c \in Calls : Running(c)}
<1>1. AccountInv' /\ UsersKept /\ users' = users
  <2>1. /\ rpc' = [a \in Accounts |-> IF rpc[a] \in {"idle", "done"} THEN rpc[a] ELSE "failed"]
        /\ UNCHANGED <<users, before>>
    BY DEF Crash, AbortRegistrations
  <2>2. AccountType' /\ Existing' = Existing /\ UsersKept
    BY <2>1 DEF AccountInv, AccountType, Existing, UsersKept
  <2> QED BY <2>1, <2>2, AccountsKept
<1>2. \A c \in Calls :
        /\ pc'[c] = IF Running(c) THEN (IF pc[c] = "cache" THEN "failed" ELSE "idle") ELSE pc[c]
        /\ owner'[c] = IF Running(c) /\ pc[c] # "cache" THEN None ELSE owner[c]
        /\ token'[c] = IF Running(c) THEN None ELSE token[c]
        /\ chosen'[c] = None
        /\ c \in barred' <=> c \in barred /\ ~ Running(c)
  BY DEF Crash
<1>3. CallType'
  <2>1. CallVarsTyped
    BY <1>2 DEF Crash, CallVarsTyped, CallInv, CallType, PC
  <2>2. \A c \in Calls : Running(c) => owner[c] \in Accounts
    BY DEF Running, CallInv, CallType, Consistent
  <2>3. unfinished' \subseteq Accounts
    BY <2>2 DEF Crash, CallInv, CallType
  <2> QED BY <2>1, <2>3 DEF Crash, CallInv, CallType, CallVarsTyped, storeVars
<1>4. UNCHANGED <<sessions, cached>>
  BY DEF Crash, storeVars
<1>5. \A s \in Calls : pc[s] \in Stored => pc'[s] \in Stored /\ owner'[s] = owner[s]
                                       /\ (pc[s] = "done" => pc'[s] = "done")
  BY <1>2 DEF Stored, Running
<1>6. Consistent'
  <2>1. sessions \subseteq Calls /\ cached \subseteq Calls
    BY DEF CallInv, CallType, Calls, Writers
  <2>2. \A c \in Calls : /\ pc'[c] # "idle" => owner'[c] # None
                        /\ pc'[c] \notin {"erase", "uncache"}
    BY <1>2 DEF CallInv, Consistent, Running
  <2> QED BY <1>4, <1>5, <2>1, <2>2 DEF CallInv, Consistent, Stored
<1>7. Roles'
  BY <1>2 DEF CallInv, Roles, Running
<1>8. Owners'
  BY <1>1, <1>2 DEF CallInv, Owners, UsersKept
<1>9. Given'
  <2> SUFFICES ASSUME NEW d \in Calls, token'[d] # None
               PROVE  pc'[token'[d]] = "done" /\ owner'[token'[d]] = owner'[d]
    BY DEF Given
  <2>1. token'[d] = token[d] /\ ~ Running(d) /\ owner'[d] = owner[d]
    BY <1>2
  <2>2. token[d] \in Calls /\ pc[token[d]] = "done" /\ owner[token[d]] = owner[d]
    BY <2>1 DEF CallInv, CallType, Given, Calls, Writers
  <2> QED BY <1>5, <2>1, <2>2 DEF Stored
<1>10. Selected'
  BY <1>2 DEF Selected
<1>11. Barred'
  <2>1. \A c \in barred' : c \in barred /\ c \in Calls
    BY <1>2, <1>3 DEF CallType
  <2> QED BY <1>1, <1>2, <2>1 DEF CallInv, Barred, Running
<1> QED BY <1>1, <1>3, <1>6, <1>7, <1>8, <1>9, <1>10, <1>11 DEF CallInv

CoreInv == AccountInv /\ CallInv

LEMMA CoreStep ==
  ASSUME CoreInv, [Next]_vars
  PROVE  CoreInv'
<1>1. CASE UNCHANGED vars
  <2>1. /\ UNCHANGED <<users, rpc, before>> /\ UNCHANGED callVars /\ UNCHANGED historyVars
        /\ UNCHANGED <<sessions, cached>>
    BY <1>1 DEF vars, accountVars, storeVars
  <2>2. AccountType' /\ Existing' = Existing /\ UsersKept
    BY <2>1 DEF CoreInv, AccountInv, AccountType, Existing, UsersKept
  <2> QED BY <2>1, <2>2, AccountsKept, StillStep DEF CoreInv
<1>2. ASSUME NEW a \in Accounts, Register(a), UNCHANGED <<callVars, storeVars, historyVars>>
      PROVE  CoreInv'
  <2>1. AccountInv' /\ UsersKept
    BY <1>2, RegisterStep DEF CoreInv, UsersKept
  <2> QED BY <1>2, <2>1, StillStep DEF CoreInv, storeVars
<1>3. ASSUME NEW c \in Calls, Call(c)
      PROVE  CoreInv'
  BY <1>3, CallUsers, CallStep DEF CoreInv
<1>4. ASSUME NEW s \in Issuers, TokenExpire(s)
      PROVE  CoreInv'
  <2>1. /\ UNCHANGED <<users, rpc, before>> /\ UNCHANGED callVars /\ UNCHANGED historyVars
        /\ UNCHANGED sessions /\ cached' \subseteq cached
    BY <1>4 DEF TokenExpire, accountVars
  <2>2. AccountType' /\ Existing' = Existing /\ UsersKept
    BY <2>1 DEF CoreInv, AccountInv, AccountType, Existing, UsersKept
  <2> QED BY <2>1, <2>2, AccountsKept, StillStep DEF CoreInv
<1>5. CASE Crash
  BY <1>5, CrashStep DEF CoreInv
<1> QED BY <1>1, <1>2, <1>3, <1>4, <1>5 DEF Next

LEMMA CoreInit == Init => CoreInv
<1> SUFFICES ASSUME Init PROVE CoreInv
  OBVIOUS
<1>1. AccountInv
  BY DEF Init, AccountInit, AccountInv, AccountType, Existing, FormOk, PhoneWasFree
<1>2. CallType
  BY DEF Init, CallType, PC
<1>3. Consistent /\ Roles /\ Owners /\ Given /\ Selected /\ Barred
  BY DEF Init, Consistent, Roles, Owners, Given, Selected, Barred
<1> QED BY <1>1, <1>2, <1>3 DEF CoreInv, CallInv

LEMMA Core == Spec => []CoreInv
BY CoreInit, CoreStep, PTL DEF Spec

\* Every variable keeps its type, what the stores hold was issued, and a call
\* that has begun has an account.
THEOREM TypeCorrect == Spec => []TypeOK
<1>1. CoreInv => TypeOK
  BY DEF CoreInv, AccountInv, CallInv, CallType, TypeOK
<1> QED BY <1>1, Core, PTL

\* An identifier leads to one account, except for a phone number that was asked
\* for by registrations that overlapped (Register's checks and unique indexes).
THEOREM ExclusiveIdentifiers == Spec => []IdentifiersAreExclusive
<1>1. CoreInv => IdentifiersAreExclusive
  BY Exclusive DEF CoreInv
<1> QED BY <1>1, Core, PTL

\* A call that began on a revoked account does not come to its end, whatever
\* sessions and tokens the revocation left behind (UserStatusCheck).
THEOREM RefusedWhenRevoked == Spec => []RevokedIsRefused
<1>1. CoreInv => RevokedIsRefused
  BY DEF CoreInv, CallInv, Barred, RevokedIsRefused
<1> QED BY <1>1, Core, PTL

-----------------------------------------------------------------------------
(* Sessions                                                                *)

\* While no writers of account a have overlapped, one runs at most and knows
\* what the table holds.
AloneOn(a) == \A c, d \in WritersOf(a) : c = d

RowsKnown(a) ==
  /\ \A s, t \in SessionsOf(a) : s = t
  /\ \A c \in WritersOf(a) :
       /\ pc[c] = "erase" => SessionsOf(a) \subseteq {chosen[c]}
       /\ pc[c] \in {"uncache", "save"} => SessionsOf(a) = {}
       /\ pc[c] = "cache" => c \in sessions

\* A token that was given to a call which has come past Delete is gone.
TokensGone(a) ==
  \A c \in Logouts \cup Refreshes :
    owner[c] = a /\ pc[c] \in {"uncache", "save", "cache", "done"} => token[c] \notin sessions

\* While none has failed either, a cached token has its row, unless Delete is
\* about to take the token too.
CacheKnown(a) ==
  a \notin unfinished =>
    \A s \in cached : owner[s] = a =>
      s \in sessions \/ \E c \in WritersOf(a) : pc[c] = "uncache" /\ chosen[c] = s

SessionInv ==
  \A a \in Accounts \ overlapped :
    AloneOn(a) /\ RowsKnown(a) /\ TokensGone(a) /\ CacheKnown(a)

Inv == CoreInv /\ SessionInv

\* What the sessions and the issued tokens rest on.
LEMMA CoreFacts ==
  ASSUME CoreInv
  PROVE  /\ \A s \in sessions : s \in Calls /\ pc[s] \in Stored
         /\ \A s \in cached : s \in Calls /\ pc[s] = "done"
         /\ \A c \in Calls : pc[c] # "idle" => owner[c] \in Accounts
         /\ \A c \in Calls : token[c] \in sessions => owner[token[c]] = owner[c]
         /\ Logouts \cup Refreshes \subseteq Writers /\ Writers \subseteq Calls
         /\ Issuers \subseteq Writers /\ None \notin Calls
<1>1. None \notin Calls
  BY CallsAssumption
<1>2. Logouts \cup Refreshes \subseteq Writers /\ Writers \subseteq Calls /\ Issuers \subseteq Writers
  BY DEF Writers, Calls, Issuers
<1>3. /\ \A s \in sessions : s \in Calls /\ pc[s] \in Stored
      /\ \A s \in cached : s \in Calls /\ pc[s] = "done"
      /\ \A c \in Calls : pc[c] # "idle" => owner[c] \in Accounts
  BY <1>2 DEF CoreInv, CallInv, CallType, Consistent, Stored
<1>4. \A c \in Calls : token[c] \in sessions => owner[token[c]] = owner[c]
  BY <1>1, <1>3 DEF CoreInv, CallInv, Given
<1> QED BY <1>1, <1>2, <1>3, <1>4

\* A running writer is the only one of its account, unless it is overlapped.
LEMMA OnlyWriter ==
  ASSUME Inv, NEW c \in Writers, Running(c), owner[c] \notin overlapped,
         NEW d \in Writers, Running(d), owner[d] = owner[c]
  PROVE  d = c
<1>1. owner[c] \in Accounts \ overlapped
  BY CoreFacts DEF Inv, Running
<1> QED BY <1>1 DEF Inv, SessionInv, AloneOn, WritersOf

\* The state of the writer's own account, when it is not overlapped.
LEMMA WriterKnows ==
  ASSUME Inv, NEW c \in Writers, Running(c), owner[c] \notin overlapped
  PROVE  /\ \A s, t \in SessionsOf(owner[c]) : s = t
         /\ pc[c] = "erase" => SessionsOf(owner[c]) \subseteq {chosen[c]}
         /\ pc[c] \in {"uncache", "save"} => SessionsOf(owner[c]) = {}
         /\ pc[c] = "cache" => c \in sessions
<1>1. owner[c] \in Accounts \ overlapped
  BY CoreFacts DEF Inv, Running
<1> QED BY <1>1 DEF Inv, SessionInv, RowsKnown, WritersOf

LEMMA BeginsKeepsSessions ==
  ASSUME Inv, CoreInv', NEW c \in Calls, Begins(c)
  PROVE  SessionInv'
<1>1. PICK a \in Existing, s \in Issuers \cup {None}, l \in {"status", "revoke", "select"} :
        Begin(c, a, s, l)
  BY DEF Begins
<1>2. a \in Accounts
  BY DEF Existing
<1>3. /\ Only(c) /\ pc[c] = "idle" /\ pc'[c] = l /\ owner'[c] = a /\ chosen' = chosen
  BY <1>1, <1>2, BeginShape DEF Inv, CoreInv, CallInv, PC
<1>4. UNCHANGED <<sessions, cached, unfinished>>
      /\ overlapped' = IF c \in Writers /\ WritersOf(a) # {} THEN overlapped \cup {a} ELSE overlapped
  BY <1>1 DEF Begin, storeVars
<1>5. c \notin sessions /\ c \notin cached
  BY <1>3, CoreFacts DEF Inv, Stored
<1>6. /\ \A s_1 \in sessions : s_1 \in Calls /\ owner'[s_1] = owner[s_1]
      /\ \A s_1 \in cached : s_1 \in Calls /\ owner'[s_1] = owner[s_1]
  BY <1>3, <1>5, CoreFacts DEF Inv, Only
<1> SUFFICES ASSUME NEW b \in Accounts \ overlapped'
             PROVE  (AloneOn(b) /\ RowsKnown(b) /\ TokensGone(b) /\ CacheKnown(b))'
  BY DEF SessionInv
<1>7. AloneOn(b) /\ RowsKnown(b) /\ TokensGone(b) /\ CacheKnown(b)
  BY <1>4 DEF Inv, SessionInv
<1>8. SessionsOf(b)' = SessionsOf(b)
  BY <1>4, <1>6 DEF SessionsOf
<1>9. WritersOf(b)' = WritersOf(b) \/ (WritersOf(b)' = {c} /\ WritersOf(b) = {})
  <2>1. \A d \in Writers : d # c => (d \in WritersOf(b)' <=> d \in WritersOf(b))
    BY <1>3, CoreFacts DEF Inv, Only, WritersOf, Running
  <2>2. c \notin WritersOf(b)
    BY <1>3 DEF WritersOf, Running
  <2>3. c \in WritersOf(b)' => WritersOf(b) = {}
    BY <1>3, <1>4 DEF WritersOf
  <2> QED BY <2>1, <2>2, <2>3 DEF WritersOf
<1>10. \A d \in WritersOf(b) : d # c /\ pc'[d] = pc[d] /\ chosen'[d] = chosen[d]
  BY <1>3, CoreFacts DEF Inv, Only, WritersOf, Running
<1>11. AloneOn(b)'
  BY <1>7, <1>9 DEF AloneOn
<1>12. RowsKnown(b)'
  BY <1>3, <1>4, <1>7, <1>8, <1>9, <1>10 DEF RowsKnown
<1>13. TokensGone(b)'
  BY <1>3, <1>4, <1>7, CoreFacts DEF Inv, TokensGone, Only
<1>14. CacheKnown(b)'
  BY <1>4, <1>6, <1>7, <1>9, <1>10 DEF CacheKnown
<1> QED BY <1>11, <1>12, <1>13, <1>14

\* The accounts that a call is not about see nothing of its steps.
LEMMA OtherAccounts ==
  ASSUME Inv, CoreInv', NEW c \in Calls, Fails(c) \/ Goes(c), UNCHANGED overlapped,
         NEW a \in Accounts \ overlapped, a # owner[c] \/ c \notin Writers
  PROVE  (AloneOn(a) /\ RowsKnown(a) /\ TokensGone(a) /\ CacheKnown(a))'
<1>1. AloneOn(a) /\ RowsKnown(a) /\ TokensGone(a) /\ CacheKnown(a)
  BY DEF Inv, SessionInv
<1>2. Only(c) /\ pc[c] \notin {"idle", "done", "failed"} /\ (owner'[c] = owner[c] \/ owner'[c] = None)
  <2>1. AllEffects(c)
    BY FailsEffects, GoesEffects DEF Inv, CoreInv
  <2>2. owner'[c] = owner[c] \/ owner'[c] = None
    BY DEF Fails, Fail, Goes, ReadsStatus, Selects, Erases, Deletes, GivesUp, Saves, Caches, Goto, Inv,
           CoreInv, CallInv, CallType
  <2>3. pc[c] # "idle"
    BY DEF Fails, Goes, ReadsStatus, Selects, Erases, Deletes, GivesUp, Saves, Caches
  <2> QED BY <2>1, <2>2, <2>3 DEF AllEffects, Effect
<1>3. None \notin Accounts
  BY IdentifiersAssumption
<1>4. c \in Writers => owner'[c] # a /\ owner[c] # a
  BY <1>2, <1>3
<1>5. /\ sessions \cup cached \cup sessions' \cup cached' \subseteq Writers
      /\ \A s \in Writers : s \in Calls /\ (owner'[s] = a <=> owner[s] = a)
  <2>1. sessions \cup cached \cup sessions' \cup cached' \subseteq Writers
    BY DEF Inv, CoreInv, CallInv, CallType, Writers
  <2> QED BY <1>2, <1>4, <2>1, CoreFacts DEF Inv, Only
<1>6. \A s \in Writers : owner[s] = a => (s \in sessions' <=> s \in sessions)
                                     /\ (s \in cached' <=> s \in cached)
  <2>1. pc[c] \in {"erase", "uncache"} => c \in Writers /\ owner[chosen[c]] = owner[c]
    BY DEF Inv, CoreInv, CallInv, Roles, Selected, Consistent
  <2>2. pc[c] \in {"save", "cache"} => c \in Writers
    BY CoreFacts DEF Inv, CoreInv, CallInv, Roles
  <2> QED BY <1>4, <2>1, <2>2 DEF Fails, Goes, ReadsStatus, Selects, Erases, Deletes, GivesUp, Saves,
          Caches
<1>7. SessionsOf(a)' = SessionsOf(a)
  <2>1. \A s \in Writers : s \in sessions' /\ owner'[s] = a <=> s \in sessions /\ owner[s] = a
    BY <1>5, <1>6
  <2>2. sessions \subseteq Writers /\ sessions' \subseteq Writers
    BY <1>5
  <2> QED BY <2>1, <2>2 DEF SessionsOf
<1>8. WritersOf(a)' = WritersOf(a)
      /\ \A d \in WritersOf(a) : d \in Calls /\ owner[d] = a /\ pc'[d] = pc[d] /\ chosen'[d] = chosen[d]
  BY <1>2, <1>4, CoreFacts DEF Inv, Only, WritersOf, Running
<1>9. AloneOn(a)' /\ RowsKnown(a)'
  <2>1. \A d \in WritersOf(a) : d \in sessions => d \in sessions'
    BY <1>6, <1>8 DEF WritersOf
  <2> QED BY <1>1, <1>7, <1>8, <2>1 DEF AloneOn, RowsKnown
<1>10. TokensGone(a)'
  <2> SUFFICES ASSUME NEW d \in Logouts \cup Refreshes, owner'[d] = a,
                      pc'[d] \in {"uncache", "save", "cache", "done"}, token'[d] \in sessions'
               PROVE  FALSE
    BY DEF TokensGone
  <2>1. d \in Writers /\ d \in Calls /\ d # c
    BY <1>4, CoreFacts DEF Inv
  <2>2. owner[d] = a /\ pc[d] = pc'[d] /\ token[d] = token'[d]
    BY <1>2, <2>1 DEF Only
  <2>3. token[d] # c
    BY <1>2, <2>1, CoreFacts DEF Inv, CoreInv, CallInv, Given
  <2>4. token[d] \in sessions
    BY <2>2, <2>3 DEF Fails, Goes, ReadsStatus, Selects, Erases, Deletes, GivesUp, Saves, Caches
  <2> QED BY <1>1, <2>2, <2>4 DEF TokensGone
<1>11. CacheKnown(a)'
  <2>1. a \notin unfinished' => a \notin unfinished
    BY DEF Fails, Goes, ReadsStatus, Selects, Erases, Deletes, GivesUp, Saves, Caches
  <2> SUFFICES ASSUME a \notin unfinished', NEW s \in cached', owner'[s] = a
               PROVE  s \in sessions' \/ \E d \in WritersOf(a)' : pc'[d] = "uncache" /\ chosen'[d] = s
    BY DEF CacheKnown
  <2>2. s \in Writers /\ owner[s] = a /\ s \in cached
    BY <1>5, <1>6
  <2>3. s \in sessions \/ \E d \in WritersOf(a) : pc[d] = "uncache" /\ chosen[d] = s
    BY <1>1, <2>1, <2>2 DEF CacheKnown
  <2> QED BY <1>6, <1>8, <2>2, <2>3
<1> QED BY <1>9, <1>10, <1>11

\* The account of the call itself: a writer that is alone on it.
LEMMA OwnAccountFails ==
  ASSUME Inv, CoreInv', NEW c \in Writers, Fails(c), NEW a \in Accounts \ overlapped, a = owner[c]
  PROVE  (AloneOn(a) /\ RowsKnown(a) /\ TokensGone(a) /\ CacheKnown(a))'
<1>1. AloneOn(a) /\ RowsKnown(a) /\ TokensGone(a) /\ CacheKnown(a)
  BY DEF Inv, SessionInv
<1>2. c \in Calls /\ Only(c) /\ pc'[c] = "idle" /\ owner'[c] = None /\ Running(c)
  BY FailShape, CoreFacts DEF Fails, Inv, CoreInv, CallInv, Running
<1>3. sessions' \subseteq sessions /\ cached' \subseteq cached
  BY DEF Fails
<1>4. a # None
  BY IdentifiersAssumption
<1>5. \A d \in Writers : Running(d) /\ owner[d] = a => d = c
  BY <1>2, OnlyWriter
<1>6. WritersOf(a)' = {}
  BY <1>2, <1>4, <1>5, CoreFacts DEF Inv, WritersOf, Only, Running
<1>7. \A s \in Calls : owner'[s] = a => owner[s] = a
  BY <1>2, <1>4 DEF Only
<1>8. SessionsOf(a)' \subseteq SessionsOf(a)
  BY <1>3, <1>7, CoreFacts DEF Inv, SessionsOf
<1>9. AloneOn(a)' /\ RowsKnown(a)'
  BY <1>1, <1>6, <1>8 DEF AloneOn, RowsKnown
<1>10. TokensGone(a)'
  <2> SUFFICES ASSUME NEW d \in Logouts \cup Refreshes, owner'[d] = a,
                      pc'[d] \in {"uncache", "save", "cache", "done"}
               PROVE  token'[d] \notin sessions'
    BY DEF TokensGone
  <2>1. d \in Calls /\ d # c
    BY <1>2, <1>4, CoreFacts DEF Inv
  <2> QED BY <1>1, <1>2, <1>3, <2>1 DEF TokensGone, Only
<1>11. CacheKnown(a)'
  <2> SUFFICES ASSUME a \notin unfinished', NEW s \in cached', owner'[s] = a
               PROVE  s \in sessions'
    BY DEF CacheKnown
  <2>1. pc[c] \in {"status", "revoke", "save"} /\ UNCHANGED <<sessions, cached, unfinished>>
    BY DEF Fails
  <2>2. owner[s] = a /\ s \in cached
    BY <1>3, <1>7, CoreFacts DEF Inv
  <2>3. s \in sessions \/ \E d \in WritersOf(a) : pc[d] = "uncache"
    BY <1>1, <2>1, <2>2 DEF CacheKnown
  <2> QED BY <1>5, <2>1, <2>3 DEF WritersOf
<1> QED BY <1>9, <1>10, <1>11

LEMMA OwnAccountGoes ==
  ASSUME Inv, CoreInv', NEW c \in Writers, Goes(c), NEW a \in Accounts \ overlapped, a = owner[c]
  PROVE  (AloneOn(a) /\ RowsKnown(a) /\ TokensGone(a) /\ CacheKnown(a))'
<1> USE DEF Goes
<1>1. AloneOn(a) /\ RowsKnown(a) /\ TokensGone(a) /\ CacheKnown(a)
  BY DEF Inv, SessionInv
<1>2. c \in Calls /\ Only(c) /\ Running(c)
  <2>1. c \in Calls
    BY CoreFacts DEF Inv
  <2>2. AllEffects(c)
    BY <2>1, GoesEffects DEF Inv, CoreInv
  <2> QED BY <2>1, <2>2 DEF AllEffects, Effect, Running, ReadsStatus, Selects, Erases, Deletes,
          GivesUp, Saves, Caches
<1>3. owner' = owner /\ token' = token
  BY DEF ReadsStatus, Selects, Erases, Deletes, GivesUp, Saves, Caches, Goto
<1>4. \A k : Goto(c, k) => pc'[c] = k
  BY <1>2 DEF Goto, Inv, CoreInv, CallInv, CallType
<1>5. \A d \in Writers : Running(d) /\ owner[d] = a => d = c
  BY <1>2, OnlyWriter
<1>6. WritersOf(a)' \subseteq {c}
  BY <1>2, <1>3, <1>5, CoreFacts DEF Inv, WritersOf, Only, Running
<1>7. /\ \A s, t \in SessionsOf(a) : s = t
      /\ pc[c] = "erase" => SessionsOf(a) \subseteq {chosen[c]}
      /\ pc[c] \in {"uncache", "save"} => SessionsOf(a) = {}
      /\ pc[c] = "cache" => c \in sessions
  BY <1>2, WriterKnows
<1>8. CASE ReadsStatus(c)
  <2>1. UNCHANGED <<sessions, cached, unfinished>> /\ pc[c] # "uncache"
        /\ pc'[c] \in {"select", "done"} /\ (pc'[c] = "done" => c \in Verifications)
    BY <1>4, <1>8 DEF ReadsStatus
  <2>2. c \notin Verifications
    BY CallsAssumption DEF Writers, Issuers
  <2>3. RowsKnown(a)'
    BY <1>3, <1>6, <1>7, <2>1 DEF RowsKnown, SessionsOf
  <2>4. TokensGone(a)'
    BY <1>1, <1>2, <1>3, <2>1, <2>2, CoreFacts DEF Inv, TokensGone, Only
  <2>5. CacheKnown(a)'
    BY <1>1, <1>3, <1>5, <2>1 DEF CacheKnown, WritersOf
  <2> QED BY <1>6, <2>3, <2>4, <2>5 DEF AloneOn
<1>9. CASE Selects(c)
  <2>1. UNCHANGED <<sessions, cached, unfinished>> /\ pc[c] = "select" /\ pc'[c] = "erase"
        /\ chosen'[c] \in SessionsOf(a)
    BY <1>2, <1>4, <1>9 DEF Selects, Inv, CoreInv, CallInv, CallType
  <2>2. SessionsOf(a)' = SessionsOf(a)
    BY <1>3, <2>1 DEF SessionsOf
  <2>3. RowsKnown(a)'
    BY <1>6, <1>7, <2>1, <2>2 DEF RowsKnown
  <2>4. TokensGone(a)'
    BY <1>1, <1>2, <1>3, <2>1, CoreFacts DEF Inv, TokensGone, Only
  <2>5. CacheKnown(a)'
    BY <1>1, <1>3, <1>5, <2>1 DEF CacheKnown, WritersOf
  <2> QED BY <1>6, <2>3, <2>4, <2>5 DEF AloneOn
<1>10. CASE Erases(c)
  <2>1. UNCHANGED <<chosen, cached, unfinished>> /\ pc[c] = "erase" /\ pc'[c] = "uncache"
        /\ sessions' = sessions \ {chosen[c]}
    BY <1>4, <1>10 DEF Erases
  <2>2. SessionsOf(a)' = {}
    BY <1>3, <1>7, <2>1 DEF SessionsOf
  <2>3. RowsKnown(a)'
    BY <1>6, <2>1, <2>2 DEF RowsKnown
  <2>4. token[c] \notin sessions'
    <3>1. token[c] \in sessions => token[c] \in SessionsOf(a)
      BY <1>2, CoreFacts DEF Inv, SessionsOf
    <3> QED BY <1>7, <2>1, <3>1
  <2>5. TokensGone(a)'
    BY <1>1, <1>2, <1>3, <2>1, <2>4, CoreFacts DEF Inv, TokensGone, Only
  <2>6. c \in WritersOf(a)'
    BY <1>3, <2>1 DEF WritersOf, Running
  <2>7. CacheKnown(a)'
    BY <1>1, <1>3, <1>5, <2>1, <2>6 DEF CacheKnown, WritersOf
  <2> QED BY <1>6, <2>3, <2>5, <2>7 DEF AloneOn
<1>11. CASE Deletes(c)
  <2>1. UNCHANGED <<sessions, unfinished>> /\ pc'[c] \in {"save", "done"}
        /\ \/ pc[c] = "select" /\ SessionsOf(a) = {} /\ UNCHANGED cached
           \/ pc[c] = "uncache" /\ cached' = cached \ {chosen[c]}
    BY <1>4, <1>11 DEF Deletes
  <2>2. SessionsOf(a)' = {} /\ SessionsOf(a) = {}
    BY <1>3, <1>7, <2>1 DEF SessionsOf
  <2>3. RowsKnown(a)'
    BY <1>6, <2>1, <2>2 DEF RowsKnown
  <2>4. token[c] \notin sessions
    BY <1>2, <2>2, CoreFacts DEF Inv, SessionsOf
  <2>5. TokensGone(a)'
    BY <1>1, <1>2, <1>3, <2>1, <2>4, CoreFacts DEF Inv, TokensGone, Only
  <2>6. CacheKnown(a)'
    BY <1>1, <1>3, <1>5, <2>1 DEF CacheKnown, WritersOf
  <2> QED BY <1>6, <2>3, <2>5, <2>6 DEF AloneOn
<1>12. CASE GivesUp(c)
  <2>1. c \in Revocations /\ pc'[c] = "done" /\ a \in unfinished' /\ sessions' \subseteq sessions
    BY <1>4, <1>12 DEF GivesUp
  <2>2. c \notin Logouts \cup Refreshes
    BY <2>1, CallsAssumption
  <2>3. SessionsOf(a)' \subseteq SessionsOf(a)
    BY <1>3, <2>1 DEF SessionsOf
  <2>4. RowsKnown(a)'
    BY <1>6, <1>7, <2>1, <2>3 DEF RowsKnown
  <2>5. TokensGone(a)'
    BY <1>1, <1>2, <1>3, <2>1, <2>2, CoreFacts DEF Inv, TokensGone, Only
  <2>6. CacheKnown(a)'
    BY <2>1 DEF CacheKnown
  <2> QED BY <1>6, <2>4, <2>5, <2>6 DEF AloneOn
<1>13. CASE Saves(c)
  <2>1. UNCHANGED <<chosen, cached, unfinished>> /\ pc[c] = "save" /\ pc'[c] \in {"cache", "failed"}
        /\ sessions' = sessions \cup {c}
    BY <1>4, <1>13 DEF Saves
  <2>2. SessionsOf(a)' \subseteq {c}
    BY <1>3, <1>7, <2>1 DEF SessionsOf
  <2>3. RowsKnown(a)'
    BY <1>6, <2>1, <2>2 DEF RowsKnown
  <2>4. \A d \in Calls : token[d] # c
    BY <1>2, <2>1, CoreFacts DEF Inv, CoreInv, CallInv, Given
  <2>5. token[c] \notin sessions
    BY <1>2, <1>7, <2>1, CoreFacts DEF Inv, SessionsOf
  <2>6. TokensGone(a)'
    BY <1>1, <1>2, <1>3, <2>1, <2>4, <2>5, CoreFacts DEF Inv, TokensGone, Only
  <2>7. CacheKnown(a)'
    BY <1>1, <1>3, <1>5, <2>1 DEF CacheKnown, WritersOf
  <2> QED BY <1>6, <2>3, <2>6, <2>7 DEF AloneOn
<1>14. CASE Caches(c)
  <2>1. UNCHANGED <<chosen, sessions, unfinished>> /\ pc[c] = "cache" /\ pc'[c] = "done"
        /\ cached' \subseteq cached \cup {c}
    BY <1>4, <1>14 DEF Caches
  <2>2. SessionsOf(a)' = SessionsOf(a)
    BY <1>3, <2>1 DEF SessionsOf
  <2>3. RowsKnown(a)'
    BY <1>6, <1>7, <2>1, <2>2 DEF RowsKnown
  <2>4. TokensGone(a)'
    BY <1>1, <1>2, <1>3, <2>1, CoreFacts DEF Inv, TokensGone, Only
  <2>5. CacheKnown(a)'
    BY <1>1, <1>3, <1>5, <1>7, <2>1 DEF CacheKnown, WritersOf
  <2> QED BY <1>6, <2>3, <2>4, <2>5 DEF AloneOn
<1> QED BY <1>8, <1>9, <1>10, <1>11, <1>12, <1>13, <1>14

LEMMA CrashKeepsSessions ==
  ASSUME Inv, CoreInv', Crash
  PROVE  SessionInv'
<1>1. \A c \in Calls :
        /\ pc'[c] = IF Running(c) THEN (IF pc[c] = "cache" THEN "failed" ELSE "idle") ELSE pc[c]
        /\ owner'[c] = IF Running(c) /\ pc[c] # "cache" THEN None ELSE owner[c]
        /\ token'[c] = IF Running(c) THEN None ELSE token[c]
  BY DEF Crash
<1>2. UNCHANGED <<sessions, cached, overlapped>>
      /\ unfinished' = unfinished \cup {owner[c] : c \in {d \in Calls : Running(d)} \cap Writers}
  BY DEF Crash, storeVars
<1> SUFFICES ASSUME NEW a \in Accounts \ overlapped
             PROVE  (AloneOn(a) /\ RowsKnown(a) /\ TokensGone(a) /\ CacheKnown(a))'
  BY <1>2 DEF SessionInv
<1>3. AloneOn(a) /\ RowsKnown(a) /\ TokensGone(a) /\ CacheKnown(a)
  BY DEF Inv, SessionInv
<1>4. WritersOf(a)' = {}
  BY <1>1, CoreFacts DEF Inv, WritersOf, Running
<1>5. \A s \in sessions \cup cached : owner'[s] = owner[s]
  BY <1>1, CoreFacts DEF Inv, Stored, Running
<1>6. SessionsOf(a)' = SessionsOf(a)
  BY <1>2, <1>5 DEF SessionsOf
<1>7. AloneOn(a)' /\ RowsKnown(a)'
  BY <1>3, <1>4, <1>6 DEF AloneOn, RowsKnown
<1>8. TokensGone(a)'
  BY <1>1, <1>2, <1>3, CoreFacts DEF Inv, TokensGone, Running
<1>9. CacheKnown(a)'
  <2> SUFFICES ASSUME a \notin unfinished', NEW s \in cached, owner[s] = a
               PROVE  s \in sessions
    BY <1>2, <1>5 DEF CacheKnown
  <2>1. WritersOf(a) = {}
    BY <1>2, CoreFacts DEF Inv, WritersOf
  <2> QED BY <1>2, <1>3, <2>1 DEF CacheKnown
<1> QED BY <1>7, <1>8, <1>9

LEMMA SessionStep ==
  ASSUME Inv, [Next]_vars
  PROVE  Inv'
<1>1. CoreInv'
  BY CoreStep DEF Inv
<1> SUFFICES SessionInv'
  BY <1>1 DEF Inv
<1>2. ASSUME UNCHANGED callVars, UNCHANGED historyVars, UNCHANGED sessions, cached' \subseteq cached
      PROVE  SessionInv'
  BY <1>2 DEF Inv, SessionInv, callVars, historyVars, AloneOn, RowsKnown, TokensGone, CacheKnown,
              WritersOf, SessionsOf, Running
<1>3. CASE UNCHANGED vars
  BY <1>2, <1>3 DEF vars, storeVars
<1>4. ASSUME NEW a \in Accounts, Register(a), UNCHANGED <<callVars, storeVars, historyVars>>
      PROVE  SessionInv'
  BY <1>2, <1>4 DEF storeVars
<1>5. ASSUME NEW s \in Issuers, TokenExpire(s)
      PROVE  SessionInv'
  BY <1>2, <1>5 DEF TokenExpire
<1>6. ASSUME NEW c \in Calls, Call(c)
      PROVE  SessionInv'
  <2>1. CallShape(c)
    BY <1>6, CallHasShape DEF Inv, CoreInv
  <2>2. CASE Begins(c)
    BY <1>1, <2>2, BeginsKeepsSessions
  <2>3. CASE (Fails(c) \/ Goes(c)) /\ UNCHANGED overlapped
    <3> SUFFICES ASSUME NEW a \in Accounts \ overlapped
                 PROVE  (AloneOn(a) /\ RowsKnown(a) /\ TokensGone(a) /\ CacheKnown(a))'
      BY <2>3 DEF SessionInv
    <3>1. CASE a # owner[c] \/ c \notin Writers
      BY <1>1, <2>3, <3>1, OtherAccounts
    <3>2. CASE a = owner[c] /\ c \in Writers
      BY <1>1, <2>3, <3>2, OwnAccountFails, OwnAccountGoes
    <3> QED BY <3>1, <3>2
  <2> QED BY <2>1, <2>2, <2>3 DEF CallShape, Goes
<1>7. CASE Crash
  BY <1>1, <1>7, CrashKeepsSessions
<1> QED BY <1>3, <1>4, <1>5, <1>6, <1>7 DEF Next

LEMMA Invariant == Spec => []Inv
<1>1. Init => Inv
  <2> SUFFICES ASSUME Init PROVE SessionInv
    BY CoreInit DEF Inv
  <2>1. sessions = {} /\ cached = {} /\ \A c \in Calls : pc[c] = "idle"
    BY DEF Init
  <2>2. Writers \subseteq Calls
    BY DEF Calls
  <2> QED BY <2>1, <2>2 DEF SessionInv, AloneOn, RowsKnown, TokensGone, CacheKnown, WritersOf,
          SessionsOf, Running
<1>2. Inv /\ [Next]_vars => Inv'
  BY SessionStep
<1> QED BY <1>1, <1>2, PTL DEF Spec

-----------------------------------------------------------------------------
\* A token that a Logout or a RefreshToken was given, and that answered without
\* an error, is never in the table again, whatever fails, unless calls of its
\* account overlapped (SessionRepo.Delete and Upsert).
THEOREM DeadTokens == Spec => []UsedTokensAreDead
<1>1. Inv => UsedTokensAreDead
  <2> SUFFICES ASSUME Inv, NEW c \in Logouts \cup Refreshes, pc[c] = "done",
                      owner[c] \notin overlapped
               PROVE  token[c] \notin sessions
    BY DEF UsedTokensAreDead
  <2>1. owner[c] \in Accounts \ overlapped
    BY CoreFacts DEF Inv
  <2> QED BY <2>1 DEF Inv, SessionInv, TokensGone
<1> QED BY <1>1, Invariant, PTL

\* Between the calls of an account whose writers never overlapped there is one
\* session at most, and if none failed, every cached access token is its own
\* (Upsert, Delete and the cache of tokens).
THEOREM MatchingTokens == Spec => []TokensMatchSessions
<1>1. Inv => TokensMatchSessions
  <2> SUFFICES ASSUME Inv, NEW a \in Accounts \ overlapped, WritersOf(a) = {}
               PROVE  /\ Cardinality(SessionsOf(a)) <= 1
                      /\ a \in unfinished \/ {s \in cached : owner[s] = a} \subseteq sessions
    BY DEF TokensMatchSessions
  <2>1. RowsKnown(a) /\ CacheKnown(a)
    BY DEF Inv, SessionInv
  <2>2. SessionsOf(a) = {} \/ \E s : SessionsOf(a) = {s}
    BY <2>1 DEF RowsKnown
  <2>3. Cardinality(SessionsOf(a)) <= 1
    <3>1. CASE SessionsOf(a) = {}
      BY <3>1, FS_EmptySet
    <3>2. ASSUME NEW s, SessionsOf(a) = {s} PROVE Cardinality(SessionsOf(a)) <= 1
      BY <3>2, FS_Singleton
    <3> QED BY <2>2, <3>1, <3>2
  <2> QED BY <2>1, <2>3 DEF CacheKnown
<1> QED BY <1>1, Invariant, PTL
=============================================================================

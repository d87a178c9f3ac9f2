----------------------------- MODULE AuthSessions -----------------------------
(***************************************************************************)
(* The tokens of the auth service, on top of its accounts: Login, Logout,  *)
(* RefreshToken, RevokeUser and VerifyToken over the session table, which  *)
(* may hold several rows of a user, and the cache of access tokens in      *)
(* Redis.  Every call is a sequence of single statements without a         *)
(* transaction, and calls run concurrently.                                *)
(*                                                                         *)
(* A session is named by the call that issued it, and so are its access    *)
(* and its refresh token.                                                  *)
(***************************************************************************)
EXTENDS AuthAccounts

CONSTANTS
  Logins, Refreshes, Logouts, Revocations, Verifications  \* calls, by method

Issuers == Logins \cup Refreshes
Writers == Issuers \cup Logouts \cup Revocations
Calls == Writers \cup Verifications

ASSUME CallsAssumption ==
  /\ None \notin Calls
  /\ Logins \cap (Refreshes \cup Logouts \cup Revocations \cup Verifications) = {}
  /\ Refreshes \cap (Logouts \cup Revocations \cup Verifications) = {}
  /\ Logouts \cap (Revocations \cup Verifications) = {}
  /\ Revocations \cap Verifications = {}

VARIABLES
  pc,          \* call -> where it is
  owner,       \* call -> the account it found, None before
  token,       \* logout, refresh -> the session whose token it was given
  chosen,      \* call -> the session SessionRepo.Delete has selected
  sessions,    \* rows of the session table
  cached,      \* access tokens in Redis
  overlapped,  \* history: accounts of which two writers ran at once
  unfinished,  \* history: accounts of which a writer failed on its way
  barred       \* history: calls whose account was revoked when they began

callVars == <<pc, owner, token, chosen>>
storeVars == <<sessions, cached>>
historyVars == <<overlapped, unfinished, barred>>
vars == <<accountVars, callVars, storeVars, historyVars>>

PC == {"idle", "status", "revoke", "select", "erase", "uncache", "save", "cache",
       "done", "failed"}

\* What the stores hold was issued: a row by a call that has come that far,
\* an access token by one whose answer its client has.  A call that has begun
\* has an account, and Delete has selected a row only while it runs.
Consistent ==
  /\ \A s \in sessions : pc[s] \in {"cache", "done", "failed"}
  /\ \A s \in cached : pc[s] = "done"
  /\ \A c \in Calls : pc[c] # "idle" => owner[c] # None
  /\ \A c \in Calls : pc[c] \in {"erase", "uncache"} => chosen[c] # None

TypeOK ==
  /\ AccountType
  /\ pc \in [Calls -> PC]
  /\ owner \in [Calls -> Accounts \cup {None}]
  /\ token \in [Calls -> Issuers \cup {None}]
  /\ chosen \in [Calls -> Issuers \cup {None}]
  /\ sessions \in SUBSET Issuers
  /\ cached \in SUBSET Issuers
  /\ overlapped \in SUBSET Accounts
  /\ unfinished \in SUBSET Accounts
  /\ barred \in SUBSET Calls
  /\ Consistent

Init ==
  /\ AccountInit
  /\ pc = [c \in Calls |-> "idle"]
  /\ owner = [c \in Calls |-> None]
  /\ token = [c \in Calls |-> None]
  /\ chosen = [c \in Calls |-> None]
  /\ sessions = {}
  /\ cached = {}
  /\ overlapped = {}
  /\ unfinished = {}
  /\ barred = {}

SessionsOf(a) == {s \in sessions : owner[s] = a}

Running(c) == pc[c] \notin {"idle", "done", "failed"}
WritersOf(a) == {c \in Writers : owner[c] = a /\ Running(c)}

\* The sessions whose tokens clients were given.
Issued == {s \in Issuers : pc[s] = "done"}

Goto(c, l) == pc' = [pc EXCEPT ![c] = l] /\ UNCHANGED <<owner, token, barred>>

\* The call returns an error and has left nothing of its name behind: the
\* client may make it again.
Fail(c) ==
  /\ pc' = [pc EXCEPT ![c] = "idle"]
  /\ owner' = [owner EXCEPT ![c] = None]
  /\ token' = [token EXCEPT ![c] = None]
  /\ barred' = barred \ {c}

-----------------------------------------------------------------------------
(* The beginning of a call, up to its first answer.  A call that is refused *)
(* here (no such user, a wrong password, an unknown token, a failed query)  *)
(* has changed nothing, which is a stuttering step.                         *)

\* Call c concerns account a, was given the token of s, and goes on.
Begin(c, a, s, l) ==
  /\ pc[c] = "idle"
  /\ pc' = [pc EXCEPT ![c] = l]
  /\ owner' = [owner EXCEPT ![c] = a]
  /\ token' = [token EXCEPT ![c] = s]
  /\ barred' = IF users[a] = "revoked" THEN barred \cup {c} ELSE barred
  /\ overlapped' = IF c \in Writers /\ WritersOf(a) # {} THEN overlapped \cup {a} ELSE overlapped
  /\ UNCHANGED <<accountVars, chosen, storeVars, unfinished>>

\* Login: the user is found, active and knows the password.
Login(c) ==
  /\ c \in Logins
  /\ \E i \in Identifiers : \E a \in Matches(i) :
       users[a] = "active" /\ Begin(c, a, None, "select")

\* Logout and RefreshToken look the refresh token up; Logout also wants it to
\* be a token of the user it was given.
GetTokenInfo(c) ==
  /\ c \in Logouts \cup Refreshes
  /\ \E s \in Issued \cap sessions :
       Begin(c, owner[s], s, IF c \in Logouts THEN "select" ELSE "status")

\* VerifyToken: the access token is in Redis.
VerifyAccessToken(c) ==
  /\ c \in Verifications
  /\ \E s \in Issued \cap cached : Begin(c, owner[s], None, "status")

\* RevokeUser: the user is active and knows the password.
RevokeUser(c) ==
  /\ c \in Revocations
  /\ \E a \in Accounts : users[a] = "active" /\ Begin(c, a, None, "revoke")

-----------------------------------------------------------------------------
(* The rest of a call                                                      *)

\* Faulty variant: VerifyToken trusts the cached session.
StatusUnread(c) ==
  /\ pc[c] = "status"
  /\ \/ c \in Verifications /\ Goto(c, "done")
     \/ c \notin Verifications /\ users[owner[c]] = "active" /\ Goto(c, "select")
     \/ Fail(c)
  /\ UNCHANGED <<accountVars, chosen, storeVars, overlapped, unfinished>>

\* Faulty variant: RefreshToken issues new tokens beside the old ones.
OldTokensKept(c) ==
  /\ pc[c] = "status"
  /\ \/ /\ users[owner[c]] = "active"
        /\ Goto(c, IF c \in Verifications THEN "done" ELSE "save")
     \/ (users[owner[c]] # "active" \/ "db" \in Faults) /\ Fail(c)
  /\ UNCHANGED <<accountVars, chosen, storeVars, overlapped, unfinished>>

\* GetByID and UserStatusCheck of RefreshToken and VerifyToken.
CheckStatus(c) ==
  /\ pc[c] = "status"
  /\ \/ /\ users[owner[c]] = "active"
        /\ Goto(c, IF c \in Verifications THEN "done" ELSE "select")
     \/ (users[owner[c]] # "active" \/ "db" \in Faults) /\ Fail(c)
  /\ UNCHANGED <<accountVars, chosen, storeVars, overlapped, unfinished>>

\* UserRepo.Delete sets the status and keeps the row; its answer may be lost.
MarkRevoked(c) ==
  /\ pc[c] = "revoke"
  /\ \/ users' = [users EXCEPT ![owner[c]] = "revoked"] /\ Goto(c, "select")
     \/ /\ "db" \in Faults
        /\ users' = [users EXCEPT ![owner[c]] = "revoked"] \/ UNCHANGED users
        /\ Fail(c)
  /\ UNCHANGED <<rpc, before, chosen, storeVars, overlapped, unfinished>>

\* SessionRepo.Delete succeeds.
Deleted(c) ==
  /\ Goto(c, IF c \in Issuers THEN "save" ELSE "done")
  /\ UNCHANGED unfinished

\* It fails, which RevokeUser ignores.
DeleteFails(c) ==
  /\ IF c \in Revocations THEN Goto(c, "done") ELSE Fail(c)
  /\ unfinished' = unfinished \cup {owner[c]}

\* SessionRepo.Delete: First, which takes one row of the user ...
Select(c) ==
  /\ pc[c] = "select"
  /\ \/ \E s \in SessionsOf(owner[c]) :
          /\ chosen' = [chosen EXCEPT ![c] = s]
          /\ Goto(c, "erase")
          /\ UNCHANGED unfinished
     \/ SessionsOf(owner[c]) = {} /\ Deleted(c) /\ UNCHANGED chosen
     \/ "db" \in Faults /\ DeleteFails(c) /\ UNCHANGED chosen
  /\ UNCHANGED <<accountVars, storeVars, overlapped>>

\* ... the row that was taken is deleted, if it is still there ...
Erase(c) ==
  /\ pc[c] = "erase"
  /\ \/ /\ sessions' = sessions \ {chosen[c]}
        /\ Goto(c, "uncache")
        /\ UNCHANGED <<chosen, unfinished>>
     \/ /\ "db" \in Faults
        /\ sessions' = sessions \ {chosen[c]} \/ UNCHANGED sessions
        /\ DeleteFails(c)
        /\ chosen' = [chosen EXCEPT ![c] = None]
  /\ UNCHANGED <<accountVars, cached, overlapped>>

\* Faulty variant: the access token stays in Redis until it expires.
KeepCached(c) ==
  /\ pc[c] = "uncache"
  /\ Deleted(c)
  /\ chosen' = [chosen EXCEPT ![c] = None]
  /\ UNCHANGED <<accountVars, storeVars, overlapped>>

\* ... and its access token leaves Redis.
Uncache(c) ==
  /\ pc[c] = "uncache"
  /\ \/ cached' = cached \ {chosen[c]} /\ Deleted(c)
     \/ /\ "redis" \in Faults
        /\ cached' = cached \ {chosen[c]} \/ UNCHANGED cached
        /\ DeleteFails(c)
  /\ chosen' = [chosen EXCEPT ![c] = None]
  /\ UNCHANGED <<accountVars, sessions, overlapped>>

\* Faulty variant: Redis gets the token before the table has the row.
SaveCached(c) ==
  /\ pc[c] = "save"
  /\ Goto(c, "cache")
  /\ cached' = cached \cup {c}
  /\ UNCHANGED <<accountVars, chosen, sessions, overlapped, unfinished>>

\* SessionRepo.Upsert: there is no unique index on user_id, so the row is a
\* new one.  If only the answer is lost, a row stays that no client knows ...
Save(c) ==
  /\ pc[c] = "save"
  /\ \/ sessions' = sessions \cup {c} /\ Goto(c, "cache")
     \/ "db" \in Faults /\ sessions' = sessions \cup {c} /\ Goto(c, "failed")
     \/ "db" \in Faults /\ UNCHANGED sessions /\ Fail(c)
  /\ UNCHANGED <<accountVars, chosen, cached, overlapped, unfinished>>

\* ... and Redis gets the access token; its failure is not reported.
Cache(c) ==
  /\ pc[c] = "cache"
  /\ Goto(c, "done")
  /\ \/ cached' = cached \cup {c}
     \/ "redis" \in Faults /\ UNCHANGED cached
  /\ UNCHANGED <<accountVars, chosen, sessions, overlapped, unfinished>>

-----------------------------------------------------------------------------
\* An access token in Redis has come to its time to live.
TokenExpire(s) ==
  /\ s \in cached
  /\ cached' = cached \ {s}
  /\ UNCHANGED <<accountVars, callVars, sessions, historyVars>>

\* The process ends and its calls end in an error for their clients; the row
\* of a login that has saved it stays.
Crash ==
  /\ "crash" \in Faults
  /\ AbortRegistrations
  /\ LET lost == {c \in Calls : Running(c)}
         kept == {c \in lost : pc[c] = "cache"}
     IN
     /\ pc' = [c \in Calls |->
                 IF c \in kept THEN "failed" ELSE IF c \in lost THEN "idle" ELSE pc[c]]
     /\ owner' = [c \in Calls |-> IF c \in lost \ kept THEN None ELSE owner[c]]
     /\ token' = [c \in Calls |-> IF c \in lost THEN None ELSE token[c]]
     /\ chosen' = [c \in Calls |-> None]
     /\ barred' = barred \ lost
     /\ unfinished' = unfinished \cup {owner[c] : c \in lost \cap Writers}
  /\ UNCHANGED <<storeVars, overlapped>>

Call(c) ==
  \/ Login(c) \/ GetTokenInfo(c) \/ VerifyAccessToken(c) \/ RevokeUser(c)
  \/ CheckStatus(c) \/ MarkRevoked(c)
  \/ Select(c) \/ Erase(c) \/ Uncache(c) \/ Save(c) \/ Cache(c)

Next ==
  \/ \E a \in Accounts : Register(a) /\ UNCHANGED <<callVars, storeVars, historyVars>>
  \/ \E c \in Calls : Call(c)
  \/ \E s \in Issuers : TokenExpire(s)
  \/ Crash

Spec == Init /\ [][Next]_vars

-----------------------------------------------------------------------------
(* Correctness                                                             *)

\* Nobody signs in to, gets tokens for or is verified as an account that was
\* revoked when the call began, although its session and its cached token may
\* have survived the revocation: a login that overlapped it, or a failed
\* Delete, leaves them behind (RevokeUser).
RevokedIsRefused == \A c \in barred \ Logouts : pc[c] # "done"

\* A refresh token that a successful Logout or RefreshToken was given is gone
\* from the table, and stays gone, whatever fails: only calls of the same
\* account that overlap may have made Delete take another row.
UsedTokensAreDead ==
  \A c \in Logouts \cup Refreshes :
    pc[c] = "done" => token[c] \notin sessions \/ owner[c] \in overlapped

\* Between the calls of an account whose writers never overlapped, the table
\* holds one session at most, and if none of them failed on its way, Redis
\* holds no access token but that of this session.
TokensMatchSessions ==
  \A a \in Accounts \ overlapped :
    WritersOf(a) = {} =>
      /\ Cardinality(SessionsOf(a)) <= 1
      /\ a \in unfinished \/ {s \in cached : owner[s] = a} \subseteq sessions
=============================================================================

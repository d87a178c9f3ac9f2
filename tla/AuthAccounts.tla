----------------------------- MODULE AuthAccounts -----------------------------
(***************************************************************************)
(* The accounts of the auth service: Register checks username, email and   *)
(* phone one after the other against the user table and then inserts a     *)
(* row; Login finds a row by any of the three.  Registrations run          *)
(* concurrently, and only username and email have a unique index.          *)
(***************************************************************************)
EXTENDS Naturals, FiniteSets

CONSTANTS
  Accounts,     \* calls of Register, each naming the account it would create
  Identifiers,  \* what a user may be found by; equal to the collation, equal here
  Kind,         \* identifier -> what it looks like
  Username,     \* account -> the username asked for
  Email,        \* account -> the email address asked for
  Phone,        \* account -> the phone number asked for; None: empty
  Faults,       \* what may go wrong: "db", "redis", "crash"
  None

ASSUME IdentifiersAssumption ==
  /\ Kind \in [Identifiers -> {"name", "email", "mobile", "other"}]
  /\ Username \in [Accounts -> Identifiers]
  /\ Email \in [Accounts -> Identifiers]
  /\ Phone \in [Accounts -> Identifiers \cup {None}]
  /\ None \notin Identifiers \cup Accounts

VARIABLES
  users,   \* account -> status of its row in the user table, "none": no row
  rpc,     \* registration -> where Register is
  before   \* history: registration -> accounts there were when it began

accountVars == <<users, rpc, before>>

AccountType ==
  /\ users \in [Accounts -> {"none", "active", "revoked"}]
  /\ rpc \in [Accounts -> {"idle", "email", "phone", "insert", "done", "failed"}]
  /\ before \in [Accounts -> SUBSET Accounts]

AccountInit ==
  /\ users = [a \in Accounts |-> "none"]
  /\ rpc = [a \in Accounts |-> "idle"]
  /\ before = [a \in Accounts |-> {}]

Existing == {a \in Accounts : users[a] # "none"}

\* GetByUsername, GetByEmail, GetByPhone; a revoked account keeps its row.
Holders(column, i) == {a \in Existing : column[a] = i}

-----------------------------------------------------------------------------
(* Register                                                                *)

\* A username contains neither an @ nor a space and is no mobile number.
UsernameOk(a) == Kind[Username[a]] = "name" /\ Holders(Username, Username[a]) = {}

EmailOk(a) == Kind[Email[a]] = "email" /\ Holders(Email, Email[a]) = {}

\* Faulty variant: the number is checked for its form only.
AnyPhone(a) == Phone[a] = None \/ Kind[Phone[a]] = "mobile"

\* A phone number may be left out.
PhoneOk(a) ==
  \/ Phone[a] = None
  \/ Kind[Phone[a]] = "mobile" /\ Holders(Phone, Phone[a]) = {}

\* A check passes, or it or its query fails and Register returns.
Check(a, from, ok, to) ==
  /\ rpc[a] = from
  /\ \/ ok /\ rpc' = [rpc EXCEPT ![a] = to]
     \/ (~ ok \/ "db" \in Faults) /\ rpc' = [rpc EXCEPT ![a] = "failed"]

CheckUsername(a) ==
  /\ Check(a, "idle", UsernameOk(a), "email")
  /\ before' = [before EXCEPT ![a] = Existing]
  /\ UNCHANGED users

CheckEmail(a) == Check(a, "email", EmailOk(a), "phone") /\ UNCHANGED <<users, before>>

CheckPhone(a) == Check(a, "phone", PhoneOk(a), "insert") /\ UNCHANGED <<users, before>>

\* The unique indexes of the table.
Unique(a) == Holders(Username, Username[a]) = {} /\ Holders(Email, Email[a]) = {}

\* The row is inserted, unless an index or the database refuses it; its
\* answer may be lost.
Create(a) ==
  /\ rpc[a] = "insert"
  /\ \/ Unique(a) /\ rpc' = [rpc EXCEPT ![a] = "done"] /\ users' = [users EXCEPT ![a] = "active"]
     \/ ~ Unique(a) /\ rpc' = [rpc EXCEPT ![a] = "failed"] /\ UNCHANGED users
     \/ /\ "db" \in Faults
        /\ rpc' = [rpc EXCEPT ![a] = "failed"]
        /\ \/ UNCHANGED users
           \/ Unique(a) /\ users' = [users EXCEPT ![a] = "active"]
  /\ UNCHANGED before

Register(a) == CheckUsername(a) \/ CheckEmail(a) \/ CheckPhone(a) \/ Create(a)

\* The process ends: so do its registrations.
AbortRegistrations ==
  /\ rpc' = [a \in Accounts |-> IF rpc[a] \in {"idle", "done"} THEN rpc[a] ELSE "failed"]
  /\ UNCHANGED <<users, before>>

-----------------------------------------------------------------------------
\* The accounts Login may find under i: by username, else by email, else by
\* phone.  A query that fails counts as one that found nothing.
Matches(i) ==
  CASE "db" \in Faults -> Holders(Username, i) \cup Holders(Email, i) \cup Holders(Phone, i)
    [] Holders(Username, i) # {} -> Holders(Username, i)
    [] Holders(Email, i) # {} -> Holders(Email, i)
    [] OTHER -> Holders(Phone, i)

\* An identifier leads to one account: no username or email of an account is
\* any identifier of another one, and a phone number is shared only by
\* accounts whose registrations overlapped, so that neither could see the
\* other (the checks of Register, made long before its insert).
IdentifiersAreExclusive ==
  \A a, b \in Existing : a # b =>
    /\ {Username[a], Email[a]} \cap {Username[b], Email[b], Phone[b]} = {}
    /\ Phone[a] = Phone[b] /\ Phone[a] # None => a \notin before[b] /\ b \notin before[a]
=============================================================================

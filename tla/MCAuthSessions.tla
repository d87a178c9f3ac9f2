---------------------------- MODULE MCAuthSessions ----------------------------
(* A small instance of AuthSessions for TLC: four registrations, and the   *)
(* calls of the first account, which are never mixed.                      *)
EXTENDS AuthSessions, TLC

CONSTANTS a1, a2, a3, a4, l1, l2, f1, o1, v1, w1, bob, ada, mail, post, number

MCKind == [i \in Identifiers |->
             CASE i \in {bob, ada} -> "name" [] i = number -> "mobile" [] OTHER -> "email"]

\* Two registrations ask for the same phone number.  A third one repeats the
\* email address of the second and asks for that of the first as its username;
\* the fourth is the first one submitted twice.
MCUsername == [a \in Accounts |-> CASE a = a2 -> ada [] a = a3 -> mail [] OTHER -> bob]
MCEmail == [a \in Accounts |-> IF a \in {a2, a3} THEN post ELSE mail]
MCPhone == [a \in Accounts |-> IF a = a3 THEN None ELSE number]

\* Logins are interchangeable.
MCSymmetry == Permutations(Logins)

\* Bound: calls begin when no other account has begun to register, and others
\* register only where no call has left a trace.
MCApart ==
  /\ UNCHANGED pc \/ \A a \in Accounts \ {a1} : rpc[a] = "idle"
  /\ \/ UNCHANGED rpc
     \/ /\ \A c \in Calls : pc[c] = "idle" /\ pc'[c] = "idle"
        /\ sessions \cup cached \cup overlapped \cup unfinished = {}
=============================================================================

------------------------------ MODULE AccessView ------------------------------
(***************************************************************************)
(* What the push service can tell of the access service: the session that  *)
(* Redis holds for each user, how far each connection has got on its way   *)
(* into the map of its node, and which users the maps hold.  The map knows *)
(* users and not connections, so connections of one user that overlap take *)
(* each other's place.  ConnManager implements this module; PushDelivery   *)
(* is built on it.                                                         *)
(***************************************************************************)
CONSTANTS
  Users,
  Nodes,         \* access processes
  Conns,         \* WebSocket connections, each upgraded at most once
  ConnUser,      \* the user of each connection
  ConnNode,      \* the node that upgraded each connection
  Patient,       \* users who reconnect only after the old connection is gone
  AccessFaults,  \* what may go wrong here: "redis", "exit"
  None

VARIABLES
  session,  \* user -> node named by the Redis session
  stage,    \* connection -> how far StartClient got; "done" when it returned
  present,  \* node -> users that Manager.clients holds
  clearing  \* node -> user whose session StopClient is about to clear

accessVars == <<session, stage, present, clearing>>

Stages == {"idle", "session", "online", "done"}

AccessType ==
  /\ session \in [Users -> Nodes \cup {None}]
  /\ stage \in [Conns -> Stages]
  /\ present \in [Nodes -> SUBSET Users]
  /\ clearing \in [Nodes -> Users \cup {None}]

AccessInit ==
  /\ session = [u \in Users |-> None]
  /\ stage = [c \in Conns |-> "idle"]
  /\ present = [n \in Nodes |-> {}]
  /\ clearing = [n \in Nodes |-> None]

\* Connection c goes from one stage to the next.
Moves(c, from, to) ==
  /\ stage[c] = from
  /\ stage' = [stage EXCEPT ![c] = to]

\* The user of c has no other connection that starts, is up or is stopping.
Alone(c) ==
  /\ \A d \in Conns \ {c} : ConnUser[d] = ConnUser[c] => stage[d] \in {"idle", "done"}
  /\ \A n \in Nodes : ConnUser[c] \notin present[n] /\ clearing[n] # ConnUser[c]

\* StartClient writes the session ...
Connect(c) ==
  /\ ConnUser[c] \in Patient => Alone(c)
  /\ Moves(c, "idle", "session")
  /\ session' = [session EXCEPT ![ConnUser[c]] = ConnNode[c]]
  /\ UNCHANGED <<present, clearing>>

\* ... or fails to, its connection is closed, and the session may be written
\* all the same.
ConnectFails(c) ==
  /\ "redis" \in AccessFaults
  /\ ConnUser[c] \in Patient => Alone(c)
  /\ Moves(c, "idle", "done")
  /\ \/ session' = [session EXCEPT ![ConnUser[c]] = ConnNode[c]]
     \/ UNCHANGED session
  /\ UNCHANGED <<present, clearing>>

\* It publishes the Online event ...
Announce(c) == Moves(c, "session", "online") /\ UNCHANGED <<session, present, clearing>>

\* ... and only then puts the client in the map, whoever is there.
Register(c) ==
  /\ clearing[ConnNode[c]] = None
  /\ Moves(c, "online", "done")
  /\ present' = [present EXCEPT ![ConnNode[c]] = @ \cup {ConnUser[c]}]
  /\ UNCHANGED <<session, clearing>>

\* StopClient takes the user out of the map, on behalf of any connection, and
\* keeps the mutex ...
Disconnect(n, u) ==
  /\ u \in present[n]
  /\ clearing[n] = None
  /\ present' = [present EXCEPT ![n] = @ \ {u}]
  /\ clearing' = [clearing EXCEPT ![n] = u]
  /\ UNCHANGED <<session, stage>>

\* ... until it has deleted the session by user, unless Redis fails or the
\* connection's context is done, as one that overlapped others may find it.
ClearSession(n) ==
  /\ clearing[n] # None
  /\ clearing' = [clearing EXCEPT ![n] = None]
  /\ \/ session' = [session EXCEPT ![clearing[n]] = None]
     \/ (clearing[n] \in Patient => "redis" \in AccessFaults) /\ UNCHANGED session
  /\ UNCHANGED <<stage, present>>

\* The write pump renews the session, but may do so too late, or have ended long
\* before the read pump does.
SessionExpire(u) ==
  /\ session[u] # None
  /\ \A c \in Conns : ConnUser[c] = u => stage[c] # "session"
  /\ session' = [session EXCEPT ![u] = None]
  /\ UNCHANGED <<stage, present, clearing>>

\* The process ends.  If it is shut down, it clears sessions of users it had
\* in its map, which name it unless connections overlapped.
Exit(n) ==
  /\ "exit" \in AccessFaults
  /\ stage' = [c \in Conns |->
                 IF ConnNode[c] = n /\ stage[c] # "idle" THEN "done" ELSE stage[c]]
  /\ present' = [present EXCEPT ![n] = {}]
  /\ clearing' = [clearing EXCEPT ![n] = None]
  /\ \E W \in SUBSET Users :
       /\ \A u \in W \cap Patient : session[u] = n
       /\ session' = [u \in Users |-> IF u \in W THEN None ELSE session[u]]

Connection(c) == Connect(c) \/ ConnectFails(c) \/ Announce(c) \/ Register(c)

Node(n) == (\E u \in Users : Disconnect(n, u)) \/ ClearSession(n) \/ Exit(n)

AccessNext ==
  \/ \E c \in Conns : Connection(c)
  \/ \E n \in Nodes : Node(n)
  \/ \E u \in Users : SessionExpire(u)

AccessSpec == AccessInit /\ [][AccessNext]_accessVars
=============================================================================

---------------------------- MODULE ConnManager ----------------------------
(***************************************************************************)
(* The access service: each process ("node") keeps a map from users to     *)
(* WebSocket clients, guarded by one mutex, and mirrors it in a Redis      *)
(* session per user.  A connection is served by two goroutines: the one    *)
(* that runs StartClient and then readPump, and the one that runs          *)
(* writePump.  Both end by calling StopClient.                             *)
(*                                                                         *)
(* One action is one stretch of code with no shared effect inside it: a    *)
(* Redis or Kafka call, a critical section, or the part of a critical      *)
(* section between two such calls.                                         *)
(***************************************************************************)
EXTENDS Naturals, Sequences

CONSTANTS
  Nodes,        \* access processes; a restarted process is another node
  Users,
  Conns,        \* WebSocket connections, each upgraded at most once
  Msgs,         \* payloads the push service hands to SendToUser
  ConnUser,     \* the user of each connection
  ConnNode,     \* the node that upgraded each connection
  QueueCap,     \* capacity of Client.Send (1024 in the code)
  Patient,      \* users who reconnect only after the old connection is gone
  Faults,       \* what may go wrong around the nodes
  None

ASSUME ConnAssumption ==
  /\ ConnUser \in [Conns -> Users]
  /\ ConnNode \in [Conns -> Nodes]
ASSUME QueueCapAssumption == QueueCap \in Nat \ {0}
ASSUME PatientAssumption == Patient \subseteq Users
ASSUME FaultsAssumption == Faults \subseteq {"redis", "kafka", "crash", "shutdown"}

\* A goroutine is a connection and a side; the read side also runs StartClient.
Threads == Conns \X {"read", "write"}

ASSUME NoneAssumption == None \notin Nodes \cup Users \cup Conns \cup Threads

VARIABLES
  mode,       \* node -> "up", "closing" (cleanup has begun) or "down"
  clients,    \* node -> Manager.clients
  mu,         \* node -> goroutine inside StopClient's critical section
  pc,         \* goroutine -> where it is
  closed,     \* connections whose Conn.Close was called
  cancelled,  \* connections whose read and write contexts are done
  session,    \* user -> node named by the Redis session
  lapsing,    \* users whose key is in its last seconds, or has run out
  wiping,     \* node -> users whose session its cleanup is about to delete
  online,     \* connections whose Online event reached Kafka
  offline,    \* connection -> number of its Offline events that reached Kafka
  queue,      \* connection -> Client.Send
  outcome     \* message -> handed to SendToUser, queued, or done with

connVars  == <<pc, closed, cancelled>>
redisVars == <<session, lapsing, wiping>>
eventVars == <<online, offline>>
msgVars   == <<queue, outcome>>
vars == <<mode, clients, mu, connVars, redisVars, eventVars, msgVars>>

Reader(c) == <<c, "read">>
Writer(c) == <<c, "write">>

UserOf(t) == ConnUser[t[1]]
NodeOf(t) == ConnNode[t[1]]

Holding == {"clear", "offline", "close"}
PC == {"idle", "online", "register", "reading", "writing", "stop", "ended"} \cup Holding

TypeOK ==
  /\ mode \in [Nodes -> {"up", "closing", "down"}]
  /\ clients \in [Nodes -> [Users -> Conns \cup {None}]]
  /\ mu \in [Nodes -> Threads \cup {None}]
  /\ pc \in [Threads -> PC]
  /\ closed \in SUBSET Conns
  /\ cancelled \in SUBSET Conns
  /\ session \in [Users -> Nodes \cup {None}]
  /\ lapsing \in SUBSET Users
  /\ wiping \in [Nodes -> SUBSET Users]
  /\ online \in SUBSET Conns
  /\ offline \in [Conns -> Nat]
  /\ queue \in [Conns -> Seq(Msgs)]
  /\ \A c \in Conns : Len(queue[c]) <= QueueCap
  /\ outcome \in [Msgs -> {"none", "queued", "done"}]

Init ==
  /\ mode = [n \in Nodes |-> "up"]
  /\ clients = [n \in Nodes |-> [u \in Users |-> None]]
  /\ mu = [n \in Nodes |-> None]
  /\ pc = [t \in Threads |-> "idle"]
  /\ closed = {}
  /\ cancelled = {}
  /\ session = [u \in Users |-> None]
  /\ lapsing = {}
  /\ wiping = [n \in Nodes |-> {}]
  /\ online = {}
  /\ offline = [c \in Conns |-> 0]
  /\ queue = [c \in Conns |-> <<>>]
  /\ outcome = [m \in Msgs |-> "none"]

-----------------------------------------------------------------------------
(* StartClient                                                             *)

\* Nothing of connection c is running or still to run.
Quiet(c) == \A t \in {Reader(c), Writer(c)} : pc[t] \in {"idle", "ended"}

\* No other connection of the user is being served or stopped, and no node
\* is about to delete the user's session on its way down.
Undisturbed(c) ==
  /\ \A d \in Conns \ {c} : ConnUser[d] = ConnUser[c] => Quiet(d)
  /\ \A n \in Nodes : ConnUser[c] \notin wiping[n]

\* Faulty variant: the key is written only where there is none (SETNX).
SetSessionIfAbsent(c) ==
  /\ pc[Reader(c)] = "idle"
  /\ mode[ConnNode[c]] = "up"
  /\ ConnUser[c] \in Patient => Undisturbed(c)
  /\ session' = [session EXCEPT ![ConnUser[c]] = IF @ = None THEN ConnNode[c] ELSE @]
  /\ lapsing' = lapsing \ {ConnUser[c]}
  /\ pc' = [pc EXCEPT ![Reader(c)] = "online"]
  /\ UNCHANGED <<mode, clients, mu, closed, cancelled, wiping, eventVars, msgVars>>

\* The WebSocket was upgraded and SetSession succeeded: the key has its 60 s.
SetSession(c) ==
  /\ pc[Reader(c)] = "idle"
  /\ mode[ConnNode[c]] = "up"
  /\ ConnUser[c] \in Patient => Undisturbed(c)
  /\ session' = [session EXCEPT ![ConnUser[c]] = ConnNode[c]]
  /\ lapsing' = lapsing \ {ConnUser[c]}
  /\ pc' = [pc EXCEPT ![Reader(c)] = "online"]
  /\ UNCHANGED <<mode, clients, mu, closed, cancelled, wiping, eventVars, msgVars>>

\* Faulty variant: StartClient goes on after the error.
SetSessionIgnored(c) ==
  /\ pc[Reader(c)] = "idle"
  /\ mode[ConnNode[c]] = "up"
  /\ ConnUser[c] \in Patient => Undisturbed(c)
  /\ "redis" \in Faults
  /\ \/ session' = [session EXCEPT ![ConnUser[c]] = ConnNode[c]]
     \/ UNCHANGED session
  /\ pc' = [pc EXCEPT ![Reader(c)] = "online"]
  /\ UNCHANGED <<mode, clients, mu, closed, cancelled, lapsing, wiping, eventVars, msgVars>>

\* SetSession returned an error (the key may have been written all the same):
\* the connection is closed and StartClient returns.
SetSessionFails(c) ==
  /\ pc[Reader(c)] = "idle"
  /\ mode[ConnNode[c]] = "up"
  /\ ConnUser[c] \in Patient => Undisturbed(c)
  /\ "redis" \in Faults
  /\ \/ /\ session' = [session EXCEPT ![ConnUser[c]] = ConnNode[c]]
        /\ lapsing' = lapsing \ {ConnUser[c]}
     \/ UNCHANGED <<session, lapsing>>
  /\ closed' = closed \cup {c}
  /\ cancelled' = cancelled \cup {c}
  /\ pc' = [pc EXCEPT ![Reader(c)] = "ended"]
  /\ UNCHANGED <<mode, clients, mu, wiping, eventVars, msgVars>>

\* The Online event is published (an error is only logged), the contexts are
\* made and writePump is started, before the client is in the map.
PublishOnline(c) ==
  /\ pc[Reader(c)] = "online"
  /\ \/ online' = online \cup {c}
     \/ "kafka" \in Faults /\ UNCHANGED online
  /\ pc' = [pc EXCEPT ![Reader(c)] = "register", ![Writer(c)] = "writing"]
  /\ UNCHANGED <<mode, clients, mu, closed, cancelled, redisVars, offline, msgVars>>

\* clients[UserID] = client, whatever was there.
Register(c) ==
  /\ pc[Reader(c)] = "register"
  /\ mu[ConnNode[c]] = None
  /\ clients' = [clients EXCEPT ![ConnNode[c]][ConnUser[c]] = c]
  /\ pc' = [pc EXCEPT ![Reader(c)] = "reading"]
  /\ UNCHANGED <<mode, mu, closed, cancelled, redisVars, eventVars, msgVars>>

-----------------------------------------------------------------------------
(* The pumps                                                               *)

\* ReadMessage failed: the peer closed or broke the protocol, the connection
\* was closed on this side, or 60 s went by without a pong.
ReadEnd(c) ==
  /\ pc[Reader(c)] = "reading"
  /\ pc' = [pc EXCEPT ![Reader(c)] = "stop"]
  /\ UNCHANGED <<mode, clients, mu, closed, cancelled, redisVars, eventVars, msgVars>>

\* The write context is done, or a ping failed.
WriteEnd(c) ==
  /\ pc[Writer(c)] = "writing"
  /\ pc' = [pc EXCEPT ![Writer(c)] = "stop"]
  /\ UNCHANGED <<mode, clients, mu, closed, cancelled, redisVars, eventVars, msgVars>>

\* Faulty variant: the pump writes only while its client is in the map.
WriteIfRegistered(c) ==
  /\ pc[Writer(c)] = "writing"
  /\ queue[c] # <<>>
  /\ c \notin closed
  /\ clients[ConnNode[c]][ConnUser[c]] = c
  /\ queue' = [queue EXCEPT ![c] = Tail(@)]
  /\ outcome' = [outcome EXCEPT ![Head(queue[c])] = "done"]
  /\ UNCHANGED <<mode, clients, mu, connVars, redisVars, eventVars>>

\* A queued message is taken from Send and written to the peer.
Write(c) ==
  /\ pc[Writer(c)] = "writing"
  /\ queue[c] # <<>>
  /\ c \notin closed
  /\ queue' = [queue EXCEPT ![c] = Tail(@)]
  /\ outcome' = [outcome EXCEPT ![Head(queue[c])] = "done"]
  /\ UNCHANGED <<mode, clients, mu, connVars, redisVars, eventVars>>

\* A queued message is taken from Send and its write fails.
WriteFails(c) ==
  /\ pc[Writer(c)] = "writing"
  /\ queue[c] # <<>>
  /\ queue' = [queue EXCEPT ![c] = Tail(@)]
  /\ outcome' = [outcome EXCEPT ![Head(queue[c])] = "done"]
  /\ pc' = [pc EXCEPT ![Writer(c)] = "stop"]
  /\ UNCHANGED <<mode, clients, mu, closed, cancelled, redisVars, eventVars>>

\* The 54 s tick: after the ping, EXPIRE gives the key another 60 s.  An error
\* is only logged, and EXPIRE of a key that ran out does nothing and reports no
\* error: in both cases nothing changes.
Renew(c) ==
  /\ pc[Writer(c)] = "writing"
  /\ session[ConnUser[c]] # None
  /\ lapsing' = lapsing \ {ConnUser[c]}
  /\ UNCHANGED <<mode, clients, mu, connVars, session, wiping, eventVars, msgVars>>

-----------------------------------------------------------------------------
(* StopClient, run by either goroutine of a connection                     *)

\* Faulty variant: ServeHTTP does not cancel the root context.
NothingCancelled(t) == cancelled

\* What a goroutine that returns from StopClient leaves cancelled: when the
\* read side returns, so does ServeHTTP, which cancels the root context.
CancelledOnReturn(t) == IF t[2] = "read" THEN cancelled \cup {t[1]} ELSE cancelled

\* Faulty variant: the Offline event is published whether or not the user is
\* in the map.
StopMissPublishes(t) ==
  /\ pc[t] = "stop"
  /\ mu[NodeOf(t)] = None
  /\ clients[NodeOf(t)][UserOf(t)] = None
  /\ mu' = [mu EXCEPT ![NodeOf(t)] = t]
  /\ pc' = [pc EXCEPT ![t] = "offline"]
  /\ UNCHANGED <<mode, clients, closed, cancelled, redisVars, eventVars, msgVars>>

\* The user is not in the map: return without closing or cancelling anything.
StopMiss(t) ==
  /\ pc[t] = "stop"
  /\ mu[NodeOf(t)] = None
  /\ clients[NodeOf(t)][UserOf(t)] = None
  /\ pc' = [pc EXCEPT ![t] = "ended"]
  /\ cancelled' = CancelledOnReturn(t)
  /\ UNCHANGED <<mode, clients, mu, closed, redisVars, eventVars, msgVars>>

\* Faulty variant: the entry is left in the map.
StopKeepsEntry(t) ==
  /\ pc[t] = "stop"
  /\ mu[NodeOf(t)] = None
  /\ clients[NodeOf(t)][UserOf(t)] # None
  /\ mu' = [mu EXCEPT ![NodeOf(t)] = t]
  /\ pc' = [pc EXCEPT ![t] = "clear"]
  /\ UNCHANGED <<mode, clients, closed, cancelled, redisVars, eventVars, msgVars>>

\* The user is in the map: the entry is deleted by user, whichever connection
\* it holds, and the mutex is kept over the calls that follow.
StopDelete(t) ==
  /\ pc[t] = "stop"
  /\ mu[NodeOf(t)] = None
  /\ clients[NodeOf(t)][UserOf(t)] # None
  /\ clients' = [clients EXCEPT ![NodeOf(t)][UserOf(t)] = None]
  /\ mu' = [mu EXCEPT ![NodeOf(t)] = t]
  /\ pc' = [pc EXCEPT ![t] = "clear"]
  /\ UNCHANGED <<mode, closed, cancelled, redisVars, eventVars, msgVars>>

\* ClearSession deletes the key by user, whichever node it names.  It has no
\* effect when it fails before Redis is reached, as with a done context.
StopClear(t) ==
  /\ pc[t] = "clear"
  /\ \/ /\ t[1] \notin cancelled
        /\ session' = [session EXCEPT ![UserOf(t)] = None]
        /\ lapsing' = lapsing \ {UserOf(t)}
     \/ /\ t[1] \in cancelled \/ "redis" \in Faults
        /\ UNCHANGED <<session, lapsing>>
  /\ pc' = [pc EXCEPT ![t] = "offline"]
  /\ UNCHANGED <<mode, clients, mu, closed, cancelled, wiping, eventVars, msgVars>>

\* The Offline event is published; an error is only logged.
StopPublish(t) ==
  /\ pc[t] = "offline"
  /\ \/ offline' = [offline EXCEPT ![t[1]] = @ + 1]
     \/ (t[1] \in cancelled \/ "kafka" \in Faults) /\ UNCHANGED offline
  /\ pc' = [pc EXCEPT ![t] = "close"]
  /\ UNCHANGED <<mode, clients, mu, closed, cancelled, redisVars, online, msgVars>>

\* The connection is closed, its contexts cancelled and the mutex released.
StopClose(t) ==
  /\ pc[t] = "close"
  /\ closed' = closed \cup {t[1]}
  /\ cancelled' = cancelled \cup {t[1]}
  /\ mu' = [mu EXCEPT ![NodeOf(t)] = None]
  /\ pc' = [pc EXCEPT ![t] = "ended"]
  /\ UNCHANGED <<mode, clients, redisVars, eventVars, msgVars>>

StopClient(t) ==
  StopMiss(t) \/ StopDelete(t) \/ StopClear(t) \/ StopPublish(t) \/ StopClose(t)

-----------------------------------------------------------------------------
(* SendToUser, called for each message of a PushMessage request            *)

\* The user has no client on this node: ErrorUserNotFound.
SendRefused(n, u, m) ==
  /\ clients[n][u] = None
  /\ outcome' = [outcome EXCEPT ![m] = "done"]
  /\ UNCHANGED queue

\* Faulty variant: the bound is off by one.
SendQueuedOneMore(n, u, m) ==
  /\ clients[n][u] # None
  /\ Len(queue[clients[n][u]]) <= QueueCap
  /\ queue' = [queue EXCEPT ![clients[n][u]] = Append(@, m)]
  /\ outcome' = [outcome EXCEPT ![m] = "queued"]

\* There is room in the client's queue.
SendQueued(n, u, m) ==
  /\ clients[n][u] # None
  /\ Len(queue[clients[n][u]]) < QueueCap
  /\ queue' = [queue EXCEPT ![clients[n][u]] = Append(@, m)]
  /\ outcome' = [outcome EXCEPT ![m] = "queued"]

\* The queue is full: the message is dropped, the call succeeds.
SendDropped(n, u, m) ==
  /\ clients[n][u] # None
  /\ Len(queue[clients[n][u]]) >= QueueCap
  /\ outcome' = [outcome EXCEPT ![m] = "done"]
  /\ UNCHANGED queue

SendToUser(n, u, m) ==
  /\ mode[n] # "down"
  /\ mu[n] = None
  /\ outcome[m] = "none"
  /\ SendRefused(n, u, m) \/ SendQueued(n, u, m) \/ SendDropped(n, u, m)
  /\ UNCHANGED <<mode, clients, mu, connVars, redisVars, eventVars>>

-----------------------------------------------------------------------------
(* The rest of the world: Redis expiry, shutdown and crash                 *)

\* Some connection is between SetSession and its writePump, at most the
\* producer's 5 s, so the key is new.
Fresh(u) == \E c \in Conns : ConnUser[c] = u /\ pc[Reader(c)] = "online"

\* Faulty variant: the key is set without a time to live.
NoTimeToLive(u) == FALSE

\* The key has lived through a tick without a renewal that reached it, and has
\* 6 s left.  That happens to connections that are up: the write pump hears the
\* tick only after a WriteMessage that may take 10 s, pings first, and Redis may
\* refuse the renewal.
Lapse(u) ==
  /\ session[u] # None
  /\ ~ Fresh(u)
  /\ lapsing' = lapsing \cup {u}
  /\ UNCHANGED <<mode, clients, mu, connVars, session, wiping, eventVars, msgVars>>

\* The key runs out; nothing but another SetSession brings it back.
SessionExpire(u) ==
  /\ session[u] # None
  /\ u \in lapsing
  /\ session' = [session EXCEPT ![u] = None]
  /\ UNCHANGED <<mode, clients, mu, connVars, lapsing, wiping, eventVars, msgVars>>

\* The manager's cleanup closes the clients it finds and notes their users.
CleanupClose(n) ==
  /\ "shutdown" \in Faults
  /\ mode[n] = "up"
  /\ mode' = [mode EXCEPT ![n] = "closing"]
  /\ closed' = closed \cup {c \in Conns : \E u \in Users : clients[n][u] = c}
  /\ wiping' = [wiping EXCEPT ![n] = {u \in Users : clients[n][u] # None}]
  /\ UNCHANGED <<clients, mu, pc, cancelled, session, lapsing, eventVars, msgVars>>

\* The process is gone: its memory, its goroutines and its sockets.
Exit(n) ==
  /\ mode' = [mode EXCEPT ![n] = "down"]
  /\ clients' = [clients EXCEPT ![n] = [u \in Users |-> None]]
  /\ mu' = [mu EXCEPT ![n] = None]
  /\ pc' = [t \in Threads |->
              IF NodeOf(t) = n /\ pc[t] # "idle" THEN "ended" ELSE pc[t]]
  /\ closed' = closed \cup {c \in Conns : ConnNode[c] = n}
  /\ cancelled' = cancelled \cup {c \in Conns : ConnNode[c] = n}
  /\ wiping' = [wiping EXCEPT ![n] = {}]
  /\ queue' = [c \in Conns |-> IF ConnNode[c] = n THEN <<>> ELSE queue[c]]
  /\ UNCHANGED <<eventVars, outcome>>

\* BatchClearSession, unless it fails, and the end of the process.
CleanupClear(n) ==
  /\ mode[n] = "closing"
  /\ \/ /\ session' = [u \in Users |-> IF u \in wiping[n] THEN None ELSE session[u]]
        /\ lapsing' = lapsing \ wiping[n]
     \/ "redis" \in Faults /\ UNCHANGED <<session, lapsing>>
  /\ Exit(n)

Crash(n) ==
  /\ "crash" \in Faults
  /\ mode[n] # "down"
  /\ UNCHANGED <<session, lapsing>>
  /\ Exit(n)

-----------------------------------------------------------------------------
Connection(c) ==
  \/ SetSession(c) \/ SetSessionFails(c) \/ PublishOnline(c) \/ Register(c)
  \/ ReadEnd(c) \/ WriteEnd(c) \/ Write(c) \/ WriteFails(c) \/ Renew(c)

Node(n) == CleanupClose(n) \/ CleanupClear(n) \/ Crash(n)

Next ==
  \/ \E c \in Conns : Connection(c)
  \/ \E t \in Threads : StopClient(t)
  \/ \E n \in Nodes, u \in Users, m \in Msgs : SendToUser(n, u, m)
  \/ \E u \in Users : Lapse(u) \/ SessionExpire(u)
  \/ \E n \in Nodes : Node(n)

Spec == Init /\ [][Next]_vars

\* The read deadline is renewed by pongs only, so it fires once nobody pings.
ReadDue(c) == c \in closed \/ pc[Writer(c)] = "ended"

\* The tick makes the write pump meet a closed connection or a done context.
WriteDue(c) == c \in closed \/ c \in cancelled

\* No write pump renews the user's key.
Unrenewed(u) == \A c \in Conns : ConnUser[c] = u => pc[Writer(c)] # "writing"

\* The scheduler runs every goroutine, the mutex starves nobody, every call to
\* Redis or Kafka has a timeout, cleanup completes, and Redis expires a key that
\* no pump renews.
Fairness ==
  /\ \A c \in Conns :
       /\ WF_vars(PublishOnline(c))
       /\ WF_vars(Register(c))
       /\ WF_vars(ReadDue(c) /\ ReadEnd(c))
       /\ WF_vars(WriteDue(c) /\ WriteEnd(c))
       /\ WF_vars(Write(c))
  /\ \A t \in Threads : WF_vars(StopClient(t))
  /\ \A u \in Users :
       /\ WF_vars(Unrenewed(u) /\ Lapse(u))
       /\ WF_vars(Unrenewed(u) /\ SessionExpire(u))
  /\ \A n \in Nodes : WF_vars(CleanupClear(n))

FairSpec == Spec /\ Fairness

-----------------------------------------------------------------------------
(* Correctness                                                             *)

\* A client found in the map has a reader that will still come to delete it:
\* the map never keeps a connection whose readPump has been through
\* StopClient, and files each connection under its own node and user
\* (StartClient, StopClient, and the pumps that race them).
NoGhostClient ==
  \A n \in Nodes, u \in Users, c \in Conns :
    clients[n][u] = c =>
      /\ ConnNode[c] = n /\ ConnUser[c] = u
      /\ pc[Reader(c)] \in {"reading", "stop"}

\* Both pumps of a connection are running.
Connected(c) == pc[Reader(c)] = "reading" /\ pc[Writer(c)] = "writing"

\* Pushes find the connection: its node's map holds it, and the session names
\* its node unless the key ran out, and was not deleted.
Reachable(c) ==
  LET n == ConnNode[c]  u == ConnUser[c] IN
  /\ clients[n][u] = c
  /\ session[u] = n \/ (u \in lapsing /\ session[u] = None)

\* A patient user's connection that is up is where the push service looks for
\* the user: no pump, StopClient or cleanup of another connection, of theirs or
\* of users who are not patient, takes its map entry or its session away.  Only
\* time does that to the session, when the write pump renews it too late.
ConnectedIsReachable ==
  \A c \in Conns : ConnUser[c] \in Patient /\ Connected(c) => Reachable(c)

\* A patient user is in the map of the node that the session names, or the
\* session is gone, also while connections start, stop or die with a node; and
\* a node that shuts down is about to delete no session that names another one.
SessionsFollowMaps ==
  \A n \in Nodes, u \in Patient :
    clients[n][u] # None \/ u \in wiping[n] => session[u] \in {n, None}

\* The same for the one connection a user has left, once every other has been
\* stopped: however they overlapped before, it is where pushes find the user.
SettledIsReachable ==
  \A c \in Conns : Connected(c) /\ Undisturbed(c) => Reachable(c)

\* The Offline event is the last word of a patient user's connection: it is
\* published once, and after it the connection is neither in the map nor about
\* to enter it.
OfflineIsFinal ==
  \A c \in Conns : ConnUser[c] \in Patient /\ offline[c] # 0 =>
    /\ offline[c] = 1
    /\ pc[Reader(c)] \notin {"idle", "online", "register"}
    /\ clients[ConnNode[c]][ConnUser[c]] # c

\* Nobody waits for what never comes: a mutex that is held is held by a goroutine
\* of its node that is inside StopClient, and a write pump whose reader has
\* returned is due to end.
NobodyIsStuck ==
  /\ \A n \in Nodes : mu[n] # None => NodeOf(mu[n]) = n /\ pc[mu[n]] \in Holding
  /\ \A c \in Conns :
       pc[Reader(c)] = "ended" /\ pc[Writer(c)] = "writing" => WriteDue(c)

\* When one pump has returned, the other returns too, although StopClient
\* cancels and closes nothing when the user is no longer in the map.
PumpsEndTogether ==
  \A c \in Conns :
    (\E t \in {Reader(c), Writer(c)} : pc[t] = "ended") ~> Quiet(c)

\* Once no connection of a user is left, its session goes, whether it is
\* cleared, left behind by a crash or re-created by a late SetSession.
SessionsDieOut ==
  \A u \in Users :
    (\A c \in Conns : ConnUser[c] = u => pc[Reader(c)] = "ended")
      ~> session[u] = None

\* A message accepted into a queue is taken from it, unless the connection's
\* write pump ends first; a connection thrown out of the map still drains.
QueuesDrain ==
  \A m \in Msgs, c \in Conns :
    (\E i \in DOMAIN queue[c] : queue[c][i] = m)
      ~> (outcome[m] # "queued" \/ pc[Writer(c)] # "writing")

-----------------------------------------------------------------------------
(* Refinement                                                              *)

\* How far StartClient got for connection c.
StageOf(c) ==
  CASE pc[Reader(c)] = "idle" -> "idle"
    [] pc[Reader(c)] = "online" -> "session"
    [] pc[Reader(c)] = "register" -> "online"
    [] OTHER -> "done"

\* The users in the map of node n.
PresentAt(n) == {u \in Users : clients[n][u] # None}

\* The user taken out of the map of node n whose session is still to be cleared.
ClearingAt(n) ==
  IF mu[n] # None /\ pc[mu[n]] = "clear" THEN UserOf(mu[n]) ELSE None

ViewFaults ==
  {f \in {"redis", "exit"} :
     IF f = "redis" THEN "redis" \in Faults ELSE Faults \cap {"crash", "shutdown"} # {}}

View == INSTANCE AccessView WITH
  AccessFaults <- ViewFaults,
  stage <- [c \in Conns |-> StageOf(c)],
  present <- [n \in Nodes |-> PresentAt(n)],
  clearing <- [n \in Nodes |-> ClearingAt(n)]

\* Nodes behave towards push as AccessView says, however connections overlap:
\* a session is written, announced and registered in this order; the map loses
\* a user only by StopClient, which then clears the session, or with its node.
\* Of patient users, a shutdown clears only sessions of its own node, and
\* clearing fails only with Redis.
LooksLikeAccess == View!AccessSpec
=============================================================================

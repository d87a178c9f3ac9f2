------------------------- MODULE ConnManager_proofs -------------------------
(***************************************************************************)
(* Theorems about ConnManager for every set of nodes, users, connections   *)
(* and messages: types, the absence of ghost clients whatever overlaps,    *)
(* and for patient users, whatever the others do, that a connected user is *)
(* where pushes look for it and that Offline is final.                     *)
(***************************************************************************)
EXTENDS ConnManager, TLAPS

-----------------------------------------------------------------------------
(* The inductive invariant                                                 *)

\* The goroutine that is inside StopClient's critical section owns the mutex.
HoldersOwnMutex ==
  \A t \in Threads : pc[t] \in Holding => mu[NodeOf(t)] = t

\* The write pump is started after the Online event was sent.
WriterAfterOnline ==
  \A c \in Conns : pc[Reader(c)] \in {"idle", "online"} => pc[Writer(c)] = "idle"

\* The connections of patient users.
PatientConns == {c \in Conns : ConnUser[c] \in Patient}

\* At most one connection of a patient user has a goroutine running.
OneActivePerUser ==
  \A c, d \in PatientConns :
    c # d /\ ConnUser[c] = ConnUser[d] => Quiet(c) \/ Quiet(d)

\* When both its pumps run, it is in the map.
ConnectedIsRegistered ==
  \A c \in PatientConns : Connected(c) => clients[ConnNode[c]][ConnUser[c]] = c

\* A connection from SetSession until one of its pumps stops.
Starting(c) ==
  \/ pc[Reader(c)] = "online"
  \/ pc[Reader(c)] \in {"register", "reading"} /\ pc[Writer(c)] = "writing"

\* Throughout, the session names its node, or its key ran out.
StartingHasSession ==
  \A c \in PatientConns : Starting(c) =>
    \/ session[ConnUser[c]] = ConnNode[c]
    \/ ConnUser[c] \in lapsing /\ session[ConnUser[c]] = None

\* Of patient users, a cleanup is about to delete the sessions only of those
\* connected to its own node.
WipesOwnSessions ==
  \A c \in PatientConns, n \in Nodes :
    ConnUser[c] \in wiping[n] /\ ~ Quiet(c) => ConnNode[c] = n

\* Until a goroutine of theirs that deleted the entry has published the Offline
\* event, none was published, and the connection has left the map for good.
OfflineIsPending ==
  \A t \in Threads : t[1] \in PatientConns /\ pc[t] \in {"clear", "offline"} =>
    /\ offline[t[1]] = 0
    /\ pc[Reader(t[1])] \notin {"idle", "online", "register"}
    /\ clients[NodeOf(t)][UserOf(t)] # t[1]

\* What holds of patient users besides TypeOK and NoGhostClient.
PatientInv ==
  /\ HoldersOwnMutex
  /\ WriterAfterOnline
  /\ OneActivePerUser
  /\ ConnectedIsRegistered
  /\ StartingHasSession
  /\ WipesOwnSessions
  /\ OfflineIsPending
  /\ OfflineIsFinal

-----------------------------------------------------------------------------
(* Goroutines                                                              *)

LEMMA ThreadsOfConn ==
  ASSUME NEW c \in Conns
  PROVE  /\ Reader(c) \in Threads /\ Reader(c)[1] = c /\ Reader(c)[2] = "read"
         /\ Writer(c) \in Threads /\ Writer(c)[1] = c /\ Writer(c)[2] = "write"
         /\ NodeOf(Reader(c)) = ConnNode[c] /\ UserOf(Reader(c)) = ConnUser[c]
         /\ NodeOf(Writer(c)) = ConnNode[c] /\ UserOf(Writer(c)) = ConnUser[c]
         /\ Reader(c) # Writer(c)
BY DEF Threads, Reader, Writer, NodeOf, UserOf

LEMMA ConnOfThread ==
  ASSUME NEW t \in Threads
  PROVE  /\ t[1] \in Conns
         /\ t = Reader(t[1]) \/ t = Writer(t[1])
         /\ NodeOf(t) = ConnNode[t[1]] /\ NodeOf(t) \in Nodes
         /\ UserOf(t) = ConnUser[t[1]] /\ UserOf(t) \in Users
BY ConnAssumption DEF Threads, Reader, Writer, NodeOf, UserOf

-----------------------------------------------------------------------------
(* Types                                                                   *)

LEMMA InitTypeOK == Init => TypeOK
BY QueueCapAssumption DEF Init, TypeOK, PC

LEMMA TailFacts ==
  ASSUME NEW q \in Seq(Msgs), q # <<>>, Len(q) <= QueueCap
  PROVE  /\ Head(q) \in Msgs
         /\ Tail(q) \in Seq(Msgs)
         /\ Len(Tail(q)) <= QueueCap
BY QueueCapAssumption

LEMMA ConnectionTypeOK ==
  ASSUME TypeOK, NEW c \in Conns, Connection(c)
  PROVE  TypeOK'
<1> USE ThreadsOfConn, ConnAssumption DEF TypeOK, connVars, redisVars, eventVars, msgVars
<1>1. CASE SetSession(c) BY <1>1 DEF SetSession, PC
<1>2. CASE SetSessionFails(c)
  <2>1. CASE UNCHANGED session
    BY <1>2, <2>1 DEF SetSessionFails, PC
  <2>2. CASE session' = [session EXCEPT ![ConnUser[c]] = ConnNode[c]]
    BY <1>2, <2>2 DEF SetSessionFails, PC
  <2> QED BY <1>2, <2>1, <2>2 DEF SetSessionFails
<1>3. CASE PublishOnline(c) BY <1>3 DEF PublishOnline, PC
<1>4. CASE Register(c) BY <1>4 DEF Register, PC
<1>5. CASE ReadEnd(c) BY <1>5 DEF ReadEnd, PC
<1>6. CASE WriteEnd(c) BY <1>6 DEF WriteEnd, PC
<1>7. CASE Write(c)
  <2>1. /\ Head(queue[c]) \in Msgs
        /\ Tail(queue[c]) \in Seq(Msgs)
        /\ Len(Tail(queue[c])) <= QueueCap
    BY <1>7, TailFacts DEF Write
  <2>2. queue' \in [Conns -> Seq(Msgs)] /\ \A d \in Conns : Len(queue'[d]) <= QueueCap
    BY <1>7, <2>1 DEF Write
  <2>3. outcome' \in [Msgs -> {"none", "queued", "done"}]
    BY <1>7, <2>1 DEF Write
  <2> QED BY <1>7, <2>2, <2>3 DEF Write
<1>8. CASE WriteFails(c)
  <2>1. /\ Head(queue[c]) \in Msgs
        /\ Tail(queue[c]) \in Seq(Msgs)
        /\ Len(Tail(queue[c])) <= QueueCap
    BY <1>8, TailFacts DEF WriteFails
  <2>2. queue' \in [Conns -> Seq(Msgs)] /\ \A d \in Conns : Len(queue'[d]) <= QueueCap
    BY <1>8, <2>1 DEF WriteFails
  <2>3. outcome' \in [Msgs -> {"none", "queued", "done"}]
    BY <1>8, <2>1 DEF WriteFails
  <2>4. pc' \in [Threads -> PC]
    BY <1>8 DEF WriteFails, PC
  <2> QED BY <1>8, <2>2, <2>3, <2>4 DEF WriteFails
<1>9. CASE Renew(c) BY <1>9 DEF Renew
<1> QED BY <1>1, <1>2, <1>3, <1>4, <1>5, <1>6, <1>7, <1>8, <1>9 DEF Connection

LEMMA StopClientTypeOK ==
  ASSUME TypeOK, NEW t \in Threads, StopClient(t)
  PROVE  TypeOK'
<1> USE ConnOfThread DEF TypeOK, connVars, redisVars, eventVars, msgVars
<1>1. CASE StopMiss(t) BY <1>1 DEF StopMiss, CancelledOnReturn, PC
<1>2. CASE StopDelete(t) BY <1>2 DEF StopDelete, PC, Holding
<1>3. CASE StopClear(t) BY <1>3 DEF StopClear, PC, Holding
<1>4. CASE StopPublish(t)
  <2>1. pc' \in [Threads -> PC]
    BY <1>4 DEF StopPublish, PC, Holding
  <2>2. offline' \in [Conns -> Nat]
    <3>1. offline \in [Conns -> Nat] /\ t[1] \in Conns
      OBVIOUS
    <3>2. \A i \in Nat : i + 1 \in Nat
      OBVIOUS
    <3>3. \/ offline' = [offline EXCEPT ![t[1]] = offline[t[1]] + 1]
          \/ offline' = offline
      BY <1>4 DEF StopPublish
    <3> QED BY ONLY <3>1, <3>2, <3>3
  <2>3. UNCHANGED <<mode, clients, mu, closed, cancelled, session, lapsing, wiping,
                    online, queue, outcome>>
    BY <1>4 DEF StopPublish
  <2> QED BY <2>1, <2>2, <2>3
<1>5. CASE StopClose(t) BY <1>5 DEF StopClose, PC
<1> QED BY <1>1, <1>2, <1>3, <1>4, <1>5 DEF StopClient

LEMMA SendTypeOK ==
  ASSUME TypeOK, NEW n \in Nodes, NEW u \in Users, NEW m \in Msgs, SendToUser(n, u, m)
  PROVE  TypeOK'
<1> USE QueueCapAssumption DEF TypeOK, SendToUser, connVars, redisVars, eventVars
<1>1. CASE SendRefused(n, u, m) BY <1>1 DEF SendRefused
<1>2. CASE SendQueued(n, u, m) BY <1>2 DEF SendQueued
<1>3. CASE SendDropped(n, u, m) BY <1>3 DEF SendDropped
<1> QED BY <1>1, <1>2, <1>3

LEMMA NodeTypeOK ==
  ASSUME TypeOK, NEW n \in Nodes, Node(n)
  PROVE  TypeOK'
<1> USE DEF TypeOK, connVars, redisVars, eventVars, msgVars
<1>1. CASE CleanupClose(n) BY <1>1 DEF CleanupClose
<1>2. CASE CleanupClear(n) BY <1>2, QueueCapAssumption DEF CleanupClear, Exit, PC
<1>3. CASE Crash(n) BY <1>3, QueueCapAssumption DEF Crash, Exit, PC
<1> QED BY <1>1, <1>2, <1>3 DEF Node

LEMMA NextTypeOK == TypeOK /\ [Next]_vars => TypeOK'
<1> SUFFICES ASSUME TypeOK, [Next]_vars PROVE TypeOK'
  OBVIOUS
<1>1. CASE \E u \in Users : Lapse(u) \/ SessionExpire(u)
  BY <1>1 DEF TypeOK, Lapse, SessionExpire, connVars, redisVars, eventVars, msgVars
<1>2. CASE UNCHANGED vars
  BY <1>2 DEF TypeOK, vars, connVars, redisVars, eventVars, msgVars
<1> QED
  BY <1>1, <1>2, ConnectionTypeOK, StopClientTypeOK, SendTypeOK, NodeTypeOK DEF Next

\* Every reachable state is well typed; in particular no Send queue exceeds its
\* capacity (client.Send and the select in SendToUser).
THEOREM TypeCorrect == Spec => []TypeOK
BY InitTypeOK, NextTypeOK, PTL DEF Spec

-----------------------------------------------------------------------------
(* No ghost client, whatever overlaps                                      *)

\* The reader named by an entry is between registration and its StopClient;
\* the steps below either keep it there or empty the entry.
LEMMA NextNoGhost == TypeOK /\ NoGhostClient /\ [Next]_vars => NoGhostClient'
<1> SUFFICES ASSUME TypeOK, NoGhostClient, [Next]_vars,
                    NEW n \in Nodes, NEW u \in Users, NEW c \in Conns, clients'[n][u] = c
             PROVE  /\ ConnNode[c] = n /\ ConnUser[c] = u
                    /\ pc'[Reader(c)] \in {"reading", "stop"}
  BY DEF NoGhostClient
<1> DEFINE Goal == /\ ConnNode[c] = n /\ ConnUser[c] = u
                   /\ pc'[Reader(c)] \in {"reading", "stop"}
<1>0. clients[n][u] = c => /\ ConnNode[c] = n /\ ConnUser[c] = u
                           /\ pc[Reader(c)] \in {"reading", "stop"}
  BY DEF NoGhostClient
<1>a. Reader(c) \in Threads /\ c # None
  BY ThreadsOfConn, NoneAssumption
<1>b. /\ clients \in [Nodes -> [Users -> Conns \cup {None}]]
      /\ pc \in [Threads -> PC]
  BY DEF TypeOK
<1>1. ASSUME NEW d \in Conns, Connection(d)
      PROVE  Goal
  <2>a. Reader(d) \in Threads /\ Writer(d) \in Threads /\ ConnNode[d] \in Nodes /\ ConnUser[d] \in Users
    BY ThreadsOfConn, ConnAssumption
  <2>b. (Reader(c) = Reader(d) => c = d) /\ Reader(c) # Writer(d)
    BY DEF Reader, Writer
  <2> USE <1>0, <1>a, <1>b, <2>a, <2>b DEF connVars
  <2>1. CASE SetSession(d) BY <2>1 DEF SetSession
  <2>2. CASE SetSessionFails(d) BY <2>2 DEF SetSessionFails
  <2>3. CASE PublishOnline(d) BY <2>3 DEF PublishOnline
  <2>4. CASE Register(d) BY <2>4 DEF Register
  <2>5. CASE ReadEnd(d) BY <2>5 DEF ReadEnd
  <2>6. CASE WriteEnd(d) BY <2>6 DEF WriteEnd
  <2>7. CASE Write(d) BY <2>7 DEF Write
  <2>8. CASE WriteFails(d) BY <2>8 DEF WriteFails
  <2>9. CASE Renew(d) BY <2>9 DEF Renew
  <2> QED
    BY <1>1, <2>1, <2>2, <2>3, <2>4, <2>5, <2>6, <2>7, <2>8, <2>9 DEF Connection
<1>2. ASSUME NEW t \in Threads, StopClient(t)
      PROVE  Goal
  <2>a. NodeOf(t) \in Nodes /\ UserOf(t) \in Users /\ NodeOf(t) = ConnNode[t[1]] /\ UserOf(t) = ConnUser[t[1]]
    BY ConnOfThread
  <2>b. t = Reader(c) => t[1] = c
    BY DEF Reader
  <2> USE <1>0, <1>a, <1>b, <2>a, <2>b DEF connVars
  <2>1. CASE StopMiss(t) BY <2>1 DEF StopMiss
  <2>2. CASE StopDelete(t) BY <2>2 DEF StopDelete
  <2>3. CASE StopClear(t) BY <2>3 DEF StopClear
  <2>4. CASE StopPublish(t) BY <2>4 DEF StopPublish
  <2>5. CASE StopClose(t) BY <2>5 DEF StopClose
  <2> QED BY <1>2, <2>1, <2>2, <2>3, <2>4, <2>5 DEF StopClient
<1>3. ASSUME NEW o \in Nodes, Node(o)
      PROVE  Goal
  <2>a. NodeOf(Reader(c)) = ConnNode[c]
    BY ThreadsOfConn
  <2> USE <1>0, <1>a, <1>b, <2>a
  <2>1. CASE CleanupClose(o) BY <2>1 DEF CleanupClose
  <2>2. CASE Exit(o) BY <2>2 DEF Exit
  <2> QED BY <1>3, <2>1, <2>2 DEF Node, CleanupClear, Crash
<1>4. CASE \E o \in Nodes, v \in Users, m \in Msgs : SendToUser(o, v, m)
  BY <1>0, <1>4 DEF SendToUser, connVars
<1>5. CASE \E v \in Users : Lapse(v) \/ SessionExpire(v)
  BY <1>0, <1>5 DEF Lapse, SessionExpire, connVars
<1>6. CASE UNCHANGED vars
  BY <1>0, <1>6 DEF vars, connVars
<1> QED
  BY <1>1, <1>2, <1>3, <1>4, <1>5, <1>6 DEF Next

\* The map never keeps a connection whose read pump has been through
\* StopClient, however registrations, both pumps of several connections,
\* shutdown and crash interleave.
THEOREM NoGhost == Spec => []NoGhostClient
<1>1. Init => NoGhostClient
  BY NoneAssumption DEF Init, NoGhostClient
<1> QED
  BY <1>1, TypeCorrect, NextNoGhost, PTL DEF Spec

-----------------------------------------------------------------------------
(* Patient users                                                           *)

LEMMA ThreadsDiffer ==
  ASSUME NEW c \in Conns, NEW d \in Conns
  PROVE  /\ Reader(c) = Reader(d) => c = d
         /\ Writer(c) = Writer(d) => c = d
         /\ Reader(c) # Writer(d)
         /\ Writer(c) # Reader(d)
BY DEF Reader, Writer

LEMMA QuietUnfolded ==
  ASSUME NEW c \in Conns
  PROVE  /\ Quiet(c) <=> /\ pc[Reader(c)] \in {"idle", "ended"}
                         /\ pc[Writer(c)] \in {"idle", "ended"}
         /\ Quiet(c)' <=> /\ pc'[Reader(c)] \in {"idle", "ended"}
                          /\ pc'[Writer(c)] \in {"idle", "ended"}
BY DEF Quiet

LEMMA RunningIsNotQuiet ==
  ASSUME NEW t \in Threads, pc[t] \notin {"idle", "ended"}
  PROVE  ~ Quiet(t[1])
BY ConnOfThread, QuietUnfolded

\* The steps of one connection leave the goroutines of the others alone.
LEMMA OthersUntouched ==
  ASSUME TypeOK, NEW c \in Conns, NEW d \in Conns, c # d,
         Connection(d) \/ \E t \in {Reader(d), Writer(d)} : StopClient(t)
  PROVE  pc'[Reader(c)] = pc[Reader(c)] /\ pc'[Writer(c)] = pc[Writer(c)]
<1>1. /\ Reader(c) \in Threads /\ Writer(c) \in Threads
      /\ Reader(d) \in Threads /\ Writer(d) \in Threads
      /\ Reader(c) # Reader(d) /\ Writer(c) # Writer(d)
      /\ Reader(c) # Writer(d) /\ Writer(c) # Reader(d)
  BY ThreadsOfConn, ThreadsDiffer
<1>2. pc \in [Threads -> PC]
  BY DEF TypeOK
<1>3. CASE Connection(d)
  BY <1>1, <1>2, <1>3
     DEF Connection, SetSession, SetSessionFails, PublishOnline, Register, ReadEnd,
         WriteEnd, Write, WriteFails, Renew, connVars
<1>4. CASE \E t \in {Reader(d), Writer(d)} : StopClient(t)
  BY <1>1, <1>2, <1>4
     DEF StopClient, StopMiss, StopDelete, StopClear, StopPublish, StopClose
<1> QED BY <1>3, <1>4

\* Only SetSession starts a connection.
LEMMA QuietStaysQuiet ==
  ASSUME TypeOK, [Next]_vars, NEW c \in Conns, Quiet(c), ~ SetSession(c)
  PROVE  Quiet(c)'
<1>1. pc[Reader(c)] \in {"idle", "ended"} /\ pc[Writer(c)] \in {"idle", "ended"}
  BY QuietUnfolded
<1>2. SUFFICES pc'[Reader(c)] \in {"idle", "ended"} /\ pc'[Writer(c)] \in {"idle", "ended"}
  BY QuietUnfolded
<1>3. /\ Reader(c) \in Threads /\ Writer(c) \in Threads /\ Reader(c) # Writer(c)
      /\ pc \in [Threads -> PC]
  BY ThreadsOfConn DEF TypeOK
<1>4. ASSUME NEW d \in Conns, Connection(d)
      PROVE  pc'[Reader(c)] \in {"idle", "ended"} /\ pc'[Writer(c)] \in {"idle", "ended"}
  <2>1. CASE d # c BY <1>1, <1>4, <2>1, OthersUntouched
  <2>2. CASE d = c
    BY <1>1, <1>3, <1>4, <2>2
       DEF Connection, SetSessionFails, PublishOnline, Register, ReadEnd, WriteEnd,
           Write, WriteFails, Renew, connVars
  <2> QED BY <2>1, <2>2
<1>5. ASSUME NEW t \in Threads, StopClient(t)
      PROVE  pc'[Reader(c)] \in {"idle", "ended"} /\ pc'[Writer(c)] \in {"idle", "ended"}
  <2>1. pc[t] \notin {"idle", "ended"}
    BY <1>5 DEF StopClient, StopMiss, StopDelete, StopClear, StopPublish, StopClose
  <2>2. t # Reader(c) /\ t # Writer(c)
    BY <1>1, <2>1
  <2> QED
    BY <1>1, <1>3, <1>5, <2>2
       DEF StopClient, StopMiss, StopDelete, StopClear, StopPublish, StopClose
<1>6. ASSUME NEW n \in Nodes, Node(n)
      PROVE  pc'[Reader(c)] \in {"idle", "ended"} /\ pc'[Writer(c)] \in {"idle", "ended"}
  BY <1>1, <1>3, <1>6 DEF Node, CleanupClose, CleanupClear, Crash, Exit
<1>7. CASE \E n \in Nodes, u \in Users, m \in Msgs : SendToUser(n, u, m)
  BY <1>1, <1>7 DEF SendToUser, connVars
<1>8. CASE \E u \in Users : Lapse(u) \/ SessionExpire(u)
  BY <1>1, <1>8 DEF Lapse, SessionExpire, connVars
<1>9. CASE UNCHANGED vars
  BY <1>1, <1>9 DEF vars, connVars
<1> QED BY <1>4, <1>5, <1>6, <1>7, <1>8, <1>9 DEF Next

\* A step of the specification is the step of one actor.
LEMMA OneActor ==
  ASSUME [Next]_vars
  PROVE  \/ \E d \in Conns : Connection(d)
         \/ \E t \in Threads : StopClient(t)
         \/ \E n \in Nodes : CleanupClose(n)
         \/ \E n \in Nodes : Exit(n) /\ (CleanupClear(n) \/ UNCHANGED <<session, lapsing>>)
         \/ \E u \in Users : Lapse(u) \/ SessionExpire(u)
         \/ \E n \in Nodes, u \in Users, m \in Msgs : SendToUser(n, u, m)
         \/ UNCHANGED vars
BY DEF Next, Node, CleanupClear, Crash

LEMMA HoldersOwnMutexStep ==
  ASSUME TypeOK, HoldersOwnMutex, [Next]_vars
  PROVE  HoldersOwnMutex'
<1> SUFFICES ASSUME NEW s \in Threads, pc'[s] \in Holding
             PROVE  mu'[NodeOf(s)] = s
  BY DEF HoldersOwnMutex, NodeOf
<1>1. /\ pc[s] \in Holding => mu[NodeOf(s)] = s
      /\ NodeOf(s) \in Nodes
      /\ pc \in [Threads -> PC] /\ mu \in [Nodes -> Threads \cup {None}]
  BY ConnOfThread DEF HoldersOwnMutex, TypeOK
<1>2. ASSUME NEW d \in Conns, Connection(d) PROVE mu'[NodeOf(s)] = s
  <2>1. Reader(d) \in Threads /\ Writer(d) \in Threads
    BY ThreadsOfConn
  <2> QED
    BY <1>1, <1>2, <2>1
       DEF Connection, SetSession, SetSessionFails, PublishOnline, Register, ReadEnd,
           WriteEnd, Write, WriteFails, Renew, connVars, Holding
<1>3. ASSUME NEW t \in Threads, StopClient(t) PROVE mu'[NodeOf(s)] = s
  <2>1. NodeOf(t) \in Nodes /\ t # None /\ s # None
        /\ (pc[t] \in Holding => mu[NodeOf(t)] = t)
    BY ConnOfThread, NoneAssumption DEF HoldersOwnMutex
  <2> QED
    BY <1>1, <1>3, <2>1
       DEF StopClient, StopMiss, StopDelete, StopClear, StopPublish, StopClose, Holding
<1>4. CASE \E n \in Nodes : CleanupClose(n)
  BY <1>1, <1>4 DEF CleanupClose
<1>5. CASE \E n \in Nodes : Exit(n)
  BY <1>1, <1>5 DEF Exit, Holding
<1>6. CASE \E u \in Users : Lapse(u) \/ SessionExpire(u)
  BY <1>1, <1>6 DEF Lapse, SessionExpire, connVars
<1>7. CASE \E n \in Nodes, u \in Users, m \in Msgs : SendToUser(n, u, m)
  BY <1>1, <1>7 DEF SendToUser, connVars
<1>8. CASE UNCHANGED vars
  BY <1>1, <1>8 DEF vars, connVars
<1> QED BY <1>2, <1>3, <1>4, <1>5, <1>6, <1>7, <1>8, OneActor

LEMMA WriterAfterOnlineStep ==
  ASSUME TypeOK, WriterAfterOnline, [Next]_vars
  PROVE  WriterAfterOnline'
<1> SUFFICES ASSUME NEW c \in Conns, pc'[Reader(c)] \in {"idle", "online"}
             PROVE  pc'[Writer(c)] = "idle"
  BY DEF WriterAfterOnline
<1>1. /\ pc[Reader(c)] \in {"idle", "online"} => pc[Writer(c)] = "idle"
      /\ Reader(c) \in Threads /\ Writer(c) \in Threads /\ Reader(c) # Writer(c)
      /\ pc \in [Threads -> PC]
  BY ThreadsOfConn DEF WriterAfterOnline, TypeOK
<1>2. ASSUME NEW d \in Conns, Connection(d) PROVE pc'[Writer(c)] = "idle"
  <2>1. CASE c # d BY <1>1, <1>2, <2>1, OthersUntouched
  <2>2. CASE c = d
    BY <1>1, <1>2, <2>2
       DEF Connection, SetSession, SetSessionFails, PublishOnline, Register, ReadEnd,
           WriteEnd, Write, WriteFails, Renew, connVars
  <2> QED BY <2>1, <2>2
<1>3. ASSUME NEW t \in Threads, StopClient(t) PROVE pc'[Writer(c)] = "idle"
  BY <1>1, <1>3
     DEF StopClient, StopMiss, StopDelete, StopClear, StopPublish, StopClose
<1>4. CASE \E n \in Nodes : CleanupClose(n)
  BY <1>1, <1>4 DEF CleanupClose
<1>5. CASE \E n \in Nodes : Exit(n)
  BY <1>1, <1>5 DEF Exit
<1>6. CASE \E u \in Users : Lapse(u) \/ SessionExpire(u)
  BY <1>1, <1>6 DEF Lapse, SessionExpire, connVars
<1>7. CASE \E n \in Nodes, u \in Users, m \in Msgs : SendToUser(n, u, m)
  BY <1>1, <1>7 DEF SendToUser, connVars
<1>8. CASE UNCHANGED vars
  BY <1>1, <1>8 DEF vars, connVars
<1> QED BY <1>2, <1>3, <1>4, <1>5, <1>6, <1>7, <1>8, OneActor

\* The one connection that starts finds every other of its user quiet.
LEMMA OneActivePerUserStep ==
  ASSUME TypeOK, OneActivePerUser, [Next]_vars
  PROVE  OneActivePerUser'
<1> SUFFICES ASSUME NEW c \in PatientConns, NEW d \in PatientConns,
                    c # d, ConnUser[c] = ConnUser[d]
             PROVE  Quiet(c)' \/ Quiet(d)'
  BY DEF OneActivePerUser, PatientConns
<1>1. ASSUME NEW x \in PatientConns, NEW y \in PatientConns, x # y,
             ConnUser[x] = ConnUser[y], SetSession(x)
      PROVE  Quiet(y)'
  <2>1. Quiet(y)
    BY <1>1 DEF SetSession, Undisturbed, PatientConns
  <2>2. pc'[Reader(y)] = pc[Reader(y)] /\ pc'[Writer(y)] = pc[Writer(y)]
    BY <1>1, OthersUntouched DEF Connection, PatientConns
  <2> QED BY <2>1, <2>2, QuietUnfolded DEF PatientConns
<1>2. CASE SetSession(c) BY <1>1, <1>2
<1>3. CASE SetSession(d) BY <1>1, <1>3
<1>4. CASE ~ SetSession(c) /\ ~ SetSession(d)
  BY <1>4, QuietStaysQuiet DEF OneActivePerUser, PatientConns
<1> QED BY <1>2, <1>3, <1>4

\* Two running connections of a patient user are the same connection.
LEMMA SameConnection ==
  ASSUME OneActivePerUser, NEW c \in PatientConns, NEW d \in Conns,
         ConnUser[c] = ConnUser[d], ~ Quiet(c), ~ Quiet(d)
  PROVE  c = d
BY DEF OneActivePerUser, PatientConns

\* Nobody else of the user is running, so nobody else overwrites or deletes
\* the entry.
LEMMA ConnectedIsRegisteredStep ==
  ASSUME TypeOK, OneActivePerUser, ConnectedIsRegistered, [Next]_vars
  PROVE  ConnectedIsRegistered'
<1> SUFFICES ASSUME NEW c \in PatientConns,
                    pc'[Reader(c)] = "reading", pc'[Writer(c)] = "writing"
             PROVE  clients'[ConnNode[c]][ConnUser[c]] = c
  BY DEF ConnectedIsRegistered, Connected, PatientConns
<1>0. c \in Conns
  BY DEF PatientConns
<1>1. /\ pc[Reader(c)] = "reading" /\ pc[Writer(c)] = "writing"
           => clients[ConnNode[c]][ConnUser[c]] = c
      /\ Reader(c) \in Threads /\ Writer(c) \in Threads /\ Reader(c) # Writer(c)
      /\ ConnNode[c] \in Nodes /\ ConnUser[c] \in Users
      /\ NodeOf(Reader(c)) = ConnNode[c]
      /\ pc \in [Threads -> PC]
      /\ clients \in [Nodes -> [Users -> Conns \cup {None}]]
  BY <1>0, ThreadsOfConn, ConnAssumption DEF ConnectedIsRegistered, Connected, TypeOK
<1>2. ASSUME NEW d \in Conns, Connection(d)
      PROVE  clients'[ConnNode[c]][ConnUser[c]] = c
  <2>1. CASE c = d
    BY <1>1, <1>2, <2>1
       DEF Connection, SetSession, SetSessionFails, PublishOnline, Register, ReadEnd,
           WriteEnd, Write, WriteFails, Renew, connVars
  <2>2. CASE c # d
    <3>1. pc[Reader(c)] = "reading" /\ pc[Writer(c)] = "writing"
      BY <1>0, <1>2, <2>2, OthersUntouched
    <3>2. ~ Quiet(c)
      BY <1>0, <3>1, QuietUnfolded
    <3>3. CASE Register(d)
      <4>1. ~ Quiet(d)
        BY <3>3, QuietUnfolded DEF Register
      <4>2. ConnUser[c] # ConnUser[d]
        BY <2>2, <3>2, <4>1, SameConnection
      <4>3. ConnUser[d] \in Users /\ ConnNode[d] \in Nodes
        BY ConnAssumption
      <4> QED
        BY <1>1, <3>1, <3>3, <4>2, <4>3 DEF Register
    <3>4. CASE ~ Register(d)
      BY <1>1, <1>2, <3>1, <3>4
         DEF Connection, SetSession, SetSessionFails, PublishOnline, ReadEnd, WriteEnd,
             Write, WriteFails, Renew
    <3> QED BY <3>3, <3>4
  <2> QED BY <2>1, <2>2
<1>3. ASSUME NEW t \in Threads, StopClient(t)
      PROVE  clients'[ConnNode[c]][ConnUser[c]] = c
  <2>1. /\ t # Reader(c) /\ t # Writer(c)
        /\ pc[Reader(c)] = "reading" /\ pc[Writer(c)] = "writing"
    BY <1>1, <1>3
       DEF StopClient, StopMiss, StopDelete, StopClear, StopPublish, StopClose
  <2>2. CASE StopDelete(t)
    <3>1. ~ Quiet(t[1]) /\ ~ Quiet(c)
      BY <1>0, <2>1, <2>2, RunningIsNotQuiet, QuietUnfolded DEF StopDelete
    <3>2. t[1] \in Conns /\ t[1] # c /\ UserOf(t) = ConnUser[t[1]]
          /\ NodeOf(t) \in Nodes /\ UserOf(t) \in Users
      BY <2>1, ConnOfThread
    <3>3. UserOf(t) # ConnUser[c]
      BY <3>1, <3>2, SameConnection
    <3> QED
      BY <1>1, <2>1, <2>2, <3>2, <3>3 DEF StopDelete
  <2>3. CASE ~ StopDelete(t)
    BY <1>1, <1>3, <2>1, <2>3 DEF StopClient, StopMiss, StopClear, StopPublish, StopClose
  <2> QED BY <2>2, <2>3
<1>4. CASE \E n \in Nodes : CleanupClose(n)
  BY <1>1, <1>4 DEF CleanupClose
<1>5. CASE \E n \in Nodes : Exit(n)
  BY <1>1, <1>5 DEF Exit
<1>6. CASE \E u \in Users : Lapse(u) \/ SessionExpire(u)
  BY <1>1, <1>6 DEF Lapse, SessionExpire, connVars
<1>7. CASE \E n \in Nodes, u \in Users, m \in Msgs : SendToUser(n, u, m)
  BY <1>1, <1>7 DEF SendToUser, connVars
<1>8. CASE UNCHANGED vars
  BY <1>1, <1>8 DEF vars, connVars
<1> QED BY <1>2, <1>3, <1>4, <1>5, <1>6, <1>7, <1>8, OneActor

\* A cleanup notes the users in its own map, and each of them is running
\* nothing elsewhere.
LEMMA WipesOwnSessionsStep ==
  ASSUME TypeOK, NoGhostClient, OneActivePerUser, WipesOwnSessions, [Next]_vars
  PROVE  WipesOwnSessions'
<1> SUFFICES ASSUME NEW c \in PatientConns, NEW n \in Nodes,
                    ConnUser[c] \in wiping'[n], ~ Quiet(c)'
             PROVE  ConnNode[c] = n
  BY DEF WipesOwnSessions, PatientConns
<1>0. c \in Conns /\ ConnUser[c] \in Patient
  BY DEF PatientConns
<1>1. CASE SetSession(c)
  BY <1>0, <1>1 DEF SetSession, Undisturbed
<1>2. CASE ~ SetSession(c) /\ ConnUser[c] \in wiping[n]
  BY <1>0, <1>2, QuietStaysQuiet DEF WipesOwnSessions
<1>3. CASE ~ SetSession(c) /\ ConnUser[c] \notin wiping[n]
  <2>1. ~ Quiet(c)
    BY <1>0, <1>3, QuietStaysQuiet
  <2>2. wiping \in [Nodes -> SUBSET Users]
    BY DEF TypeOK
  <2>3. CleanupClose(n)
    <3>1. ASSUME NEW d \in Conns, Connection(d) PROVE FALSE
      BY <1>3, <3>1
         DEF Connection, SetSession, SetSessionFails, PublishOnline, Register, ReadEnd,
             WriteEnd, Write, WriteFails, Renew, redisVars
    <3>2. ASSUME NEW t \in Threads, StopClient(t) PROVE FALSE
      BY <1>3, <3>2
         DEF StopClient, StopMiss, StopDelete, StopClear, StopPublish, StopClose, redisVars
    <3>3. CASE \E o \in Nodes : CleanupClose(o)
      <4>1. PICK o \in Nodes : CleanupClose(o)
        BY <3>3
      <4>2. o = n
        BY <1>3, <2>2, <4>1 DEF CleanupClose
      <4> QED
        BY <4>1, <4>2
    <3>4. CASE \E o \in Nodes : Exit(o)
      <4>1. PICK o \in Nodes : wiping' = [wiping EXCEPT ![o] = {}]
        BY <3>4 DEF Exit
      <4> QED
        BY <1>3, <2>2, <4>1
    <3>5. CASE \E u \in Users : Lapse(u) \/ SessionExpire(u)
      BY <1>3, <3>5 DEF Lapse, SessionExpire
    <3>6. CASE \E o \in Nodes, u \in Users, m \in Msgs : SendToUser(o, u, m)
      BY <1>3, <3>6 DEF SendToUser, redisVars
    <3>7. CASE UNCHANGED vars
      BY <1>3, <3>7 DEF vars, redisVars
    <3> QED BY <3>1, <3>2, <3>3, <3>4, <3>5, <3>6, <3>7, OneActor
  <2>4. clients[n][ConnUser[c]] \in Conns
    BY <1>0, <1>3, <2>2, <2>3, ConnAssumption DEF CleanupClose, TypeOK
  <2>5. PICK d \in Conns : clients[n][ConnUser[c]] = d
    BY <2>4
  <2>6. ConnNode[d] = n /\ ConnUser[d] = ConnUser[c] /\ ~ Quiet(d)
    BY <1>0, <2>5, ConnAssumption, QuietUnfolded DEF NoGhostClient
  <2> QED
    BY <2>1, <2>6, SameConnection
<1> QED BY <1>1, <1>2, <1>3

\* The session is written by SetSession and deleted only for connections that
\* are no longer starting; what else ends it is its time to live.
LEMMA StartingHasSessionStep ==
  ASSUME TypeOK, WriterAfterOnline, OneActivePerUser, WipesOwnSessions,
         StartingHasSession, [Next]_vars
  PROVE  StartingHasSession'
<1> SUFFICES ASSUME NEW c \in PatientConns, Starting(c)'
             PROVE  \/ session'[ConnUser[c]] = ConnNode[c]
                    \/ ConnUser[c] \in lapsing' /\ session'[ConnUser[c]] = None
  BY DEF StartingHasSession, PatientConns
<1>0. c \in Conns /\ ConnUser[c] \in Patient
  BY DEF PatientConns
<1> DEFINE u == ConnUser[c]
           Kept(s, l) == s[u] = ConnNode[c] \/ (u \in l /\ s[u] = None)
<1> SUFFICES Kept(session', lapsing')
  OBVIOUS
<1>1. /\ Starting(c) => Kept(session, lapsing)
      /\ Reader(c) \in Threads /\ Writer(c) \in Threads /\ Reader(c) # Writer(c)
      /\ ConnNode[c] \in Nodes /\ u \in Users
      /\ NodeOf(Reader(c)) = ConnNode[c] /\ NodeOf(Writer(c)) = ConnNode[c]
      /\ pc \in [Threads -> PC]
      /\ session \in [Users -> Nodes \cup {None}]
  BY <1>0, ThreadsOfConn, ConnAssumption DEF StartingHasSession, TypeOK
<1>2. Starting(c) => ~ Quiet(c)
  BY <1>0, QuietUnfolded DEF Starting
<1>3. pc'[Reader(c)] = "online"
        \/ (pc'[Reader(c)] \in {"register", "reading"} /\ pc'[Writer(c)] = "writing")
  BY DEF Starting
<1> HIDE DEF u, Kept
<1>4. ASSUME NEW d \in Conns, Connection(d)
      PROVE  Kept(session', lapsing')
  <2>1. CASE d = c
    <3>1. CASE SetSession(c)
      BY <1>1, <3>1 DEF SetSession, u, Kept
    <3>2. CASE PublishOnline(c)
      BY <1>1, <3>2 DEF PublishOnline, Starting, redisVars, Kept
    <3>3. CASE Register(c)
      BY <1>1, <1>3, <3>3 DEF Register, Starting, redisVars, Kept
    <3>4. CASE Write(c) \/ Renew(c)
      BY <1>1, <1>3, <3>4 DEF Write, Renew, Starting, connVars, redisVars, u, Kept
    <3>5. CASE SetSessionFails(c) \/ ReadEnd(c) \/ WriteEnd(c) \/ WriteFails(c)
      <4>1. CASE ReadEnd(c) BY <1>1, <1>3, <4>1 DEF ReadEnd
      <4>2. CASE SetSessionFails(c) BY <1>1, <1>3, <4>2 DEF SetSessionFails
      <4>3. pc[Reader(c)] = "online" => pc[Writer(c)] = "idle"
        BY <1>0 DEF WriterAfterOnline
      <4>4. CASE WriteEnd(c) BY <1>1, <1>3, <4>3, <4>4 DEF WriteEnd
      <4>5. CASE WriteFails(c) BY <1>1, <1>3, <4>3, <4>5 DEF WriteFails
      <4> QED BY <3>5, <4>1, <4>2, <4>4, <4>5
    <3> QED
      BY <1>4, <2>1, <3>1, <3>2, <3>3, <3>4, <3>5 DEF Connection
  <2>2. CASE d # c
    <3>1. Starting(c)
      BY <1>0, <1>3, <1>4, <2>2, OthersUntouched DEF Starting
    <3>2. Kept(session, lapsing) /\ ~ Quiet(c)
      BY <1>1, <1>2, <3>1
    <3>3. ConnUser[d] = u => Quiet(d)
      BY <2>2, <3>2, SameConnection DEF u
    <3>4. CASE SetSession(d) \/ SetSessionFails(d)
      <4>1. ConnUser[d] # u
        BY <1>0, <2>2, <3>2, <3>4 DEF SetSession, SetSessionFails, Undisturbed, u
      <4> QED
        BY <1>1, <3>2, <3>4, <4>1 DEF SetSession, SetSessionFails, Kept
    <3>5. CASE Renew(d)
      <4>1. ConnUser[d] # u
        BY <3>3, <3>5, QuietUnfolded DEF Renew
      <4> QED
        BY <3>2, <3>5, <4>1 DEF Renew, Kept
    <3>6. CASE ~ (SetSession(d) \/ SetSessionFails(d) \/ Renew(d))
      BY <1>4, <3>2, <3>6
         DEF Connection, PublishOnline, Register, ReadEnd, WriteEnd, Write, WriteFails,
             redisVars, Kept
    <3> QED BY <3>4, <3>5, <3>6
  <2> QED BY <2>1, <2>2
<1>5. ASSUME NEW t \in Threads, StopClient(t)
      PROVE  Kept(session', lapsing')
  <2>1. pc[t] \in {"stop"} \cup Holding /\ pc'[t] \in {"ended"} \cup Holding
    BY <1>1, <1>5
       DEF StopClient, StopMiss, StopDelete, StopClear, StopPublish, StopClose, Holding
  <2>2. t # Reader(c)
    BY <1>3, <2>1 DEF Holding
  <2>3. pc'[Reader(c)] = pc[Reader(c)]
    BY <1>1, <1>5, <2>2
       DEF StopClient, StopMiss, StopDelete, StopClear, StopPublish, StopClose
  <2>4. t # Writer(c)
    <3>1. SUFFICES ASSUME t = Writer(c) PROVE FALSE
      OBVIOUS
    <3>2. pc[Reader(c)] = "online"
      BY <1>3, <2>1, <2>3, <3>1 DEF Holding
    <3> QED
      BY <1>0, <2>1, <3>1, <3>2 DEF WriterAfterOnline, Holding
  <2>5. pc'[Writer(c)] = pc[Writer(c)]
    BY <1>1, <1>5, <2>4
       DEF StopClient, StopMiss, StopDelete, StopClear, StopPublish, StopClose
  <2>6. Kept(session, lapsing) /\ ~ Quiet(c)
    BY <1>1, <1>2, <1>3, <2>3, <2>5 DEF Starting
  <2>7. t[1] \in Conns /\ t[1] # c /\ UserOf(t) = ConnUser[t[1]] /\ ~ Quiet(t[1])
    BY <2>1, <2>2, <2>4, ConnOfThread, RunningIsNotQuiet DEF Holding
  <2>8. UserOf(t) # u
    BY <2>6, <2>7, SameConnection DEF u
  <2> QED
    BY <1>1, <1>5, <2>6, <2>8
       DEF StopClient, StopMiss, StopDelete, StopClear, StopPublish, StopClose, redisVars, Kept
<1>6. CASE \E n \in Nodes : CleanupClose(n)
  BY <1>1, <1>3, <1>6 DEF CleanupClose, Starting, Kept
<1>7. ASSUME NEW n \in Nodes, Exit(n), CleanupClear(n) \/ UNCHANGED <<session, lapsing>>
      PROVE  Kept(session', lapsing')
  <2>1. ConnNode[c] # n /\ Starting(c)
    BY <1>1, <1>3, <1>7 DEF Exit, Starting
  <2>2. u \notin wiping[n]
    BY <1>2, <2>1 DEF WipesOwnSessions, u
  <2> QED
    BY <1>1, <1>7, <2>1, <2>2 DEF Exit, CleanupClear, Kept
<1>8. CASE \E v \in Users : Lapse(v) \/ SessionExpire(v)
  <2>1. PICK v \in Users : Lapse(v) \/ SessionExpire(v)
    BY <1>8
  <2>2. Starting(c)
    BY <1>3, <2>1 DEF Lapse, SessionExpire, Starting, connVars
  <2>3. CASE Lapse(v)
    BY <1>1, <2>2, <2>3 DEF Lapse, Kept
  <2>4. CASE SessionExpire(v)
    BY <1>1, <2>2, <2>4 DEF SessionExpire, Kept
  <2> QED BY <2>1, <2>3, <2>4
<1>9. CASE \E n \in Nodes, v \in Users, m \in Msgs : SendToUser(n, v, m)
  BY <1>1, <1>3, <1>9 DEF SendToUser, Starting, connVars, redisVars, Kept
<1>10. CASE UNCHANGED vars
  BY <1>1, <1>3, <1>10 DEF vars, Starting, connVars, redisVars, Kept
<1> QED BY <1>4, <1>5, <1>6, <1>7, <1>8, <1>9, <1>10, OneActor

\* A connection deletes its own entry only, so it had not announced itself
\* offline before, and the mutex keeps its other pump out.
LEMMA OfflineIsPendingStep ==
  ASSUME TypeOK, NoGhostClient, HoldersOwnMutex, OneActivePerUser, OfflineIsPending,
         OfflineIsFinal, [Next]_vars
  PROVE  OfflineIsPending'
<1> SUFFICES ASSUME NEW s \in Threads, s[1] \in PatientConns, pc'[s] \in {"clear", "offline"}
             PROVE  /\ offline'[s[1]] = 0
                    /\ pc'[Reader(s[1])] \notin {"idle", "online", "register"}
                    /\ clients'[NodeOf(s)][UserOf(s)] # s[1]
  BY DEF OfflineIsPending, NodeOf, UserOf, PatientConns
<1>1. PICK c \in Conns : c = s[1] /\ c \in PatientConns
  BY ConnOfThread
<1> DEFINE n == ConnNode[c]
           u == ConnUser[c]
           Pending(o, p, m) == /\ o[c] = 0
                               /\ p[Reader(c)] \notin {"idle", "online", "register"}
                               /\ m[n][u] # c
<1> SUFFICES Pending(offline', pc', clients')
  BY <1>1, ConnOfThread
<1>2. /\ pc[s] \in {"clear", "offline"} => Pending(offline, pc, clients)
      /\ s = Reader(c) \/ s = Writer(c)
      /\ NodeOf(s) = n /\ UserOf(s) = u /\ n \in Nodes /\ u \in Users
      /\ Reader(c) \in Threads /\ Writer(c) \in Threads /\ Reader(c) # Writer(c)
      /\ NodeOf(Reader(c)) = n
      /\ pc \in [Threads -> PC] /\ offline \in [Conns -> Nat]
      /\ clients \in [Nodes -> [Users -> Conns \cup {None}]] /\ c # None
  BY <1>1, ConnOfThread, ThreadsOfConn, NoneAssumption DEF OfflineIsPending, TypeOK
<1> HIDE DEF n, u
<1>3. ASSUME NEW d \in Conns, Connection(d)
      PROVE  Pending(offline', pc', clients')
  <2>1. CASE d = c
    <3>1. pc[s] \in {"clear", "offline"}
      BY <1>2, <1>3, <2>1
         DEF Connection, SetSession, SetSessionFails, PublishOnline, Register, ReadEnd,
             WriteEnd, Write, WriteFails, Renew, connVars
    <3> QED
      BY <1>2, <1>3, <2>1, <3>1
         DEF Connection, SetSession, SetSessionFails, PublishOnline, Register, ReadEnd,
             WriteEnd, Write, WriteFails, Renew, connVars, eventVars
  <2>2. CASE d # c
    <3>1. pc'[s] = pc[s] /\ pc'[Reader(c)] = pc[Reader(c)]
      BY <1>2, <1>3, <2>2, OthersUntouched
    <3>2. ConnNode[d] \in Nodes /\ ConnUser[d] \in Users
      BY ConnAssumption
    <3>3. offline' = offline
      BY <1>3
         DEF Connection, SetSession, SetSessionFails, PublishOnline, Register, ReadEnd,
             WriteEnd, Write, WriteFails, Renew, eventVars
    <3>4. clients'[n][u] # c
      BY <1>2, <1>3, <2>2, <3>1, <3>2
         DEF Connection, SetSession, SetSessionFails, PublishOnline, Register, ReadEnd,
             WriteEnd, Write, WriteFails, Renew
    <3> QED BY <1>2, <3>1, <3>3, <3>4
  <2> QED BY <2>1, <2>2
<1>4. ASSUME NEW t \in Threads, StopClient(t)
      PROVE  Pending(offline', pc', clients')
  <2>1. /\ t[1] \in Conns /\ NodeOf(t) = ConnNode[t[1]] /\ UserOf(t) = ConnUser[t[1]]
        /\ NodeOf(t) \in Nodes /\ UserOf(t) \in Users
    BY ConnOfThread
  <2>2. CASE t = s
    <3>1. CASE StopDelete(s)
      <4>1. PICK e \in Conns : clients[n][u] = e
        BY <1>2, <3>1 DEF StopDelete
      <4>2. ConnNode[e] = n /\ ConnUser[e] = u /\ pc[Reader(e)] \in {"reading", "stop"}
        BY <1>2, <4>1 DEF NoGhostClient
      <4>3. ~ Quiet(e) /\ ~ Quiet(c)
        BY <1>1, <3>1, <4>2, QuietUnfolded, RunningIsNotQuiet DEF StopDelete
      <4>4. e = c
        BY <1>1, <4>2, <4>3, SameConnection DEF u
      <4>5. offline[c] = 0
        BY <1>1, <4>1, <4>4 DEF OfflineIsFinal, PatientConns, n, u
      <4> QED
        BY <1>2, <3>1, <4>2, <4>4, <4>5 DEF StopDelete, eventVars
    <3>2. CASE StopClear(s)
      BY <1>2, <3>2 DEF StopClear, eventVars
    <3>3. ~ StopMiss(s) /\ ~ StopPublish(s) /\ ~ StopClose(s)
      BY <1>2 DEF StopMiss, StopPublish, StopClose
    <3> QED BY <1>4, <2>2, <3>1, <3>2, <3>3 DEF StopClient
  <2>3. CASE t # s
    <3>1. pc'[s] = pc[s]
      BY <1>2, <1>4, <2>3
         DEF StopClient, StopMiss, StopDelete, StopClear, StopPublish, StopClose
    <3>2. pc'[Reader(c)] \notin {"idle", "online", "register"}
      BY <1>2, <1>4, <3>1
         DEF StopClient, StopMiss, StopDelete, StopClear, StopPublish, StopClose
    <3>3. clients'[n][u] # c
      BY <1>2, <1>4, <2>1, <3>1
         DEF StopClient, StopMiss, StopDelete, StopClear, StopPublish, StopClose
    <3>4. StopPublish(t) => t[1] # c
      <4>1. SUFFICES ASSUME StopPublish(t), t[1] = c PROVE FALSE
        OBVIOUS
      <4>2. mu[n] = s /\ mu[NodeOf(t)] = t
        BY <1>2, <3>1, <4>1 DEF HoldersOwnMutex, StopPublish, Holding
      <4> QED BY <2>1, <2>3, <4>1, <4>2 DEF n
    <3>5. offline'[c] = 0
      BY <1>2, <1>4, <2>1, <3>1, <3>4
         DEF StopClient, StopMiss, StopDelete, StopClear, StopPublish, StopClose, eventVars
    <3> QED BY <3>2, <3>3, <3>5
  <2> QED BY <2>2, <2>3
<1>5. CASE \E o \in Nodes : CleanupClose(o)
  BY <1>2, <1>5 DEF CleanupClose, eventVars
<1>6. CASE \E o \in Nodes : Exit(o)
  BY <1>2, <1>6 DEF Exit, eventVars
<1>7. CASE \E v \in Users : Lapse(v) \/ SessionExpire(v)
  BY <1>2, <1>7 DEF Lapse, SessionExpire, connVars, eventVars
<1>8. CASE \E o \in Nodes, v \in Users, m \in Msgs : SendToUser(o, v, m)
  BY <1>2, <1>8 DEF SendToUser, connVars, eventVars
<1>9. CASE UNCHANGED vars
  BY <1>2, <1>9 DEF vars, connVars, eventVars
<1> QED BY <1>3, <1>4, <1>5, <1>6, <1>7, <1>8, <1>9, OneActor

LEMMA OfflineIsFinalStep ==
  ASSUME TypeOK, OfflineIsPending, OfflineIsFinal, [Next]_vars
  PROVE  OfflineIsFinal'
<1> SUFFICES ASSUME NEW c \in Conns, ConnUser[c] \in Patient, offline'[c] # 0
             PROVE  /\ offline'[c] = 1
                    /\ pc'[Reader(c)] \notin {"idle", "online", "register"}
                    /\ clients'[ConnNode[c]][ConnUser[c]] # c
  BY DEF OfflineIsFinal
<1> DEFINE n == ConnNode[c]
           u == ConnUser[c]
           Final(o, p, m) == /\ o[c] = 1
                             /\ p[Reader(c)] \notin {"idle", "online", "register"}
                             /\ m[n][u] # c
<1> SUFFICES Final(offline', pc', clients')
  OBVIOUS
<1>1. /\ offline[c] # 0 => Final(offline, pc, clients)
      /\ n \in Nodes /\ u \in Users
      /\ Reader(c) \in Threads /\ Writer(c) \in Threads /\ Reader(c) # Writer(c)
      /\ NodeOf(Reader(c)) = n
      /\ pc \in [Threads -> PC] /\ offline \in [Conns -> Nat]
      /\ clients \in [Nodes -> [Users -> Conns \cup {None}]] /\ c # None
  BY ThreadsOfConn, ConnAssumption, NoneAssumption DEF OfflineIsFinal, TypeOK
<1> HIDE DEF n, u
<1>2. ASSUME NEW d \in Conns, Connection(d)
      PROVE  Final(offline', pc', clients')
  <2>1. offline' = offline
    BY <1>2
       DEF Connection, SetSession, SetSessionFails, PublishOnline, Register, ReadEnd,
           WriteEnd, Write, WriteFails, Renew, eventVars
  <2>2. CASE d = c
    BY <1>1, <1>2, <2>1, <2>2
       DEF Connection, SetSession, SetSessionFails, PublishOnline, Register, ReadEnd,
           WriteEnd, Write, WriteFails, Renew, connVars
  <2>3. CASE d # c
    <3>1. pc'[Reader(c)] = pc[Reader(c)]
      BY <1>2, <2>3, OthersUntouched
    <3>2. ConnNode[d] \in Nodes /\ ConnUser[d] \in Users
      BY ConnAssumption
    <3>3. Final(offline, pc, clients)
      BY <1>1, <2>1
    <3>4. clients'[n][u] # c
      BY <1>1, <1>2, <2>3, <3>2, <3>3
         DEF Connection, SetSession, SetSessionFails, PublishOnline, Register, ReadEnd,
             WriteEnd, Write, WriteFails, Renew
    <3> QED BY <2>1, <3>1, <3>3, <3>4
  <2> QED BY <2>2, <2>3
<1>3. ASSUME NEW t \in Threads, StopClient(t)
      PROVE  Final(offline', pc', clients')
  <2>1. /\ t[1] \in Conns /\ NodeOf(t) = ConnNode[t[1]] /\ UserOf(t) = ConnUser[t[1]]
        /\ NodeOf(t) \in Nodes /\ UserOf(t) \in Users
    BY ConnOfThread
  <2>2. CASE StopPublish(t) /\ t[1] = c
    <3>1. offline[c] = 0 /\ pc[Reader(c)] \notin {"idle", "online", "register"}
          /\ clients[n][u] # c
      BY <2>1, <2>2 DEF OfflineIsPending, StopPublish, PatientConns, n, u
    <3> QED
      BY <1>1, <2>2, <3>1 DEF StopPublish
  <2>3. CASE ~ (StopPublish(t) /\ t[1] = c)
    <3>1. offline'[c] = offline[c]
      <4>1. CASE StopPublish(t) BY <1>1, <2>1, <2>3, <4>1 DEF StopPublish
      <4>2. CASE ~ StopPublish(t)
        BY <1>3, <4>2
           DEF StopClient, StopMiss, StopDelete, StopClear, StopClose, eventVars
      <4> QED BY <4>1, <4>2
    <3> QED
      BY <1>1, <1>3, <2>1, <3>1
         DEF StopClient, StopMiss, StopDelete, StopClear, StopPublish, StopClose
  <2> QED BY <2>2, <2>3
<1>4. CASE \E o \in Nodes : CleanupClose(o)
  BY <1>1, <1>4 DEF CleanupClose, eventVars
<1>5. CASE \E o \in Nodes : Exit(o)
  BY <1>1, <1>5 DEF Exit, eventVars
<1>6. CASE \E v \in Users : Lapse(v) \/ SessionExpire(v)
  BY <1>1, <1>6 DEF Lapse, SessionExpire, connVars, eventVars
<1>7. CASE \E o \in Nodes, v \in Users, m \in Msgs : SendToUser(o, v, m)
  BY <1>1, <1>7 DEF SendToUser, connVars, eventVars
<1>8. CASE UNCHANGED vars
  BY <1>1, <1>8 DEF vars, connVars, eventVars
<1> QED BY <1>2, <1>3, <1>4, <1>5, <1>6, <1>7, <1>8, OneActor

LEMMA InitPatientInv == Init => PatientInv
<1> SUFFICES ASSUME Init PROVE PatientInv
  OBVIOUS
<1>1. \A t \in Threads : pc[t] = "idle"
  BY DEF Init
<1>2. \A c \in Conns : pc[Reader(c)] = "idle" /\ pc[Writer(c)] = "idle" /\ Quiet(c)
  BY <1>1, ThreadsOfConn, QuietUnfolded
<1>3. HoldersOwnMutex /\ OfflineIsPending
  BY <1>1 DEF HoldersOwnMutex, OfflineIsPending, Holding
<1>4. WriterAfterOnline /\ OneActivePerUser /\ ConnectedIsRegistered /\ StartingHasSession
  BY <1>2 DEF WriterAfterOnline, OneActivePerUser, ConnectedIsRegistered, Connected,
              StartingHasSession, Starting, PatientConns
<1>5. WipesOwnSessions /\ OfflineIsFinal
  BY DEF Init, WipesOwnSessions, OfflineIsFinal
<1> QED BY <1>3, <1>4, <1>5 DEF PatientInv

LEMMA PatientInvariant == Spec => []PatientInv
<1>1. TypeOK /\ NoGhostClient /\ PatientInv /\ [Next]_vars => PatientInv'
  BY HoldersOwnMutexStep, WriterAfterOnlineStep, OneActivePerUserStep,
     ConnectedIsRegisteredStep, StartingHasSessionStep, WipesOwnSessionsStep,
     OfflineIsPendingStep, OfflineIsFinalStep DEF PatientInv
<1> QED
  BY <1>1, InitPatientInv, TypeCorrect, NoGhost, PTL DEF Spec

\* A connection of a patient user whose pumps run is in its node's map, and the
\* session names that node unless its key ran out before the write pump renewed
\* it, however the connections of other users overlap (StartClient, StopClient,
\* the session's renewal and expiry, cleanup).
THEOREM PatientReachability == Spec => []ConnectedIsReachable
<1>1. PatientInv => ConnectedIsReachable
  BY DEF PatientInv, ConnectedIsReachable, Reachable, ConnectedIsRegistered,
         StartingHasSession, Starting, Connected, PatientConns
<1> QED
  BY <1>1, PatientInvariant, PTL

\* The Offline event of a patient user's connection is published once, and only
\* when the connection has left the map for good (StopClient).
THEOREM PatientOffline == Spec => []OfflineIsFinal
<1>1. PatientInv => OfflineIsFinal
  BY DEF PatientInv
<1> QED
  BY <1>1, PatientInvariant, PTL

-----------------------------------------------------------------------------
(* Mutex, contexts and cleanup, whatever overlaps                          *)

\* The mutex of a node is held by a goroutine of that node which is inside
\* StopClient's critical section: nothing leaves it locked behind.
MutexIsHeld ==
  \A n \in Nodes : mu[n] # None => NodeOf(mu[n]) = n /\ pc[mu[n]] \in Holding

\* A connection whose read side has returned has its contexts done.
ReturnedIsCancelled == \A c \in Conns : pc[Reader(c)] = "ended" => c \in cancelled

\* The key of a connection that has just written it is not about to run out.
FreshIsNotLapsing ==
  \A c \in Conns : pc[Reader(c)] = "online" => ConnUser[c] \notin lapsing

\* Only a shutdown starts a cleanup.
ClosingIsShutdown == \A n \in Nodes : mode[n] = "closing" => "shutdown" \in Faults

OverlapInv ==
  /\ HoldersOwnMutex
  /\ MutexIsHeld
  /\ WriterAfterOnline
  /\ ReturnedIsCancelled
  /\ FreshIsNotLapsing
  /\ ClosingIsShutdown

LEMMA MutexIsHeldStep ==
  ASSUME TypeOK, HoldersOwnMutex, MutexIsHeld, WriterAfterOnline, [Next]_vars
  PROVE  MutexIsHeld'
<1> SUFFICES ASSUME NEW n \in Nodes, mu'[n] # None
             PROVE  NodeOf(mu'[n]) = n /\ pc'[mu'[n]] \in Holding
  BY DEF MutexIsHeld, NodeOf
<1>1. /\ mu[n] # None => mu[n] \in Threads /\ NodeOf(mu[n]) = n /\ pc[mu[n]] \in Holding
      /\ pc \in [Threads -> PC] /\ mu \in [Nodes -> Threads \cup {None}]
  BY DEF MutexIsHeld, TypeOK
<1>2. ASSUME NEW d \in Conns, Connection(d)
      PROVE  NodeOf(mu'[n]) = n /\ pc'[mu'[n]] \in Holding
  <2>1. /\ Reader(d) \in Threads /\ Writer(d) \in Threads
        /\ pc[Reader(d)] \in {"idle", "online"} => pc[Writer(d)] = "idle"
    BY ThreadsOfConn DEF WriterAfterOnline
  <2>2. mu' = mu
    BY <1>2
       DEF Connection, SetSession, SetSessionFails, PublishOnline, Register, ReadEnd,
           WriteEnd, Write, WriteFails, Renew
  <2>3. \A s \in Threads : pc[s] \in Holding => pc'[s] = pc[s]
    BY <1>1, <1>2, <2>1
       DEF Connection, SetSession, SetSessionFails, PublishOnline, Register, ReadEnd,
           WriteEnd, Write, WriteFails, Renew, connVars, Holding
  <2> QED BY <1>1, <2>2, <2>3
<1>3. ASSUME NEW t \in Threads, StopClient(t)
      PROVE  NodeOf(mu'[n]) = n /\ pc'[mu'[n]] \in Holding
  <2>1. /\ NodeOf(t) \in Nodes /\ t # None
        /\ pc[t] \in Holding => mu[NodeOf(t)] = t
    BY ConnOfThread, NoneAssumption DEF HoldersOwnMutex
  <2>2. CASE StopMiss(t)
    BY <1>1, <2>1, <2>2 DEF StopMiss, Holding
  <2>3. CASE StopDelete(t)
    BY <1>1, <2>1, <2>3 DEF StopDelete, Holding
  <2>4. CASE StopClear(t) \/ StopPublish(t)
    BY <1>1, <2>1, <2>4 DEF StopClear, StopPublish, Holding
  <2>5. CASE StopClose(t)
    BY <1>1, <2>1, <2>5 DEF StopClose, Holding
  <2> QED BY <1>3, <2>2, <2>3, <2>4, <2>5 DEF StopClient
<1>4. CASE \E o \in Nodes : CleanupClose(o)
  BY <1>1, <1>4 DEF CleanupClose
<1>5. ASSUME NEW o \in Nodes, Exit(o)
      PROVE  NodeOf(mu'[n]) = n /\ pc'[mu'[n]] \in Holding
  <2>1. n # o /\ mu'[n] = mu[n]
    BY <1>1, <1>5 DEF Exit
  <2> QED BY <1>1, <1>5, <2>1 DEF Exit
<1>6. CASE \E u \in Users : Lapse(u) \/ SessionExpire(u)
  BY <1>1, <1>6 DEF Lapse, SessionExpire, connVars
<1>7. CASE \E o \in Nodes, u \in Users, m \in Msgs : SendToUser(o, u, m)
  BY <1>1, <1>7 DEF SendToUser, connVars
<1>8. CASE UNCHANGED vars
  BY <1>1, <1>8 DEF vars, connVars
<1> QED BY <1>2, <1>3, <1>4, <1>5, <1>6, <1>7, <1>8, OneActor

LEMMA ReturnedIsCancelledStep ==
  ASSUME TypeOK, ReturnedIsCancelled, [Next]_vars
  PROVE  ReturnedIsCancelled'
<1> SUFFICES ASSUME NEW c \in Conns, pc'[Reader(c)] = "ended"
             PROVE  c \in cancelled'
  BY DEF ReturnedIsCancelled
<1>1. /\ pc[Reader(c)] = "ended" => c \in cancelled
      /\ Reader(c) \in Threads /\ NodeOf(Reader(c)) = ConnNode[c]
      /\ Reader(c)[1] = c /\ Reader(c)[2] = "read"
      /\ pc \in [Threads -> PC]
  BY ThreadsOfConn DEF ReturnedIsCancelled, TypeOK
<1>2. ASSUME NEW d \in Conns, Connection(d) PROVE c \in cancelled'
  <2>1. CASE c = d
    BY <1>1, <1>2, <2>1, ThreadsOfConn
       DEF Connection, SetSession, SetSessionFails, PublishOnline, Register, ReadEnd,
           WriteEnd, Write, WriteFails, Renew, connVars
  <2>2. CASE c # d
    <3>1. pc'[Reader(c)] = pc[Reader(c)]
      BY <1>2, <2>2, OthersUntouched
    <3>2. cancelled \subseteq cancelled'
      BY <1>2
         DEF Connection, SetSession, SetSessionFails, PublishOnline, Register, ReadEnd,
             WriteEnd, Write, WriteFails, Renew, connVars
    <3> QED BY <1>1, <3>1, <3>2
  <2> QED BY <2>1, <2>2
<1>3. ASSUME NEW t \in Threads, StopClient(t) PROVE c \in cancelled'
  <2>1. CASE t = Reader(c)
    BY <1>1, <1>3, <2>1
       DEF StopClient, StopMiss, StopDelete, StopClear, StopPublish, StopClose,
           CancelledOnReturn
  <2>2. CASE t # Reader(c)
    BY <1>1, <1>3, <2>2
       DEF StopClient, StopMiss, StopDelete, StopClear, StopPublish, StopClose,
           CancelledOnReturn
  <2> QED BY <2>1, <2>2
<1>4. CASE \E n \in Nodes : CleanupClose(n)
  BY <1>1, <1>4 DEF CleanupClose
<1>5. CASE \E n \in Nodes : Exit(n)
  BY <1>1, <1>5 DEF Exit
<1>6. CASE \E u \in Users : Lapse(u) \/ SessionExpire(u)
  BY <1>1, <1>6 DEF Lapse, SessionExpire, connVars
<1>7. CASE \E n \in Nodes, u \in Users, m \in Msgs : SendToUser(n, u, m)
  BY <1>1, <1>7 DEF SendToUser, connVars
<1>8. CASE UNCHANGED vars
  BY <1>1, <1>8 DEF vars, connVars
<1> QED BY <1>2, <1>3, <1>4, <1>5, <1>6, <1>7, <1>8, OneActor

\* SetSession makes the key new, and Lapse spares a user who has such a key.
LEMMA FreshIsNotLapsingStep ==
  ASSUME TypeOK, FreshIsNotLapsing, [Next]_vars
  PROVE  FreshIsNotLapsing'
<1> SUFFICES ASSUME NEW c \in Conns, pc'[Reader(c)] = "online"
             PROVE  ConnUser[c] \notin lapsing'
  BY DEF FreshIsNotLapsing
<1>1. /\ pc[Reader(c)] = "online" => ConnUser[c] \notin lapsing
      /\ Reader(c) \in Threads /\ pc \in [Threads -> PC]
  BY ThreadsOfConn DEF FreshIsNotLapsing, TypeOK
<1>2. CASE SetSession(c)
  BY <1>2 DEF SetSession
<1>3. ASSUME ~ SetSession(c) PROVE pc[Reader(c)] = "online"
  <2>1. ASSUME NEW d \in Conns, Connection(d) PROVE pc[Reader(c)] = "online"
    <3>1. CASE d = c
      BY <1>1, <1>3, <2>1, <3>1, ThreadsOfConn
         DEF Connection, SetSessionFails, PublishOnline, Register, ReadEnd, WriteEnd, Write,
             WriteFails, Renew, connVars
    <3>2. CASE d # c
      BY <2>1, <3>2, OthersUntouched
    <3> QED BY <3>1, <3>2
  <2>2. ASSUME NEW t \in Threads, StopClient(t) PROVE pc[Reader(c)] = "online"
    BY <1>1, <2>2 DEF StopClient, StopMiss, StopDelete, StopClear, StopPublish, StopClose
  <2>3. CASE \E n \in Nodes : CleanupClose(n) \/ Exit(n)
    BY <1>1, <2>3 DEF CleanupClose, Exit
  <2>4. CASE \E u \in Users : Lapse(u) \/ SessionExpire(u)
    BY <2>4 DEF Lapse, SessionExpire, connVars
  <2>5. CASE \E n \in Nodes, u \in Users, m \in Msgs : SendToUser(n, u, m)
    BY <2>5 DEF SendToUser, connVars
  <2>6. CASE UNCHANGED vars
    BY <2>6 DEF vars, connVars
  <2> QED BY <2>1, <2>2, <2>3, <2>4, <2>5, <2>6, OneActor
<1>4. ASSUME ~ SetSession(c) PROVE ConnUser[c] \notin lapsing'
  <2>1. lapsing' \subseteq lapsing \/ \E u \in Users : Lapse(u)
    <3>1. ASSUME NEW d \in Conns, Connection(d) PROVE lapsing' \subseteq lapsing
      BY <3>1
         DEF Connection, SetSession, SetSessionFails, PublishOnline, Register, ReadEnd,
             WriteEnd, Write, WriteFails, Renew, redisVars
    <3>2. ASSUME NEW t \in Threads, StopClient(t) PROVE lapsing' \subseteq lapsing
      BY <3>2
         DEF StopClient, StopMiss, StopDelete, StopClear, StopPublish, StopClose, redisVars
    <3>3. CASE \E n \in Nodes : CleanupClose(n)
      BY <3>3 DEF CleanupClose
    <3>4. CASE \E n \in Nodes : Exit(n) /\ (CleanupClear(n) \/ UNCHANGED <<session, lapsing>>)
      BY <3>4 DEF CleanupClear
    <3>5. CASE \E u \in Users : SessionExpire(u)
      BY <3>5 DEF SessionExpire
    <3>6. CASE \E n \in Nodes, u \in Users, m \in Msgs : SendToUser(n, u, m)
      BY <3>6 DEF SendToUser, redisVars
    <3>7. CASE UNCHANGED vars
      BY <3>7 DEF vars, redisVars
    <3> QED BY <3>1, <3>2, <3>3, <3>4, <3>5, <3>6, <3>7, OneActor
  <2>2. ASSUME NEW u \in Users, Lapse(u) PROVE ConnUser[c] \notin lapsing'
    BY <1>1, <1>3, <1>4, <2>2 DEF Lapse, Fresh
  <2> QED BY <1>1, <1>3, <1>4, <2>1, <2>2
<1> QED BY <1>2, <1>4

LEMMA ClosingIsShutdownStep ==
  ASSUME TypeOK, ClosingIsShutdown, [Next]_vars
  PROVE  ClosingIsShutdown'
<1> USE DEF ClosingIsShutdown, TypeOK
<1>1. ASSUME NEW d \in Conns, Connection(d) PROVE ClosingIsShutdown'
  BY <1>1
     DEF Connection, SetSession, SetSessionFails, PublishOnline, Register, ReadEnd, WriteEnd,
         Write, WriteFails, Renew
<1>2. ASSUME NEW t \in Threads, StopClient(t) PROVE ClosingIsShutdown'
  BY <1>2 DEF StopClient, StopMiss, StopDelete, StopClear, StopPublish, StopClose
<1>3. CASE \E n \in Nodes : CleanupClose(n) BY <1>3 DEF CleanupClose
<1>4. CASE \E n \in Nodes : Exit(n) BY <1>4 DEF Exit
<1>5. CASE \E u \in Users : Lapse(u) \/ SessionExpire(u) BY <1>5 DEF Lapse, SessionExpire
<1>6. CASE \E n \in Nodes, u \in Users, m \in Msgs : SendToUser(n, u, m)
  BY <1>6 DEF SendToUser
<1>7. CASE UNCHANGED vars BY <1>7 DEF vars
<1> QED BY <1>1, <1>2, <1>3, <1>4, <1>5, <1>6, <1>7, OneActor

\* OverlapInv holds of every state, whether or not connections overlap.
LEMMA OverlapInvariant == Spec => []OverlapInv
<1>1. Init => OverlapInv
  <2> SUFFICES ASSUME Init PROVE OverlapInv
    OBVIOUS
  <2>1. \A c \in Conns : pc[Reader(c)] = "idle" /\ pc[Writer(c)] = "idle"
    BY ThreadsOfConn DEF Init
  <2> QED
    BY <2>1
       DEF Init, OverlapInv, HoldersOwnMutex, MutexIsHeld, WriterAfterOnline,
           ReturnedIsCancelled, FreshIsNotLapsing, ClosingIsShutdown, Holding
<1>2. TypeOK /\ OverlapInv /\ [Next]_vars => OverlapInv'
  BY HoldersOwnMutexStep, MutexIsHeldStep, WriterAfterOnlineStep,
     ReturnedIsCancelledStep, FreshIsNotLapsingStep, ClosingIsShutdownStep DEF OverlapInv
<1> QED BY <1>1, <1>2, TypeCorrect, PTL DEF Spec

\* A mutex that is held is held by a goroutine that will release it, and a pump
\* left alone is due to end, however connections overlap, pumps fail and nodes
\* stop: what the pumps' termination rests on (StopClient and its early return,
\* ServeHTTP's cancellation).
THEOREM Unstuck == Spec => []NobodyIsStuck
<1>1. OverlapInv => NobodyIsStuck
  BY DEF OverlapInv, MutexIsHeld, ReturnedIsCancelled, NobodyIsStuck, WriteDue
<1> QED
  BY <1>1, OverlapInvariant, PTL
=============================================================================

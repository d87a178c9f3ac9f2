----------------------- MODULE ConnRefinement_proofs ------------------------
(***************************************************************************)
(* ConnManager implements AccessView: every step of a goroutine, a node or *)
(* Redis is a step of AccessView or leaves what push can see of it alone,  *)
(* however connections of a user overlap.  Of patient users AccessView     *)
(* promises more, and their invariants show that.                          *)
(***************************************************************************)
EXTENDS ConnManager_proofs

-----------------------------------------------------------------------------
(* What the refinement needs beyond PatientInv for patient users          *)

\* While a connection of theirs runs, and while a cleanup is about to delete
\* their session, that session names the right node or is gone.
SessionsAreOwn ==
  /\ \A c \in PatientConns : ~ Quiet(c) => session[ConnUser[c]] \in {ConnNode[c], None}
  /\ \A n \in Nodes : \A u \in wiping[n] \cap Patient : session[u] \in {n, None}

\* The contexts of a connection that can still start are not done, and its
\* write pump is not inside StopClient's critical section.
StartsUncancelled ==
  \A c \in PatientConns :
    \/ pc[Reader(c)] \in {"online", "register"}
    \/ pc[Reader(c)] = "idle" /\ mode[ConnNode[c]] = "up"
    => c \notin cancelled /\ pc[Writer(c)] \notin Holding

\* Nor are those of a connection in the map ...
MappedUncancelled ==
  \A n \in Nodes, u \in Patient : clients[n][u] \notin cancelled

\* ... or of one that is being stopped, which is no longer in the map.
HoldersUncancelled ==
  \A t \in Threads : t[1] \in PatientConns /\ pc[t] \in Holding =>
    /\ t[1] \notin cancelled
    /\ clients[NodeOf(t)][UserOf(t)] # t[1]

RefinementInv ==
  /\ SessionsAreOwn
  /\ StartsUncancelled
  /\ MappedUncancelled
  /\ HoldersUncancelled

LEMMA SessionsAreOwnStep ==
  ASSUME TypeOK, NoGhostClient, PatientInv, SessionsAreOwn, [Next]_vars
  PROVE  SessionsAreOwn'
<1>1. /\ session \in [Users -> Nodes \cup {None}]
      /\ wiping \in [Nodes -> SUBSET Users]
      /\ clients \in [Nodes -> [Users -> Conns \cup {None}]]
      /\ \A c \in Conns : ConnUser[c] \in Users /\ ConnNode[c] \in Nodes
      /\ \A c \in PatientConns : c \in Conns /\ ConnUser[c] \in Patient
  BY ConnAssumption DEF TypeOK, PatientConns
<1>2. ASSUME NEW d \in Conns, SetSession(d) \/ SetSessionFails(d) PROVE SessionsAreOwn'
  <2>1. /\ session' = session \/ session' = [session EXCEPT ![ConnUser[d]] = ConnNode[d]]
        /\ wiping' = wiping /\ (ConnUser[d] \in Patient => Undisturbed(d))
    BY <1>2 DEF SetSession, SetSessionFails
  <2>2. ASSUME NEW c \in PatientConns, ~ Quiet(c)'
        PROVE  session'[ConnUser[c]] \in {ConnNode[c], None}
    <3>1. CASE c = d
      <4>1. SetSession(d)
        <5>1. SUFFICES ASSUME SetSessionFails(d) PROVE FALSE
          BY <1>2
        <5>2. pc[Writer(d)] = "idle" /\ Reader(d) # Writer(d)
          BY <5>1, ThreadsOfConn DEF SetSessionFails, PatientInv, WriterAfterOnline
        <5>3. pc'[Reader(d)] \in {"idle", "ended"} /\ pc'[Writer(d)] = pc[Writer(d)]
          BY <5>1, <5>2, ThreadsOfConn DEF SetSessionFails, TypeOK
        <5> QED BY <2>2, <3>1, <5>2, <5>3, QuietUnfolded
      <4> QED BY <1>1, <3>1, <4>1 DEF SetSession
    <3>2. CASE c # d
      <4>1. ~ Quiet(c)
        BY <1>1, <1>2, <2>2, <3>2, OthersUntouched, QuietUnfolded DEF Connection
      <4>2. ConnUser[c] # ConnUser[d]
        BY <1>1, <2>1, <3>2, <4>1 DEF Undisturbed
      <4> QED BY <1>1, <2>1, <4>1, <4>2 DEF SessionsAreOwn
    <3> QED BY <3>1, <3>2
  <2>3. ASSUME NEW n \in Nodes, NEW u \in wiping'[n] \cap Patient
        PROVE  session'[u] \in {n, None}
    <3>1. u \in Users /\ u # ConnUser[d]
      BY <1>1, <2>1, <2>3 DEF Undisturbed
    <3> QED BY <1>1, <2>1, <2>3, <3>1 DEF SessionsAreOwn
  <2> QED BY <2>2, <2>3 DEF SessionsAreOwn
<1>3. ASSUME \A c \in Conns : ~ SetSession(c),
             \A u \in Users : session'[u] \in {session[u], None},
             wiping' = wiping
      PROVE  SessionsAreOwn'
  <2>1. \A c \in Conns : ~ Quiet(c)' => ~ Quiet(c)
    BY <1>3, QuietStaysQuiet
  <2>2. ASSUME NEW c \in PatientConns, ~ Quiet(c)'
        PROVE  session'[ConnUser[c]] \in {ConnNode[c], None}
    BY <1>1, <1>3, <2>1, <2>2 DEF SessionsAreOwn
  <2>3. ASSUME NEW n \in Nodes, NEW u \in wiping'[n] \cap Patient
        PROVE  session'[u] \in {n, None}
    BY <1>1, <1>3, <2>3 DEF SessionsAreOwn
  <2> QED BY <2>2, <2>3 DEF SessionsAreOwn
<1>4. ASSUME \A c \in Conns : ~ SetSession(c) /\ ~ SetSessionFails(c) PROVE SessionsAreOwn'
  <2>1. ASSUME NEW d \in Conns, Connection(d) PROVE SessionsAreOwn'
    <3>1. session' = session /\ wiping' = wiping
      BY <1>4, <2>1
         DEF Connection, PublishOnline, Register, ReadEnd, WriteEnd, Write, WriteFails, Renew,
             redisVars
    <3> QED BY <1>3, <1>4, <3>1
  <2>2. ASSUME NEW t \in Threads, StopClient(t) PROVE SessionsAreOwn'
    <3>1. (session' = session \/ session' = [session EXCEPT ![UserOf(t)] = None])
          /\ wiping' = wiping
      BY <2>2
         DEF StopClient, StopMiss, StopDelete, StopClear, StopPublish, StopClose, redisVars
    <3> QED BY <1>1, <1>3, <1>4, <3>1
  <2>3. ASSUME NEW n \in Nodes, CleanupClose(n) PROVE SessionsAreOwn'
    <3>1. /\ session' = session /\ pc' = pc
          /\ wiping' = [wiping EXCEPT ![n] = {u \in Users : clients[n][u] # None}]
      BY <2>3 DEF CleanupClose
    <3>2. \A c \in PatientConns : ~ Quiet(c)' => session'[ConnUser[c]] \in {ConnNode[c], None}
      BY <1>1, <3>1, QuietUnfolded DEF SessionsAreOwn
    <3>3. ASSUME NEW o \in Nodes, NEW u \in wiping'[o] \cap Patient
          PROVE  session'[u] \in {o, None}
      <4>1. CASE o = n
        <5>1. PICK c \in Conns : clients[n][u] = c /\ u \in Users
          BY <1>1, <3>1, <3>3, <4>1
        <5>2. ConnNode[c] = n /\ ConnUser[c] = u /\ ~ Quiet(c) /\ c \in PatientConns
          BY <3>3, <5>1, QuietUnfolded DEF NoGhostClient, PatientConns
        <5> QED BY <3>1, <4>1, <5>2 DEF SessionsAreOwn
      <4>2. CASE o # n
        BY <1>1, <3>1, <3>3, <4>2 DEF SessionsAreOwn
      <4> QED BY <4>1, <4>2
    <3> QED BY <3>2, <3>3 DEF SessionsAreOwn
  <2>4. ASSUME NEW n \in Nodes, Exit(n), CleanupClear(n) \/ UNCHANGED <<session, lapsing>>
        PROVE  SessionsAreOwn'
    <3>1. /\ \A u \in Users : session'[u] \in {session[u], None}
          /\ wiping' = [wiping EXCEPT ![n] = {}]
      BY <2>4 DEF Exit, CleanupClear
    <3>2. \A c \in Conns : ~ Quiet(c)' => ~ Quiet(c)
      BY <1>4, QuietStaysQuiet
    <3>3. ASSUME NEW c \in PatientConns, ~ Quiet(c)'
          PROVE  session'[ConnUser[c]] \in {ConnNode[c], None}
      BY <1>1, <3>1, <3>2, <3>3 DEF SessionsAreOwn
    <3>4. ASSUME NEW o \in Nodes, NEW u \in wiping'[o] \cap Patient
          PROVE  session'[u] \in {o, None}
      BY <1>1, <3>1, <3>4 DEF SessionsAreOwn
    <3> QED BY <3>3, <3>4 DEF SessionsAreOwn
  <2>5. ASSUME NEW u \in Users, Lapse(u) \/ SessionExpire(u) PROVE SessionsAreOwn'
    <3>1. (session' = session \/ session' = [session EXCEPT ![u] = None]) /\ wiping' = wiping
      BY <2>5 DEF Lapse, SessionExpire
    <3> QED BY <1>1, <1>3, <1>4, <3>1
  <2>6. CASE \E n \in Nodes, u \in Users, m \in Msgs : SendToUser(n, u, m)
    BY <1>1, <1>3, <1>4, <2>6 DEF SendToUser, redisVars
  <2>7. CASE UNCHANGED vars
    BY <1>1, <1>3, <1>4, <2>7 DEF vars, redisVars
  <2> QED BY <2>1, <2>2, <2>3, <2>4, <2>5, <2>6, <2>7, OneActor
<1> QED BY <1>2, <1>4

\* The facts about a connection, its goroutines and its user that the steps
\* below rest on.
LEMMA ConnFacts ==
  ASSUME TypeOK, NEW c \in Conns
  PROVE  /\ Reader(c) \in Threads /\ Writer(c) \in Threads /\ Reader(c) # Writer(c)
         /\ NodeOf(Reader(c)) = ConnNode[c] /\ NodeOf(Writer(c)) = ConnNode[c]
         /\ ConnNode[c] \in Nodes /\ ConnUser[c] \in Users /\ c # None
         /\ pc \in [Threads -> PC] /\ mode \in [Nodes -> {"up", "closing", "down"}]
         /\ clients \in [Nodes -> [Users -> Conns \cup {None}]]
BY ThreadsOfConn, ConnAssumption, NoneAssumption DEF TypeOK

\* A patient user's goroutine that finds an entry in the map finds its own
\* connection.
LEMMA OwnEntry ==
  ASSUME TypeOK, NoGhostClient, PatientInv, NEW c \in PatientConns, ~ Quiet(c),
         clients[ConnNode[c]][ConnUser[c]] # None
  PROVE  /\ clients[ConnNode[c]][ConnUser[c]] = c
         /\ pc[Reader(c)] \in {"reading", "stop"}
<1>0. c \in Conns
  BY DEF PatientConns
<1>1. PICK e \in Conns : clients[ConnNode[c]][ConnUser[c]] = e
  BY <1>0, ConnFacts
<1>2. ConnUser[e] = ConnUser[c] /\ pc[Reader(e)] \in {"reading", "stop"}
  BY <1>0, <1>1, ConnFacts DEF NoGhostClient
<1>3. e = c
  BY <1>2, SameConnection, QuietUnfolded DEF PatientInv
<1> QED BY <1>1, <1>2, <1>3

LEMMA StartsUncancelledStep ==
  ASSUME TypeOK, NoGhostClient, PatientInv, StartsUncancelled, [Next]_vars
  PROVE  StartsUncancelled'
<1> SUFFICES ASSUME NEW c \in PatientConns,
                    \/ pc'[Reader(c)] \in {"online", "register"}
                    \/ pc'[Reader(c)] = "idle" /\ mode'[ConnNode[c]] = "up"
             PROVE  c \notin cancelled' /\ pc'[Writer(c)] \notin Holding
  BY DEF StartsUncancelled, PatientConns
<1>0. c \in Conns
  BY DEF PatientConns
<1>1. /\ \/ pc[Reader(c)] \in {"online", "register"}
         \/ pc[Reader(c)] = "idle" /\ mode[ConnNode[c]] = "up"
         => c \notin cancelled /\ pc[Writer(c)] \notin Holding
      /\ pc[Reader(c)] \in {"idle", "online"} => pc[Writer(c)] = "idle"
  BY <1>0 DEF StartsUncancelled, PatientInv, WriterAfterOnline
<1>2. ASSUME NEW d \in Conns, Connection(d)
      PROVE  c \notin cancelled' /\ pc'[Writer(c)] \notin Holding
  <2>1. CASE c # d
    <3>1. pc'[Reader(c)] = pc[Reader(c)] /\ pc'[Writer(c)] = pc[Writer(c)]
      BY <1>2, <2>1, <1>0, OthersUntouched
    <3>2. cancelled' \subseteq cancelled \cup {d} /\ mode' = mode
      BY <1>2
         DEF Connection, SetSession, SetSessionFails, PublishOnline, Register, ReadEnd,
             WriteEnd, Write, WriteFails, Renew, connVars
    <3> QED BY <1>1, <2>1, <3>1, <3>2
  <2>2. CASE c = d
    <3>1. CASE SetSession(c)
      BY <1>1, <3>1, <1>0, ConnFacts DEF SetSession, Holding
    <3>2. CASE SetSessionFails(c)
      BY <3>2, <1>0, ConnFacts DEF SetSessionFails
    <3>3. CASE PublishOnline(c)
      BY <1>1, <3>3, <1>0, ConnFacts DEF PublishOnline, Holding
    <3>4. CASE Register(c)
      BY <3>4, <1>0, ConnFacts DEF Register
    <3>5. CASE ReadEnd(c)
      BY <3>5, <1>0, ConnFacts DEF ReadEnd
    <3>6. CASE WriteEnd(c) \/ WriteFails(c)
      BY <1>1, <3>6, <1>0, ConnFacts DEF WriteEnd, WriteFails, Holding
    <3>7. CASE Write(c) \/ Renew(c)
      BY <1>1, <3>7 DEF Write, Renew, connVars
    <3> QED BY <1>2, <2>2, <3>1, <3>2, <3>3, <3>4, <3>5, <3>6, <3>7 DEF Connection
  <2> QED BY <2>1, <2>2
<1>3. ASSUME NEW t \in Threads, StopClient(t)
      PROVE  c \notin cancelled' /\ pc'[Writer(c)] \notin Holding
  <2>1. /\ t[1] \in Conns /\ (t = Reader(t[1]) \/ t = Writer(t[1]))
        /\ NodeOf(t) = ConnNode[t[1]] /\ UserOf(t) = ConnUser[t[1]]
    BY ConnOfThread
  <2>2. /\ pc[t] \in {"stop"} \cup Holding /\ pc'[t] \in {"ended"} \cup Holding
        /\ \A s \in Threads \ {t} : pc'[s] = pc[s]
        /\ mode' = mode
    BY <1>3, <1>0, ConnFacts, <2>1
       DEF StopClient, StopMiss, StopDelete, StopClear, StopPublish, StopClose, Holding
  <2>3. t # Reader(c)
    BY <2>2 DEF Holding
  <2>4. /\ pc[Reader(c)] = pc'[Reader(c)]
        /\ c \notin cancelled /\ pc[Writer(c)] \notin Holding
    BY <1>1, <2>2, <2>3, <1>0, ConnFacts
  <2>5. CASE t = Writer(c)
    <3>1. StopMiss(t) \/ StopDelete(t)
      BY <1>3, <2>4, <2>5 DEF StopClient, StopClear, StopPublish, StopClose, Holding
    <3>2. t[1] = c /\ t[2] = "write"
      BY <1>0, <2>5, ThreadsOfConn
    <3>3. ~ StopDelete(t)
      <4>1. SUFFICES ASSUME StopDelete(t) PROVE FALSE
        OBVIOUS
      <4>2. ~ Quiet(c)
        BY <4>1, <3>2, RunningIsNotQuiet DEF StopDelete
      <4>3. pc[Reader(c)] \in {"reading", "stop"}
        BY <2>1, <3>2, <4>1, <4>2, OwnEntry DEF StopDelete
      <4> QED BY <2>4, <4>3
    <3> QED
      BY <2>4, <2>5, <3>1, <3>2, <3>3, <1>0, ConnFacts DEF StopMiss, CancelledOnReturn, Holding
  <2>6. CASE t # Writer(c)
    <3>1. t[1] # c
      BY <2>1, <2>3, <2>6
    <3>2. cancelled' \subseteq cancelled \cup {t[1]}
      BY <1>3
         DEF StopClient, StopMiss, StopDelete, StopClear, StopPublish, StopClose,
             CancelledOnReturn
    <3> QED BY <2>2, <2>4, <2>6, <3>1, <3>2, <1>0, ConnFacts
  <2> QED BY <2>5, <2>6
<1>4. CASE \E n \in Nodes : CleanupClose(n)
  BY <1>1, <1>4, <1>0, ConnFacts DEF CleanupClose
<1>5. ASSUME NEW n \in Nodes, Exit(n)
      PROVE  c \notin cancelled' /\ pc'[Writer(c)] \notin Holding
  <2>1. ConnNode[c] # n
    BY <1>5, <1>0, ConnFacts DEF Exit
  <2>2. /\ pc'[Reader(c)] = pc[Reader(c)] /\ pc'[Writer(c)] = pc[Writer(c)]
        /\ mode'[ConnNode[c]] = mode[ConnNode[c]]
        /\ cancelled' = cancelled \cup {d \in Conns : ConnNode[d] = n}
    BY <1>5, <2>1, <1>0, ConnFacts DEF Exit
  <2> QED BY <1>1, <2>1, <2>2
<1>6. CASE \E u \in Users : Lapse(u) \/ SessionExpire(u)
  BY <1>1, <1>6 DEF Lapse, SessionExpire, connVars
<1>7. CASE \E n \in Nodes, u \in Users, m \in Msgs : SendToUser(n, u, m)
  BY <1>1, <1>7 DEF SendToUser, connVars
<1>8. CASE UNCHANGED vars
  BY <1>1, <1>8 DEF vars, connVars
<1> QED BY <1>2, <1>3, <1>4, <1>5, <1>6, <1>7, <1>8, OneActor

LEMMA MappedUncancelledStep ==
  ASSUME TypeOK, NoGhostClient, StartsUncancelled, MappedUncancelled, HoldersUncancelled,
         [Next]_vars
  PROVE  MappedUncancelled'
<1> SUFFICES ASSUME NEW n \in Nodes, NEW u \in Patient, clients'[n][u] \in cancelled'
             PROVE  FALSE
  BY DEF MappedUncancelled
<1>1. /\ clients[n][u] \notin cancelled
      /\ u \in Users
      /\ cancelled \subseteq Conns
      /\ clients \in [Nodes -> [Users -> Conns \cup {None}]]
      /\ \A c \in Conns : clients[n][u] = c =>
           ConnNode[c] = n /\ ConnUser[c] = u /\ pc[Reader(c)] \in {"reading", "stop"}
  BY PatientAssumption DEF MappedUncancelled, NoGhostClient, TypeOK
<1>2. ASSUME NEW d \in Conns, Connection(d) PROVE FALSE
  <2>1. CASE Register(d)
    <3>1. ConnUser[d] = u => d \notin cancelled
      BY <2>1 DEF StartsUncancelled, Register, PatientConns
    <3> QED BY <1>1, <2>1, <3>1, ConnFacts DEF Register
  <2>2. CASE SetSessionFails(d)
    BY <1>1, <2>2 DEF SetSessionFails
  <2>3. CASE ~ Register(d) /\ ~ SetSessionFails(d)
    BY <1>1, <1>2, <2>3
       DEF Connection, SetSession, PublishOnline, ReadEnd, WriteEnd, Write, WriteFails, Renew,
           connVars
  <2> QED BY <2>1, <2>2, <2>3
<1>3. ASSUME NEW t \in Threads, StopClient(t) PROVE FALSE
  <2>1. /\ t[1] \in Conns /\ NodeOf(t) = ConnNode[t[1]] /\ UserOf(t) = ConnUser[t[1]]
        /\ NodeOf(t) \in Nodes /\ UserOf(t) \in Users /\ t[1] # None
    BY ConnOfThread, ConnFacts
  <2>2. CASE StopDelete(t)
    <3>1. clients'[n][u] \in {clients[n][u], None} /\ cancelled' = cancelled
      BY <1>1, <2>1, <2>2 DEF StopDelete
    <3>2. None \notin Conns
      BY NoneAssumption
    <3> QED BY <1>1, <3>1, <3>2
  <2>3. CASE StopClose(t)
    <3>1. ConnUser[t[1]] = u => clients[ConnNode[t[1]]][ConnUser[t[1]]] # t[1]
      BY <2>1, <2>3 DEF StopClose, HoldersUncancelled, Holding, PatientConns
    <3> QED BY <1>1, <2>1, <2>3, <3>1 DEF StopClose
  <2>4. CASE StopMiss(t)
    BY <1>1, <2>1, <2>4 DEF StopMiss, CancelledOnReturn
  <2>5. CASE StopClear(t) \/ StopPublish(t)
    BY <1>1, <2>5 DEF StopClear, StopPublish
  <2> QED BY <1>3, <2>2, <2>3, <2>4, <2>5 DEF StopClient
<1>4. CASE \E o \in Nodes : CleanupClose(o)
  BY <1>1, <1>4 DEF CleanupClose
<1>5. ASSUME NEW o \in Nodes, Exit(o) PROVE FALSE
  <2>1. CASE o = n
    BY <1>1, <1>5, <2>1, NoneAssumption DEF Exit
  <2>2. CASE o # n
    BY <1>1, <1>5, <2>2 DEF Exit
  <2> QED BY <2>1, <2>2
<1>6. CASE \E v \in Users : Lapse(v) \/ SessionExpire(v)
  BY <1>1, <1>6 DEF Lapse, SessionExpire, connVars
<1>7. CASE \E o \in Nodes, v \in Users, m \in Msgs : SendToUser(o, v, m)
  BY <1>1, <1>7 DEF SendToUser, connVars
<1>8. CASE UNCHANGED vars
  BY <1>1, <1>8 DEF vars, connVars
<1> QED BY <1>2, <1>3, <1>4, <1>5, <1>6, <1>7, <1>8, OneActor

LEMMA HoldersUncancelledStep ==
  ASSUME TypeOK, NoGhostClient, PatientInv, StartsUncancelled, MappedUncancelled,
         HoldersUncancelled, [Next]_vars
  PROVE  HoldersUncancelled'
<1> SUFFICES ASSUME NEW t \in Threads, t[1] \in PatientConns, pc'[t] \in Holding
             PROVE  /\ t[1] \notin cancelled'
                    /\ clients'[NodeOf(t)][UserOf(t)] # t[1]
  BY DEF HoldersUncancelled, NodeOf, UserOf, PatientConns
<1> DEFINE Held(x, m) == t[1] \notin x /\ m[NodeOf(t)][UserOf(t)] # t[1]
<1> SUFFICES Held(cancelled', clients')
  OBVIOUS
<1>1. /\ pc[t] \in Holding => Held(cancelled, clients)
      /\ pc[t] \in Holding => mu[NodeOf(t)] = t
      /\ t[1] \in Conns /\ (t = Reader(t[1]) \/ t = Writer(t[1]))
      /\ NodeOf(t) = ConnNode[t[1]] /\ UserOf(t) = ConnUser[t[1]]
      /\ NodeOf(t) \in Nodes /\ UserOf(t) \in Users /\ t[1] # None /\ t # None
      /\ pc \in [Threads -> PC]
      /\ clients \in [Nodes -> [Users -> Conns \cup {None}]]
  BY ConnOfThread, ConnFacts, NoneAssumption
     DEF HoldersUncancelled, PatientInv, HoldersOwnMutex, TypeOK
<1> HIDE DEF Held
<1>2. ASSUME NEW d \in Conns, Connection(d) PROVE Held(cancelled', clients')
  <2>1. CASE d # t[1]
    <3>1. pc'[t] = pc[t]
      <4>1. t[1] \in Conns
        BY <1>1
      <4>2. pc'[Reader(t[1])] = pc[Reader(t[1])] /\ pc'[Writer(t[1])] = pc[Writer(t[1])]
        BY <1>2, <2>1, <4>1, OthersUntouched
      <4> QED BY ONLY <1>1, <4>2
    <3>2. cancelled' \subseteq cancelled \cup {d}
      BY <1>2
         DEF Connection, SetSession, SetSessionFails, PublishOnline, Register, ReadEnd,
             WriteEnd, Write, WriteFails, Renew, connVars
    <3>3. clients' = clients \/ clients' = [clients EXCEPT ![ConnNode[d]][ConnUser[d]] = d]
      BY <1>2
         DEF Connection, SetSession, SetSessionFails, PublishOnline, Register, ReadEnd,
             WriteEnd, Write, WriteFails, Renew
    <3> QED BY <1>1, <2>1, <3>1, <3>2, <3>3, ConnFacts DEF Held
  <2>2. CASE d = t[1]
    <3>1. CASE SetSession(d) \/ SetSessionFails(d)
      <4>1. pc[Reader(d)] = "idle" /\ pc[Writer(d)] = "idle"
        BY <3>1 DEF SetSession, SetSessionFails, PatientInv, WriterAfterOnline
      <4> QED
        BY <1>1, <2>2, <3>1, <4>1, ConnFacts DEF SetSession, SetSessionFails, Holding
    <3>2. CASE PublishOnline(d) \/ Register(d)
      <4>1. pc[Writer(d)] \notin Holding /\ pc[Reader(d)] \in {"online", "register"}
        BY <2>2, <3>2 DEF PublishOnline, Register, StartsUncancelled
      <4> QED
        BY <1>1, <2>2, <3>2, <4>1, ConnFacts DEF PublishOnline, Register, Holding
    <3>3. CASE ReadEnd(d) \/ WriteEnd(d) \/ WriteFails(d)
      BY <1>1, <2>2, <3>3, ConnFacts DEF ReadEnd, WriteEnd, WriteFails, Holding
    <3>4. CASE Write(d) \/ Renew(d)
      BY <1>1, <3>4 DEF Write, Renew, connVars
    <3> QED BY <1>2, <3>1, <3>2, <3>3, <3>4 DEF Connection
  <2> QED BY <2>1, <2>2
<1>3. ASSUME NEW s \in Threads, StopClient(s) PROVE Held(cancelled', clients')
  <2>1. /\ s[1] \in Conns /\ NodeOf(s) = ConnNode[s[1]] /\ UserOf(s) = ConnUser[s[1]]
        /\ NodeOf(s) \in Nodes /\ UserOf(s) \in Users
    BY ConnOfThread
  <2>2. CASE s = t
    <3>1. CASE StopDelete(t)
      <4>1. clients[ConnNode[t[1]]][ConnUser[t[1]]] = t[1]
        <5>1. ~ Quiet(t[1]) /\ t[1] \in Conns
          BY <1>1, <3>1, RunningIsNotQuiet DEF StopDelete
        <5>2. clients[ConnNode[t[1]]][ConnUser[t[1]]] # None
          BY <1>1, <3>1 DEF StopDelete
        <5> QED BY <5>1, <5>2, OwnEntry
      <4>2. t[1] \notin cancelled
        BY <1>1, <4>1 DEF MappedUncancelled, PatientConns
      <4> QED BY <1>1, <3>1, <4>2 DEF StopDelete, Held
    <3>2. CASE StopClear(t) \/ StopPublish(t)
      BY <1>1, <3>2 DEF StopClear, StopPublish, Holding
    <3>3. ~ StopMiss(t) /\ ~ StopClose(t)
      BY <1>1 DEF StopMiss, StopClose, Holding
    <3> QED BY <1>3, <2>2, <3>1, <3>2, <3>3 DEF StopClient
  <2>3. CASE s # t
    <3>1. pc'[t] = pc[t]
      BY <1>1, <1>3, <2>3
         DEF StopClient, StopMiss, StopDelete, StopClear, StopPublish, StopClose
    <3>2. Held(cancelled, clients) /\ mu[NodeOf(t)] = t
      BY <1>1, <3>1
    <3>3. clients' = clients \/ clients' = [clients EXCEPT ![NodeOf(s)][UserOf(s)] = None]
      BY <1>3
         DEF StopClient, StopMiss, StopDelete, StopClear, StopPublish, StopClose
    <3>4. t[1] \notin cancelled'
      <4>1. CASE s[1] # t[1]
        <5>1. cancelled' \subseteq cancelled \cup {s[1]}
          BY <1>3
             DEF StopClient, StopMiss, StopDelete, StopClear, StopPublish, StopClose,
                 CancelledOnReturn
        <5> QED BY <3>2, <4>1, <5>1 DEF Held
      <4>2. CASE s[1] = t[1]
        <5>1. NodeOf(s) = NodeOf(t)
          BY <1>1, <2>1, <4>2
        <5>2. ~ StopMiss(s)
          BY <1>1, <3>2, <5>1 DEF StopMiss
        <5>3. ~ StopClose(s)
          BY <2>3, <3>2, <5>1 DEF StopClose, PatientInv, HoldersOwnMutex, Holding
        <5> QED
          BY <1>3, <3>2, <5>2, <5>3 DEF StopClient, StopDelete, StopClear, StopPublish, Held
      <4> QED BY <4>1, <4>2
    <3> QED BY <1>1, <2>1, <3>2, <3>3, <3>4 DEF Held
  <2> QED BY <2>2, <2>3
<1>4. CASE \E o \in Nodes : CleanupClose(o)
  BY <1>1, <1>4 DEF CleanupClose
<1>5. ASSUME NEW o \in Nodes, Exit(o) PROVE Held(cancelled', clients')
  <2>1. ConnNode[t[1]] # o /\ pc'[t] = pc[t]
    BY <1>1, <1>5 DEF Exit, Holding
  <2> QED BY <1>1, <1>5, <2>1 DEF Exit, Held
<1>6. CASE \E v \in Users : Lapse(v) \/ SessionExpire(v)
  BY <1>1, <1>6 DEF Lapse, SessionExpire, connVars
<1>7. CASE \E o \in Nodes, v \in Users, m \in Msgs : SendToUser(o, v, m)
  BY <1>1, <1>7 DEF SendToUser, connVars
<1>8. CASE UNCHANGED vars
  BY <1>1, <1>8 DEF vars, connVars
<1> QED BY <1>2, <1>3, <1>4, <1>5, <1>6, <1>7, <1>8, OneActor

\* RefinementInv holds of every state, next to the invariants it rests on.
LEMMA RefinementInvariant == Spec => []RefinementInv
<1>1. Init => RefinementInv
  <2> SUFFICES ASSUME Init PROVE RefinementInv
    OBVIOUS
  <2>1. \A c \in Conns : pc[Reader(c)] = "idle" /\ pc[Writer(c)] = "idle" /\ Quiet(c)
    BY ThreadsOfConn, QuietUnfolded DEF Init
  <2>2. SessionsAreOwn
    BY <2>1 DEF Init, SessionsAreOwn, PatientConns
  <2>3. StartsUncancelled /\ MappedUncancelled
    BY <2>1 DEF Init, StartsUncancelled, MappedUncancelled, PatientConns, Holding
  <2>4. HoldersUncancelled
    BY DEF Init, HoldersUncancelled, Holding
  <2> QED BY <2>2, <2>3, <2>4 DEF RefinementInv
<1>2. TypeOK /\ NoGhostClient /\ PatientInv /\ RefinementInv /\ [Next]_vars
        => RefinementInv'
  BY SessionsAreOwnStep, StartsUncancelledStep, MappedUncancelledStep,
     HoldersUncancelledStep DEF RefinementInv
<1> QED
  BY <1>1, <1>2, TypeCorrect, NoGhost, PatientInvariant, PTL DEF Spec

\* Of a patient user, the map that holds the user and the session agree, and a
\* node that shuts down deletes no session that names another node.
THEOREM PatientSessions == Spec => []SessionsFollowMaps
<1>1. TypeOK /\ NoGhostClient /\ SessionsAreOwn => SessionsFollowMaps
  <2> SUFFICES ASSUME TypeOK, NoGhostClient, SessionsAreOwn,
                      NEW n \in Nodes, NEW u \in Patient,
                      clients[n][u] # None \/ u \in wiping[n]
               PROVE  session[u] \in {n, None}
    BY DEF SessionsFollowMaps
  <2>1. CASE clients[n][u] # None
    <3>1. PICK c \in Conns : clients[n][u] = c
      BY <2>1, PatientAssumption DEF TypeOK
    <3>2. ConnNode[c] = n /\ ConnUser[c] = u /\ ~ Quiet(c) /\ c \in PatientConns
      BY <3>1, PatientAssumption, QuietUnfolded DEF NoGhostClient, PatientConns
    <3> QED BY <3>2 DEF SessionsAreOwn
  <2>2. CASE u \in wiping[n]
    BY <2>2 DEF SessionsAreOwn
  <2> QED BY <2>1, <2>2
<1>2. RefinementInv => SessionsAreOwn
  BY DEF RefinementInv
<1> QED
  BY <1>1, <1>2, TypeCorrect, NoGhost, RefinementInvariant, PTL

-----------------------------------------------------------------------------
(* The mapped variables                                                    *)

\* What the steps below may use of the state before them.
Before ==
  TypeOK /\ NoGhostClient /\ OverlapInv /\ PatientInv /\ RefinementInv

\* The step as AccessView sees it.
Seen == [View!AccessNext]_(View!accessVars)

LEMMA SameStages ==
  ASSUME \A c \in Conns : StageOf(c)' = StageOf(c)
  PROVE  UNCHANGED [c \in Conns |-> StageOf(c)]
OBVIOUS

\* A step that changes the stage of one connection moves it in AccessView.
LEMMA OneStageMoves ==
  ASSUME NEW c \in Conns, \A d \in Conns \ {c} : StageOf(d)' = StageOf(d)
  PROVE  View!Moves(c, StageOf(c), StageOf(c)')
BY DEF View!Moves

\* Once StartClient has returned, its connection is done with starting.
LEMMA StageByReader ==
  ASSUME NEW c \in Conns
  PROVE  /\ pc'[Reader(c)] = pc[Reader(c)] => StageOf(c)' = StageOf(c)
         /\ pc[Reader(c)] \notin {"idle", "online", "register"} => StageOf(c) = "done"
         /\ pc'[Reader(c)] \notin {"idle", "online", "register"} => StageOf(c)' = "done"
BY DEF StageOf

LEMMA SameMaps ==
  ASSUME clients' = clients
  PROVE  UNCHANGED [n \in Nodes |-> PresentAt(n)]
BY DEF PresentAt

\* The session to be cleared at a node is that of the goroutine in its
\* critical section, so a step elsewhere does not change it.
LEMMA SameClearingAt ==
  ASSUME NEW n, mu'[n] = mu[n],
         mu[n] # None => (pc'[mu[n]] = "clear" <=> pc[mu[n]] = "clear")
  PROVE  ClearingAt(n)' = ClearingAt(n)
BY DEF ClearingAt, UserOf

LEMMA SameClearing ==
  ASSUME TypeOK, mu' = mu, \A t \in Threads : pc'[t] = "clear" <=> pc[t] = "clear"
  PROVE  UNCHANGED [n \in Nodes |-> ClearingAt(n)]
<1>1. ASSUME NEW n \in Nodes PROVE ClearingAt(n)' = ClearingAt(n)
  <2>1. mu[n] # None => mu[n] \in Threads
    BY DEF TypeOK
  <2> QED BY <2>1, SameClearingAt
<1> QED BY <1>1

LEMMA Unseen ==
  ASSUME session' = session,
         UNCHANGED [c \in Conns |-> StageOf(c)],
         UNCHANGED [n \in Nodes |-> PresentAt(n)],
         UNCHANGED [n \in Nodes |-> ClearingAt(n)]
  PROVE  Seen
BY DEF Seen, View!accessVars

\* A step that touches neither goroutines nor maps nor sessions is not seen.
LEMMA UnseenStep ==
  ASSUME TypeOK, session' = session, pc' = pc, clients' = clients, mu' = mu
  PROVE  Seen
<1>1. UNCHANGED [c \in Conns |-> StageOf(c)]
  BY SameStages, StageByReader
<1>2. UNCHANGED [n \in Nodes |-> PresentAt(n)]
  BY SameMaps
<1>3. UNCHANGED [n \in Nodes |-> ClearingAt(n)]
  BY SameClearing
<1> QED BY <1>1, <1>2, <1>3, Unseen

-----------------------------------------------------------------------------
(* Steps                                                                   *)

\* A connection that may only start alone is alone in AccessView, too.
LEMMA UndisturbedIsAlone ==
  ASSUME Before, NEW c \in Conns, pc[Reader(c)] = "idle", Undisturbed(c)
  PROVE  View!Alone(c)
<1>1. /\ TypeOK /\ NoGhostClient /\ MutexIsHeld /\ WriterAfterOnline
      /\ clients \in [Nodes -> [Users -> Conns \cup {None}]]
      /\ mu \in [Nodes -> Threads \cup {None}]
  BY DEF Before, OverlapInv, TypeOK
<1>2. \A d \in Conns : ConnUser[d] = ConnUser[c] => Quiet(d)
  <2>1. Quiet(c)
    BY <1>1, QuietUnfolded DEF WriterAfterOnline
  <2> QED BY <2>1 DEF Undisturbed
<1>3. ASSUME NEW d \in Conns \ {c}, ConnUser[d] = ConnUser[c]
      PROVE  StageOf(d) \in {"idle", "done"}
  BY <1>2, <1>3, QuietUnfolded DEF StageOf
<1>4. ASSUME NEW n \in Nodes PROVE ConnUser[c] \notin PresentAt(n)
  <2>1. SUFFICES ASSUME clients[n][ConnUser[c]] # None PROVE FALSE
    BY DEF PresentAt
  <2>2. PICK d \in Conns : clients[n][ConnUser[c]] = d
    BY <1>1, <2>1, ConnAssumption
  <2>3. ConnUser[d] = ConnUser[c] /\ pc[Reader(d)] \in {"reading", "stop"}
    BY <1>1, <2>2, ConnAssumption DEF NoGhostClient
  <2> QED BY <1>2, <2>3, QuietUnfolded
<1>5. ASSUME NEW n \in Nodes PROVE ClearingAt(n) # ConnUser[c]
  <2>1. SUFFICES ASSUME mu[n] # None, pc[mu[n]] = "clear", UserOf(mu[n]) = ConnUser[c]
                 PROVE  FALSE
    BY ConnAssumption, NoneAssumption DEF ClearingAt
  <2>2. mu[n] \in Threads
    BY <1>1, <2>1
  <2>3. mu[n][1] \in Conns /\ ConnUser[mu[n][1]] = ConnUser[c] /\ ~ Quiet(mu[n][1])
    BY <2>1, <2>2, ConnOfThread, RunningIsNotQuiet
  <2> QED BY <1>2, <2>3
<1> QED BY <1>3, <1>4, <1>5 DEF View!Alone

LEMMA ConnectionSeen ==
  ASSUME Before, NEW c \in Conns, Connection(c)
  PROVE  Seen
<1> DEFINE u == ConnUser[c]
           n == ConnNode[c]
<1>1. /\ u \in Users /\ n \in Nodes
      /\ Reader(c) \in Threads /\ Writer(c) \in Threads /\ Reader(c) # Writer(c)
      /\ pc \in [Threads -> PC]
      /\ clients \in [Nodes -> [Users -> Conns \cup {None}]]
      /\ TypeOK /\ WriterAfterOnline
  BY ConnFacts DEF Before, OverlapInv
<1>2. mu' = mu
  BY DEF Connection, SetSession, SetSessionFails, PublishOnline, Register, ReadEnd,
         WriteEnd, Write, WriteFails, Renew
<1>3. UNCHANGED [m \in Nodes |-> ClearingAt(m)]
  <2>1. pc[Reader(c)] \in {"idle", "online"} => pc[Writer(c)] = "idle"
    BY <1>1 DEF WriterAfterOnline
  <2>2. \A t \in Threads : pc'[t] = "clear" <=> pc[t] = "clear"
    BY <1>1, <2>1
       DEF Connection, SetSession, SetSessionFails, PublishOnline, Register, ReadEnd,
           WriteEnd, Write, WriteFails, Renew, connVars
  <2> QED BY <1>1, <1>2, <2>2, SameClearing
<1>4. View!Moves(c, StageOf(c), StageOf(c)')
  <2>1. \A d \in Conns \ {c} : StageOf(d)' = StageOf(d)
    BY <1>1, OthersUntouched, StageByReader
  <2> QED BY <2>1, OneStageMoves
<1>5. ~ Register(c) => UNCHANGED [m \in Nodes |-> PresentAt(m)]
  <2>1. ~ Register(c) => clients' = clients
    BY DEF Connection, SetSession, SetSessionFails, PublishOnline, ReadEnd, WriteEnd,
           Write, WriteFails, Renew
  <2> QED BY <2>1, SameMaps
<1>6. View!Connection(c) => Seen
  BY DEF Seen, View!AccessNext
<1>7. pc[Reader(c)] = "idle" /\ Undisturbed(c) => View!Alone(c)
  BY UndisturbedIsAlone
<1>8. CASE SetSession(c)
  <2>1. StageOf(c) = "idle" /\ StageOf(c)' = "session"
    BY <1>1, <1>8 DEF SetSession, StageOf
  <2>2. View!Connect(c)
    BY <1>3, <1>4, <1>5, <1>7, <1>8, <2>1 DEF View!Connect, SetSession, Register
  <2> QED BY <1>6, <2>2 DEF View!Connection
<1>9. CASE SetSessionFails(c)
  <2>1. StageOf(c) = "idle" /\ StageOf(c)' = "done"
    BY <1>1, <1>9 DEF SetSessionFails, StageOf
  <2>2. "redis" \in ViewFaults
    BY <1>9 DEF SetSessionFails, ViewFaults
  <2>3. View!ConnectFails(c)
    BY <1>3, <1>4, <1>5, <1>7, <1>9, <2>1, <2>2
       DEF View!ConnectFails, SetSessionFails, Register
  <2> QED BY <1>6, <2>3 DEF View!Connection
<1>10. CASE PublishOnline(c)
  <2>1. StageOf(c) = "session" /\ StageOf(c)' = "online"
    BY <1>1, <1>10 DEF PublishOnline, StageOf
  <2>2. View!Announce(c)
    BY <1>3, <1>4, <1>5, <1>10, <2>1 DEF View!Announce, PublishOnline, Register, redisVars
  <2> QED BY <1>6, <2>2 DEF View!Connection
<1>11. CASE Register(c)
  <2>1. StageOf(c) = "online" /\ StageOf(c)' = "done"
    BY <1>1, <1>11 DEF Register, StageOf
  <2>2. ClearingAt(n) = None
    BY <1>11 DEF Register, ClearingAt
  <2>3. \A m \in Nodes : PresentAt(m)' = IF m = n THEN PresentAt(n) \cup {u} ELSE PresentAt(m)
    <3>1. /\ clients'[n][u] # None
          /\ \A m \in Nodes, v \in Users : m # n \/ v # u => clients'[m][v] = clients[m][v]
      BY <1>1, <1>11, ConnFacts DEF Register
    <3> QED BY <1>1, <3>1 DEF PresentAt
  <2>4. [m \in Nodes |-> PresentAt(m)]'
          = [[m \in Nodes |-> PresentAt(m)] EXCEPT ![n] = @ \cup {u}]
    BY <1>1, <2>3
  <2>5. View!Register(c)
    BY <1>1, <1>3, <1>4, <1>11, <2>1, <2>2, <2>4 DEF View!Register, Register, redisVars
  <2> QED BY <1>6, <2>5 DEF View!Connection
<1>12. CASE ReadEnd(c) \/ WriteEnd(c) \/ WriteFails(c)
  <2>1. session' = session /\ ~ Register(c)
    BY <1>1, <1>12 DEF ReadEnd, WriteEnd, WriteFails, Register, redisVars
  <2>2. StageOf(c)' = StageOf(c)
    BY <1>1, <1>12, StageByReader DEF ReadEnd, WriteEnd, WriteFails
  <2>3. UNCHANGED [d \in Conns |-> StageOf(d)]
    BY <1>1, <2>2, OthersUntouched, StageByReader, SameStages
  <2> QED BY <1>3, <1>5, <2>1, <2>3, Unseen
<1>13. CASE Write(c) \/ Renew(c)
  BY <1>1, <1>2, <1>13, UnseenStep DEF Write, Renew, connVars, redisVars
<1> QED BY <1>8, <1>9, <1>10, <1>11, <1>12, <1>13 DEF Connection

LEMMA StopClientSeen ==
  ASSUME Before, NEW t \in Threads, StopClient(t)
  PROVE  Seen
<1> DEFINE u == UserOf(t)
           n == NodeOf(t)
<1>1. /\ u \in Users /\ n \in Nodes /\ t # None /\ u # None
      /\ TypeOK /\ HoldersOwnMutex /\ MutexIsHeld
      /\ pc \in [Threads -> PC]
      /\ mu \in [Nodes -> Threads \cup {None}]
      /\ clients \in [Nodes -> [Users -> Conns \cup {None}]]
  BY ConnOfThread, NoneAssumption DEF Before, OverlapInv, TypeOK
<1>2. \A s \in Threads \ {t} : pc'[s] = pc[s]
  BY <1>1 DEF StopClient, StopMiss, StopDelete, StopClear, StopPublish, StopClose
<1>3. UNCHANGED [c \in Conns |-> StageOf(c)]
  <2>1. /\ pc[t] \notin {"idle", "online", "register"}
        /\ pc'[t] \notin {"idle", "online", "register"}
    BY <1>1 DEF StopClient, StopMiss, StopDelete, StopClear, StopPublish, StopClose
  <2>2. \A c \in Conns : StageOf(c)' = StageOf(c)
    BY <1>2, <2>1, ThreadsOfConn, StageByReader
  <2> QED BY <2>2, SameStages
<1>4. \A m \in Nodes \ {n} : mu'[m] = mu[m] => ClearingAt(m)' = ClearingAt(m)
  <2>1. \A m \in Nodes \ {n} : mu[m] # None => mu[m] \in Threads \ {t}
    BY <1>1 DEF MutexIsHeld
  <2> QED BY <1>2, <2>1, SameClearingAt
<1>5. View!Node(n) => Seen
  BY <1>1 DEF Seen, View!AccessNext
<1>6. CASE StopMiss(t) \/ StopPublish(t)
  <2>1. /\ session' = session /\ clients' = clients /\ mu' = mu
        /\ pc[t] # "clear" /\ pc'[t] # "clear"
    BY <1>1, <1>6 DEF StopMiss, StopPublish, redisVars
  <2> QED BY <1>1, <1>2, <1>3, <2>1, SameMaps, SameClearing, Unseen
<1>7. CASE StopClose(t)
  <2>1. /\ session' = session /\ clients' = clients
        /\ mu[n] = t /\ pc[t] = "close" /\ mu' = [mu EXCEPT ![n] = None]
    BY <1>1, <1>7 DEF StopClose, redisVars, HoldersOwnMutex, Holding
  <2>2. ClearingAt(n) = None /\ ClearingAt(n)' = None
    BY <1>1, <2>1 DEF ClearingAt
  <2>3. UNCHANGED [m \in Nodes |-> ClearingAt(m)]
    BY <1>1, <1>4, <2>1, <2>2
  <2> QED BY <1>3, <2>1, <2>3, SameMaps, Unseen
<1>8. CASE StopDelete(t)
  <2>1. /\ session' = session /\ mu[n] = None /\ mu' = [mu EXCEPT ![n] = t]
        /\ clients[n][u] # None /\ clients' = [clients EXCEPT ![n][u] = None]
        /\ pc'[t] = "clear"
    BY <1>1, <1>8 DEF StopDelete, redisVars
  <2>2. u \in PresentAt(n) /\ ClearingAt(n) = None /\ ClearingAt(n)' = u
    BY <1>1, <2>1 DEF PresentAt, ClearingAt, UserOf
  <2>3. \A m \in Nodes : PresentAt(m)' = IF m = n THEN PresentAt(n) \ {u} ELSE PresentAt(m)
    BY <1>1, <2>1 DEF PresentAt
  <2>4. [m \in Nodes |-> PresentAt(m)]'
          = [[m \in Nodes |-> PresentAt(m)] EXCEPT ![n] = @ \ {u}]
    BY <1>1, <2>3
  <2>5. [m \in Nodes |-> ClearingAt(m)]' = [[m \in Nodes |-> ClearingAt(m)] EXCEPT ![n] = u]
    BY <1>1, <1>4, <2>1, <2>2
  <2>6. View!Disconnect(n, u)
    BY <1>1, <1>3, <2>1, <2>2, <2>4, <2>5 DEF View!Disconnect
  <2> QED BY <1>1, <1>5, <2>6 DEF View!Node
<1>9. CASE StopClear(t)
  <2>1. /\ clients' = clients /\ mu' = mu /\ mu[n] = t /\ pc[t] = "clear" /\ pc'[t] = "offline"
    BY <1>1, <1>9 DEF StopClear, HoldersOwnMutex, Holding
  <2>2. ClearingAt(n) = u /\ ClearingAt(n)' = None
    BY <1>1, <2>1 DEF ClearingAt
  <2>3. [m \in Nodes |-> ClearingAt(m)]' = [[m \in Nodes |-> ClearingAt(m)] EXCEPT ![n] = None]
    BY <1>1, <1>4, <2>1, <2>2
  <2>4. \/ session' = [session EXCEPT ![u] = None]
        \/ (u \in Patient => "redis" \in ViewFaults) /\ session' = session
    <3>1. u \in Patient => t[1] \notin cancelled
      BY <2>1, ConnOfThread
         DEF Before, RefinementInv, HoldersUncancelled, Holding, PatientConns
    <3> QED BY <1>9, <3>1 DEF StopClear, ViewFaults
  <2>5. View!ClearSession(n)
    BY <1>1, <1>3, <2>1, <2>2, <2>3, <2>4, SameMaps DEF View!ClearSession
  <2> QED BY <1>5, <2>5 DEF View!Node
<1> QED BY <1>6, <1>7, <1>8, <1>9 DEF StopClient

LEMMA ExitSeen ==
  ASSUME Before, NEW n \in Nodes, CleanupClear(n) \/ Crash(n)
  PROVE  Seen
<1>1. Exit(n)
  BY DEF CleanupClear, Crash
<1>2. /\ pc \in [Threads -> PC]
      /\ clients \in [Nodes -> [Users -> Conns \cup {None}]]
      /\ mu \in [Nodes -> Threads \cup {None}]
      /\ session \in [Users -> Nodes \cup {None}]
      /\ wiping \in [Nodes -> SUBSET Users]
      /\ MutexIsHeld
  BY DEF Before, OverlapInv, TypeOK
<1>3. "exit" \in ViewFaults
  BY DEF CleanupClear, Crash, Before, OverlapInv, ClosingIsShutdown, ViewFaults
<1>4. [c \in Conns |-> StageOf(c)]'
        = [c \in Conns |-> IF ConnNode[c] = n /\ StageOf(c) # "idle" THEN "done" ELSE StageOf(c)]
  <2>1. ASSUME NEW c \in Conns
        PROVE  StageOf(c)' = IF ConnNode[c] = n /\ StageOf(c) # "idle" THEN "done" ELSE StageOf(c)
    <3>1. pc'[Reader(c)] = IF ConnNode[c] = n /\ pc[Reader(c)] # "idle" THEN "ended"
                           ELSE pc[Reader(c)]
      BY <1>1, ThreadsOfConn DEF Exit
    <3> QED BY <3>1 DEF StageOf
  <2> QED BY <2>1
<1>5. [m \in Nodes |-> PresentAt(m)]' = [[m \in Nodes |-> PresentAt(m)] EXCEPT ![n] = {}]
  <2>1. PresentAt(n)' = {} /\ \A m \in Nodes \ {n} : PresentAt(m)' = PresentAt(m)
    BY <1>1, <1>2 DEF Exit, PresentAt
  <2> QED BY <2>1
<1>6. [m \in Nodes |-> ClearingAt(m)]' = [[m \in Nodes |-> ClearingAt(m)] EXCEPT ![n] = None]
  <2>1. ClearingAt(n)' = None
    BY <1>1, <1>2 DEF Exit, ClearingAt
  <2>2. ASSUME NEW m \in Nodes \ {n} PROVE ClearingAt(m)' = ClearingAt(m)
    <3>1. mu'[m] = mu[m] /\ (mu[m] # None => mu[m] \in Threads /\ NodeOf(mu[m]) = m)
      BY <1>1, <1>2 DEF Exit, MutexIsHeld
    <3>2. mu[m] # None => pc'[mu[m]] = pc[mu[m]]
      BY <1>1, <3>1 DEF Exit
    <3> QED BY <3>1, <3>2, SameClearingAt
  <2> QED BY <2>1, <2>2
<1>7. \E W \in SUBSET Users :
        /\ \A u \in W \cap Patient : session[u] = n
        /\ session' = [u \in Users |-> IF u \in W THEN None ELSE session[u]]
  <2>1. CASE session' = session
    <3>1. session' = [u \in Users |-> IF u \in {} THEN None ELSE session[u]]
      BY <1>2, <2>1
    <3> WITNESS {} \in SUBSET Users
    <3> QED BY <3>1
  <2>2. CASE session' = [u \in Users |-> IF u \in wiping[n] THEN None ELSE session[u]]
    <3> DEFINE W == {u \in Users : u \in wiping[n] /\ session[u] # None}
    <3>1. \A u \in W \cap Patient : session[u] = n
      BY DEF Before, RefinementInv, SessionsAreOwn
    <3>2. session' = [u \in Users |-> IF u \in W THEN None ELSE session[u]]
      BY <1>2, <2>2
    <3> WITNESS W \in SUBSET Users
    <3> QED BY <3>1, <3>2
  <2> QED BY <2>1, <2>2 DEF CleanupClear, Crash
<1>8. View!Exit(n)
  BY <1>3, <1>4, <1>5, <1>6, <1>7 DEF View!Exit
<1> QED BY <1>8 DEF Seen, View!AccessNext, View!Node

LEMMA StepSeen ==
  ASSUME Before, [Next]_vars
  PROVE  Seen
<1>0. TypeOK
  BY DEF Before
<1>1. ASSUME NEW c \in Conns, Connection(c) PROVE Seen
  BY <1>1, ConnectionSeen
<1>2. ASSUME NEW t \in Threads, StopClient(t) PROVE Seen
  BY <1>2, StopClientSeen
<1>3. ASSUME NEW n \in Nodes, Node(n) PROVE Seen
  <2>1. CASE CleanupClose(n)
    BY <1>0, <2>1, UnseenStep DEF CleanupClose
  <2> QED BY <1>3, <2>1, ExitSeen DEF Node
<1>4. ASSUME NEW u \in Users, SessionExpire(u) PROVE Seen
  <2>1. pc' = pc /\ clients' = clients /\ mu' = mu
    BY <1>4 DEF SessionExpire, connVars
  <2>2. \A c \in Conns : ConnUser[c] = u => StageOf(c) # "session"
    BY <1>4 DEF SessionExpire, Before, OverlapInv, FreshIsNotLapsing, StageOf
  <2>3. /\ UNCHANGED [c \in Conns |-> StageOf(c)]
        /\ UNCHANGED [n \in Nodes |-> PresentAt(n)]
        /\ UNCHANGED [n \in Nodes |-> ClearingAt(n)]
    BY <1>0, <2>1, SameStages, StageByReader, SameMaps, SameClearing
  <2>4. View!SessionExpire(u)
    BY <1>4, <2>2, <2>3 DEF View!SessionExpire, SessionExpire
  <2> QED BY <2>4 DEF Seen, View!AccessNext
<1>7. CASE \E u \in Users : Lapse(u)
  BY <1>0, <1>7, UnseenStep DEF Lapse, connVars
<1>5. CASE \E n \in Nodes, u \in Users, m \in Msgs : SendToUser(n, u, m)
  BY <1>0, <1>5, UnseenStep DEF SendToUser, connVars, redisVars
<1>6. CASE UNCHANGED vars
  BY <1>0, <1>6, UnseenStep DEF vars, connVars, redisVars
<1> QED BY <1>1, <1>2, <1>3, <1>4, <1>5, <1>6, <1>7 DEF Next

\* All that push can see of the access nodes, that is the sessions, how far
\* each connection has got and the users in the maps, behaves as AccessView
\* says, for any nodes, users, connections and faults, whether connections of
\* a user overlap or not (StartClient, StopClient, the session's renewal and
\* expiry, cleanup).
THEOREM ImplementsAccess == Spec => LooksLikeAccess
<1>1. Init => View!AccessInit
  <2> SUFFICES ASSUME Init PROVE View!AccessInit
    OBVIOUS
  <2>1. \A c \in Conns : StageOf(c) = "idle"
    BY ThreadsOfConn DEF Init, StageOf
  <2>2. \A n \in Nodes : PresentAt(n) = {} /\ ClearingAt(n) = None
    BY DEF Init, PresentAt, ClearingAt
  <2> QED BY <2>1, <2>2 DEF Init, View!AccessInit
<1>2. Before /\ [Next]_vars => [View!AccessNext]_(View!accessVars)
  BY StepSeen DEF Seen
<1>3. Spec => []Before
  BY TypeCorrect, NoGhost, OverlapInvariant, PatientInvariant, RefinementInvariant, PTL
     DEF Before
<1> QED
  BY <1>1, <1>2, <1>3, PTL DEF Spec, LooksLikeAccess, View!AccessSpec
=============================================================================

------------------------ MODULE PushDelivery_proofs -------------------------
(***************************************************************************)
(* Theorems about PushDelivery for every set of users, nodes, messages,    *)
(* calls and partitions, every page size and every set of faults.          *)
(***************************************************************************)
EXTENDS PushDelivery, TLAPS

\* Whoever has a request on its way waits for the answer.
CallersWait ==
  /\ \A t \in Tasks : call.by = t => tpc[t] = "send"
  /\ \A p \in Partitions : call.by = p => hpc[p] = "send"

\* What a call believes to be sent was accepted.
OutcomesAreTrue ==
  \A t \in Tasks, m \in Msgs : mask[t][m] = "ok" => m \in pushed

\* What a handler is about to acknowledge was accepted.
AcksAreTrue == \A p \in Partitions : acks[p] \subseteq drained

\* What a request counts as accepted was.
AnswersAreTrue ==
  /\ call.by \in Tasks => call.ok \subseteq pushed
  /\ call.by \in Partitions => call.ok \subseteq drained

\* RecordedIsAccepted rests on what calls, handlers and requests remember.
RecordedInv ==
  /\ RecordedIsAccepted
  /\ OutcomesAreTrue
  /\ AcksAreTrue
  /\ AnswersAreTrue

\* A handler was asked for messages of its event's user, which do not leave
\* the archive.
DueIsArchived(p) ==
  hpc[p] # "idle" =>
    \A m \in due[p] : MsgUser[m] = Event(p).user /\ store[m] # "none"

\* What lies behind its cursor has been delivered.
BehindCursor(p) ==
  hpc[p] \in {"retrieve", "send", "ack"} =>
    \A m \in due[p] : m <= cursor[p] => store[m] = "delivered"

\* What has not is on its page, or the page is full and the rest comes later.
PageIsNext(p) ==
  hpc[p] \in {"send", "ack"} =>
    \A m \in due[p] :
      \/ store[m] = "delivered"
      \/ m \in page[p]
      \/ Cardinality(page[p]) = MaxMessageCount /\ \A k \in page[p] : k < m

\* It sends the page and nothing else.
PageIsSent(p) == call.by = p => page[p] = call.rest \cup call.ok \cup call.refused

\* It acknowledges the whole page.
PageIsAcknowledged(p) == hpc[p] = "ack" => acks[p] = page[p]

Drained(p) == hpc[p] = "handled" => \A m \in due[p] : store[m] = "delivered"

\* Page by page, a handler leaves nothing of what it was asked for behind.
DrainInv ==
  \A p \in Partitions :
    /\ DueIsArchived(p)
    /\ BehindCursor(p)
    /\ PageIsNext(p)
    /\ PageIsSent(p)
    /\ PageIsAcknowledged(p)
    /\ Drained(p)

\* A call that runs is not too large, visits its own messages, and has no
\* outcome for those it has not looked up.
CallsAreRegular ==
  \A t \in Tasks :
    /\ todo[t] \subseteq TaskMsgs[t]
    /\ tpc[t] \in {"lookup", "send", "update", "done"} => Fits(t)
    /\ tpc[t] = "lookup" => \A m \in todo[t] : mask[t][m] = "send failed"

\* Call t is sending message m: in a group, a request, or one given up on.
OnItsWay(t, m) ==
  \/ \E n \in Nodes : m \in groups[t][n]
  \/ call.by = t /\ m \in call.rest
  \/ \E n \in Nodes : <<t, n, m>> \in late

\* Call t has taken message m up and will not archive it.
SendsOnly(t, m) ==
  /\ m \in TaskMsgs[t]
  /\ Fits(t)
  /\ tpc[t] # "idle"
  /\ tpc[t] = "lookup" => m \notin todo[t]
  /\ mask[t][m] # "user offline"

SendersSendOnly ==
  /\ \A t \in Tasks, m \in Msgs : OnItsWay(t, m) => SendsOnly(t, m)
  /\ \A m \in pushed : \E t \in Tasks : SendsOnly(t, m)

\* Call t has had its turn to archive message m.
HadItsTurn(t, m) ==
  m \in TaskMsgs[t] /\ Fits(t) /\ tpc[t] \in {"update", "done", "failed"}

ArchivedByCalls ==
  \A m \in Msgs : store[m] # "none" => \E t \in Tasks : HadItsTurn(t, m)

\* Nothing that is in the archive is, or will be, accepted from a call.
RoutesExclude ==
  \A m \in Msgs : Unrepeated(m) /\ store[m] # "none" =>
    m \notin pushed /\ \A t \in Tasks : ~ OnItsWay(t, m)

RoutesInv ==
  /\ CallsAreRegular
  /\ SendersSendOnly
  /\ ArchivedByCalls
  /\ RoutesExclude

-----------------------------------------------------------------------------
(* Types                                                                   *)

LEMMA NoOutcomeType == NoOutcome \in [Msgs -> Reasons]
BY DEF NoOutcome, Reasons

\* A request that somebody makes is one of a call or a handler, to a node.
LEMMA RequestFacts ==
  ASSUME TypeOK
  PROVE  /\ call.by # None <=> call \in Requests
         /\ call.rest \in SUBSET Msgs
         /\ call.ok \in SUBSET Msgs
         /\ call.refused \in SUBSET Msgs
         /\ call.by = None => call.rest = {} /\ call.ok = {} /\ call.refused = {}
BY NoneAssumption DEF TypeOK, RpcType, Requests, NoRequest, Callers

LEMMA InitTypeOK == Init => TypeOK
<1> SUFFICES ASSUME Init PROVE TypeOK
  OBVIOUS
<1> USE NoOutcomeType DEF Init
<1>1. AccessType BY DEF AccessType, View!AccessInit, View!AccessType, View!Stages
<1>2. KafkaType BY DEF KafkaType
<1>3. TaskType BY DEF TaskType
<1>4. DrainType BY DEF DrainType
<1>5. RpcType BY DEF RpcType
<1>6. DataType BY DEF DataType
<1>7. HandlersHaveEvents BY DEF HandlersHaveEvents
<1> QED BY <1>1, <1>2, <1>3, <1>4, <1>5, <1>6, <1>7 DEF TypeOK

\* What a step leaves alone keeps its type.
LEMMA TypesUnchanged ==
  ASSUME TypeOK
  PROVE  /\ UNCHANGED accessVars => AccessType'
         /\ UNCHANGED kafkaVars => KafkaType'
         /\ UNCHANGED taskVars => TaskType'
         /\ UNCHANGED drainVars => DrainType'
         /\ UNCHANGED rpcVars => RpcType'
         /\ UNCHANGED dataVars => DataType'
         /\ UNCHANGED <<log, marked, hpc>> => HandlersHaveEvents'
<1>1. UNCHANGED accessVars => AccessType'
  BY DEF TypeOK, AccessType, accessVars, View!AccessType
<1>2. UNCHANGED kafkaVars => KafkaType'
  BY DEF TypeOK, KafkaType, kafkaVars
<1>3. UNCHANGED taskVars => TaskType'
  BY DEF TypeOK, TaskType, taskVars
<1>4. UNCHANGED drainVars => DrainType'
  BY DEF TypeOK, DrainType, drainVars
<1>5. UNCHANGED rpcVars => RpcType'
  BY DEF TypeOK, RpcType, rpcVars
<1>6. UNCHANGED dataVars => DataType'
  BY DEF TypeOK, DataType, dataVars
<1>7. UNCHANGED <<log, marked, hpc>> => HandlersHaveEvents'
  BY DEF TypeOK, HandlersHaveEvents
<1> QED BY <1>1, <1>2, <1>3, <1>4, <1>5, <1>6, <1>7

\* What a log holds, and what appending an event does to it.
LEMMA ElementType ==
  ASSUME NEW S, NEW s \in Seq(S), NEW i \in 1 .. Len(s)
  PROVE  s[i] \in S
OBVIOUS

LEMMA AppendFacts ==
  ASSUME NEW S, NEW s \in Seq(S), NEW e \in S
  PROVE  /\ Append(s, e) \in Seq(S)
         /\ Len(s) \in Nat /\ Len(Append(s, e)) = Len(s) + 1
         /\ \A i \in 1 .. Len(s) : Append(s, e)[i] = s[i]
OBVIOUS

\* The steps of the access service, and discovery.
AccessSide ==
  \/ \E c \in Conns : Connection(c)
  \/ \E n \in Nodes : Node(n)
  \/ \E u \in Users : SessionExpire(u)

\* What they are to AccessView, and what they do to the rest: at most an event
\* is appended to a log, or a node becomes known.
LEMMA AccessSideFrame ==
  ASSUME AccessSide
  PROVE  /\ View!AccessNext \/ UNCHANGED accessVars
         /\ \/ log' = log
            \/ \E p \in Partitions, c \in Conns :
                 log' = [log EXCEPT ![p] = Append(@, [user |-> ConnUser[c], node |-> ConnNode[c]])]
         /\ known' = known \/ \E n \in Nodes : known' = known \cup {n}
         /\ UNCHANGED <<marked, committed, taskVars, drainVars, call, late, pushed, drained,
                        dataVars>>
<1> USE DEF pushVars, kafkaVars, rpcVars
<1>1. ASSUME NEW c \in Conns, Connect(c) \/ ConnectFails(c) \/ Register(c)
      PROVE  View!AccessNext /\ UNCHANGED pushVars
  BY <1>1 DEF Connect, ConnectFails, Register, View!AccessNext, View!Connection
<1>2. ASSUME NEW c \in Conns, Announce(c)
      PROVE  /\ View!AccessNext
             /\ \/ log' = log
                \/ \E p \in Partitions :
                     log' = [log EXCEPT ![p] = Append(@, [user |-> ConnUser[c], node |-> ConnNode[c]])]
             /\ UNCHANGED <<marked, committed, taskVars, drainVars, rpcVars, dataVars>>
  BY <1>2 DEF Announce, View!AccessNext, View!Connection
<1>3. ASSUME NEW n \in Nodes,
             (\E u \in Users : Disconnect(n, u)) \/ ClearSession(n) \/ NodeExits(n)
      PROVE  View!AccessNext /\ UNCHANGED pushVars
  BY <1>3 DEF Disconnect, ClearSession, NodeExits, View!AccessNext, View!Node
<1>4. ASSUME NEW u \in Users, SessionExpire(u)
      PROVE  View!AccessNext /\ UNCHANGED pushVars
  BY <1>4 DEF SessionExpire, View!AccessNext
<1>5. ASSUME NEW n \in Nodes, Discover(n)
      PROVE  /\ known' = known \cup {n}
             /\ UNCHANGED <<accessVars, kafkaVars, taskVars, drainVars, call, late, pushed,
                            drained, dataVars>>
  BY <1>5 DEF Discover
<1> QED BY <1>1, <1>2, <1>3, <1>4, <1>5 DEF AccessSide, Connection, Node

\* What AccessView does keeps its type.
LEMMA ViewType ==
  ASSUME View!AccessType, View!AccessNext
  PROVE  View!AccessType'
<1> USE ConnAssumption DEF View!AccessType, View!Moves, View!Stages
<1>1. ASSUME NEW c \in Conns, View!Connection(c) PROVE View!AccessType'
  <2>1. CASE View!Connect(c) BY <2>1 DEF View!Connect
  <2>2. CASE View!ConnectFails(c)
    <3>1. session' \in [Users -> Nodes \cup {None}]
      BY <2>2 DEF View!ConnectFails
    <3> QED BY <2>2, <3>1 DEF View!ConnectFails
  <2>3. CASE View!Announce(c) BY <2>3 DEF View!Announce
  <2>4. CASE View!Register(c) BY <2>4 DEF View!Register
  <2> QED BY <1>1, <2>1, <2>2, <2>3, <2>4 DEF View!Connection
<1>2. ASSUME NEW n \in Nodes, View!Node(n) PROVE View!AccessType'
  <2>1. ASSUME NEW u \in Users, View!Disconnect(n, u) PROVE View!AccessType'
    BY <2>1 DEF View!Disconnect
  <2>2. CASE View!ClearSession(n)
    <3>1. clearing[n] \in Users
      BY <2>2 DEF View!ClearSession
    <3> QED BY <2>2, <3>1 DEF View!ClearSession
  <2>3. CASE View!Exit(n)
    <3>1. /\ session' \in [Users -> Nodes \cup {None}]
          /\ stage' \in [Conns -> View!Stages]
      BY <2>3 DEF View!Exit
    <3> QED BY <2>3, <3>1 DEF View!Exit
  <2> QED BY <1>2, <2>1, <2>2, <2>3 DEF View!Node
<1>3. ASSUME NEW u \in Users, View!SessionExpire(u) PROVE View!AccessType'
  BY <1>3 DEF View!SessionExpire
<1> QED BY <1>1, <1>2, <1>3 DEF View!AccessNext

LEMMA AccessSideTypeOK ==
  ASSUME TypeOK, AccessSide
  PROVE  TypeOK'
<1>1. AccessType'
  <2>1. View!AccessNext => AccessType'
    BY ViewType DEF TypeOK, AccessType
  <2> QED BY <2>1, AccessSideFrame, TypesUnchanged
<1>2. KafkaType' /\ HandlersHaveEvents'
  <2>1. CASE log' = log
    BY <2>1, AccessSideFrame, TypesUnchanged DEF kafkaVars, drainVars
  <2>2. ASSUME NEW p \in Partitions, NEW c \in Conns,
               log' = [log EXCEPT ![p] = Append(@, [user |-> ConnUser[c], node |-> ConnNode[c]])]
        PROVE  KafkaType' /\ HandlersHaveEvents'
    <3>1. KafkaType /\ DrainType /\ HandlersHaveEvents
      BY DEF TypeOK
    <3> DEFINE Events == [user : Users, node : Nodes]
               e == [user |-> ConnUser[c], node |-> ConnNode[c]]
    <3>2. ASSUME NEW q \in Partitions
          PROVE  /\ log'[q] \in Seq(Events)
                 /\ marked[q] <= Len(log'[q])
                 /\ hpc[q] # "idle" => marked[q] < Len(log'[q])
      <4>1. /\ log[q] \in Seq(Events) /\ Len(log[q]) \in Nat /\ marked[q] \in Nat
            /\ marked[q] <= Len(log[q])
            /\ hpc[q] # "idle" => marked[q] < Len(log[q])
        <5>1. log[q] \in Seq(Events) /\ marked[q] \in Nat
          BY <3>1 DEF KafkaType
        <5>2. Len(log[q]) \in Nat
          BY <5>1
        <5> QED BY <3>1, <5>1, <5>2 DEF KafkaType, HandlersHaveEvents
      <4>2. CASE q # p
        BY <2>2, <3>1, <4>1, <4>2 DEF KafkaType
      <4>3. CASE q = p
        <5>1. e \in Events
          BY ConnAssumption
        <5>2. log'[q] = Append(log[q], e)
          BY <2>2, <3>1, <4>3 DEF KafkaType
        <5>3. log'[q] \in Seq(Events) /\ Len(log'[q]) = Len(log[q]) + 1
          BY <4>1, <5>1, <5>2, AppendFacts
        <5> QED BY <4>1, <5>3
      <4> QED BY <4>2, <4>3
    <3>3. log' \in [Partitions -> Seq(Events)]
      BY <2>2, <3>1, <3>2 DEF KafkaType
    <3>4. marked' = marked /\ committed' = committed /\ hpc' = hpc
      BY AccessSideFrame DEF drainVars
    <3>5. KafkaType'
      BY <3>1, <3>2, <3>3, <3>4 DEF KafkaType
    <3>6. HandlersHaveEvents'
      BY <3>2, <3>4 DEF HandlersHaveEvents
    <3> QED BY <3>5, <3>6
  <2> QED BY <2>1, <2>2, AccessSideFrame
<1>3. RpcType'
  BY AccessSideFrame DEF TypeOK, RpcType
<1> QED BY <1>1, <1>2, <1>3, AccessSideFrame, TypesUnchanged DEF TypeOK

\* The nodes' loop and commits.
LEMMA AcceptType ==
  ASSUME TypeOK, NEW x, NEW m \in Msgs, Accept(x, m) \/ UNCHANGED <<pushed, drained>>
  PROVE  pushed' \in SUBSET Msgs /\ drained' \in SUBSET Msgs
BY DEF TypeOK, RpcType, Accept

LEMMA SharedTypeOK ==
  ASSUME TypeOK,
         \/ Deliver
         \/ DeliverLate
         \/ \E p \in Partitions : CommitOffset(p)
  PROVE  TypeOK'
<1>1. CASE Deliver
  <2>1. PICK m \in Msgs :
          /\ \/ call' = [call EXCEPT !.rest = @ \ {m}, !.ok = @ \cup {m}]
             \/ call' = [call EXCEPT !.rest = @ \ {m}, !.refused = @ \cup {m}]
          /\ Accept(call.by, m) \/ UNCHANGED <<pushed, drained>>
          /\ UNCHANGED <<accessVars, kafkaVars, taskVars, drainVars, known, late, dataVars>>
    BY <1>1 DEF Deliver
  <2>2. call \in Requests
    BY <1>1, RequestFacts DEF Deliver
  <2>3. call' \in Requests
    BY <2>1, <2>2 DEF Requests
  <2>4. pushed' \in SUBSET Msgs /\ drained' \in SUBSET Msgs
    BY <2>1, AcceptType
  <2>5. RpcType'
    BY <2>1, <2>3, <2>4 DEF TypeOK, RpcType
  <2> QED BY <2>1, <2>5, TypesUnchanged DEF TypeOK, kafkaVars, drainVars
<1>2. CASE DeliverLate
  <2>1. PICK r \in late :
          /\ late' = late \ {r}
          /\ Accept(r[1], r[3]) \/ UNCHANGED <<pushed, drained>>
          /\ UNCHANGED <<accessVars, kafkaVars, taskVars, drainVars, known, call, dataVars>>
    BY <1>2 DEF DeliverLate
  <2>2. r[3] \in Msgs
    BY <2>1 DEF TypeOK, RpcType
  <2>3. pushed' \in SUBSET Msgs /\ drained' \in SUBSET Msgs
    BY <2>1, <2>2, AcceptType
  <2>4. RpcType'
    BY <2>1, <2>3 DEF TypeOK, RpcType
  <2> QED BY <2>1, <2>4, TypesUnchanged DEF TypeOK, kafkaVars, drainVars
<1>3. ASSUME NEW p \in Partitions, CommitOffset(p) PROVE TypeOK'
  <2>1. /\ committed' \in [Partitions -> Nat]
        /\ \A q \in Partitions : committed'[q] <= marked[q]
    BY <1>3 DEF TypeOK, KafkaType, CommitOffset
  <2>2. KafkaType'
    BY <1>3, <2>1 DEF TypeOK, KafkaType, CommitOffset
  <2> QED BY <1>3, <2>2, TypesUnchanged DEF TypeOK, CommitOffset, drainVars
<1> QED BY <1>1, <1>2, <1>3

\* A call's locals.
LEMMA EndType ==
  ASSUME TypeOK, NEW t \in Tasks, NEW r \in {"done", "failed"}, End(t, r)
  PROVE  TaskType'
<1>1. mask' \in [Tasks -> [Msgs -> Reasons]]
  BY NoOutcomeType DEF TypeOK, TaskType, End
<1> QED BY <1>1 DEF TypeOK, TaskType, End

\* A request given up on leaves messages of a caller to a node.
LEMMA GiveUpType ==
  ASSUME TypeOK, GiveUp
  PROVE  late' \in SUBSET (Callers \X Nodes \X Msgs)
<1>1. CASE call \in Requests
  BY <1>1 DEF TypeOK, RpcType, Requests, GiveUp
<1>2. CASE call = NoRequest
  BY <1>2 DEF TypeOK, RpcType, NoRequest, GiveUp
<1> QED BY <1>1, <1>2 DEF TypeOK, RpcType

\* No row gets a status there is not.
LEMMA InsertTypes ==
  ASSUME TypeOK
  PROVE  /\ \A t \in Tasks : InsertRows(t) => rows' \in [Msgs -> SUBSET {"pending", "sent"}]
         /\ \A S : Insert(S) => store' \in [Msgs -> {"none", "pending", "delivered"}]
         /\ \A S : MarkDelivered(S) => store' \in [Msgs -> {"none", "pending", "delivered"}]
BY DEF TypeOK, DataType, InsertRows, Insert, MarkDelivered

\* PushToUser moves no offset and no handler.
LEMMA PushToUserFrame ==
  ASSUME NEW t \in Tasks, PushToUser(t)
  PROVE  /\ UNCHANGED <<accessVars, kafkaVars, drainVars>>
         /\ UNCHANGED <<known, pushed, drained>>
BY DEF PushToUser, TooMany, Save, SaveFails, Lookup, Grouped, SendGroup, SendSucceeds,
       SendFails, SendPanics, Archive, ArchiveFails, UpdateRow, UpdateRowFails, Return,
       rpcVars

LEMMA PushToUserTaskType ==
  ASSUME TypeOK, NEW t \in Tasks, PushToUser(t)
  PROVE  TaskType'
<1>1. TaskType
  BY DEF TypeOK
<1> USE DEF TaskType
<1>2. CASE TooMany(t) \/ SaveFails(t) \/ SendPanics(t) \/ ArchiveFails(t)
           \/ UpdateRowFails(t) \/ Return(t)
  BY <1>2, EndType DEF TooMany, SaveFails, SendPanics, ArchiveFails, UpdateRowFails, Return
<1>3. CASE Save(t)
  BY <1>1, <1>3, NoOutcomeType, TasksAssumption DEF Save
<1>4. ASSUME NEW m \in Msgs, Lookup(t, m) PROVE TaskType'
  <2>1. todo' \in [Tasks -> SUBSET Msgs] /\ tpc' = tpc
    BY <1>1, <1>4 DEF Lookup
  <2>2. CASE \E r \in Reasons : Ungrouped(t, m, r)
    BY <1>1, <2>1, <2>2 DEF Ungrouped
  <2>3. ASSUME NEW n \in Nodes, groups' = [groups EXCEPT ![t][n] = @ \cup {m}], mask' = mask
        PROVE  TaskType'
    BY <1>1, <2>1, <2>3
  <2>4. MsgUser[m] # None /\ session[MsgUser[m]] # None => session[MsgUser[m]] \in Nodes
    BY MsgsAssumption DEF TypeOK, AccessType, View!AccessType
  <2> QED BY <1>4, <2>2, <2>3, <2>4 DEF Lookup, Reasons
<1>5. CASE Grouped(t) BY <1>1, <1>5 DEF Grouped
<1>6. ASSUME NEW n \in Nodes, SendGroup(t, n) PROVE TaskType'
  BY <1>1, <1>6 DEF SendGroup
<1>7. CASE SendSucceeds(t)
  BY <1>1, <1>7 DEF SendSucceeds, Reasons
<1>8. CASE SendFails(t) BY <1>1, <1>8 DEF SendFails, taskVars
<1>9. CASE Archive(t) BY <1>1, <1>9, TasksAssumption DEF Archive
<1>10. ASSUME NEW m \in Msgs, UpdateRow(t, m) PROVE TaskType'
  BY <1>1, <1>10 DEF UpdateRow
<1> QED BY <1>2, <1>3, <1>4, <1>5, <1>6, <1>7, <1>8, <1>9, <1>10 DEF PushToUser

LEMMA PushToUserRpcType ==
  ASSUME TypeOK, NEW t \in Tasks, PushToUser(t)
  PROVE  RpcType'
<1>1. ASSUME NEW n \in Nodes, SendGroup(t, n)
      PROVE  call' \in Requests \cup {NoRequest} /\ late' = late
  <2>1. groups[t][n] \in SUBSET Msgs
    BY DEF TypeOK, TaskType
  <2> QED BY <1>1, <2>1 DEF TypeOK, RpcType, SendGroup, Request, Requests, Callers
<1>2. CASE SendSucceeds(t) \/ SendPanics(t)
  BY <1>2 DEF TypeOK, RpcType, SendSucceeds, SendPanics
<1>3. CASE SendFails(t)
  BY <1>3, GiveUpType DEF TypeOK, RpcType, SendFails, CallFails
<1>4. CASE UNCHANGED rpcVars
  BY <1>4, TypesUnchanged
<1>5. CASE \E n \in Nodes : SendGroup(t, n)
  BY <1>1, <1>5, PushToUserFrame DEF TypeOK, RpcType
<1> QED
  BY <1>2, <1>3, <1>4, <1>5 DEF PushToUser, TooMany, Save, SaveFails, Lookup, Grouped, Archive,
     ArchiveFails, UpdateRow, UpdateRowFails, Return

LEMMA PushToUserDataType ==
  ASSUME TypeOK, NEW t \in Tasks, PushToUser(t)
  PROVE  DataType'
<1>1. DataType
  BY DEF TypeOK
<1>2. CASE Save(t) \/ SaveFails(t)
  BY <1>1, <1>2, InsertTypes DEF Save, SaveFails, DataType
<1>3. CASE Archive(t) \/ ArchiveFails(t)
  BY <1>1, <1>3, InsertTypes DEF Archive, ArchiveFails, DataType
<1>4. ASSUME NEW m \in Msgs, UpdateRow(t, m) PROVE DataType'
  BY <1>1, <1>4 DEF UpdateRow, DataType, Status
<1>5. CASE UNCHANGED dataVars
  BY <1>5, TypesUnchanged
<1> QED
  BY <1>2, <1>3, <1>4, <1>5 DEF PushToUser, TooMany, Lookup, Grouped, SendGroup, SendSucceeds,
     SendFails, SendPanics, UpdateRowFails, Return, dataVars

LEMMA PushToUserTypeOK ==
  ASSUME TypeOK, NEW t \in Tasks, PushToUser(t)
  PROVE  TypeOK'
<1>1. UNCHANGED <<log, marked, hpc>>
  BY PushToUserFrame DEF kafkaVars, drainVars
<1> QED
  BY <1>1, PushToUserFrame, PushToUserTaskType, PushToUserRpcType, PushToUserDataType,
     TypesUnchanged DEF TypeOK

\* A handler moves neither the log nor the calls; the offsets only when it ends.
LEMMA HandlerDrainType ==
  ASSUME TypeOK, NEW p \in Partitions, Handler(p), ~ PagePanics(p)
  PROVE  DrainType'
<1>1. DrainType
  BY DEF TypeOK
<1> USE DEF DrainType
<1>2. CASE UserOnline(p)
  <2>1. Pending(Event(p).user) \in SUBSET Msgs
    BY DEF Pending
  <2> QED BY <1>1, <1>2, <2>1 DEF UserOnline
<1>3. CASE Retrieve(p)
  <2>1. PICK P \in SUBSET Msgs : page' = [page EXCEPT ![p] = P]
    BY <1>3 DEF Retrieve, Pending
  <2> QED BY <1>1, <1>3, <2>1 DEF Retrieve
<1>4. CASE RetrieveFails(p) BY <1>1, <1>4 DEF RetrieveFails
<1>5. CASE SendPage(p) BY <1>1, <1>5 DEF SendPage, drainVars
<1>6. CASE PageAccepted(p) BY <1>1, <1>6, RequestFacts DEF PageAccepted
<1>7. CASE PageFails(p) BY <1>1, <1>7 DEF PageFails
<1>8. CASE Acknowledge(p)
  <2>1. PICK h \in {"retrieve", "handled"} : hpc' = [hpc EXCEPT ![p] = h]
    BY <1>8 DEF Acknowledge
  <2>2. cursor' \in [Partitions -> Nat]
    <3>1. ASSUME NEW m \in page[p] PROVE m \in Nat
      BY <1>1, MsgsAssumption
    <3> QED BY <1>1, <1>8, <3>1 DEF Acknowledge
  <2> QED BY <1>1, <1>8, <2>1, <2>2 DEF Acknowledge
<1>9. CASE AcknowledgeFails(p) BY <1>1, <1>9 DEF AcknowledgeFails
<1>10. CASE MarkMessage(p) BY <1>1, <1>10 DEF MarkMessage
<1> QED BY <1>2, <1>3, <1>4, <1>5, <1>6, <1>7, <1>8, <1>9, <1>10 DEF Handler

\* An event is marked only when there is one, so no offset passes the log.
LEMMA HandlerKafkaType ==
  ASSUME TypeOK, CallersWait, NEW p \in Partitions, Handler(p), ~ PagePanics(p)
  PROVE  KafkaType' /\ HandlersHaveEvents'
<1>1. KafkaType /\ DrainType /\ HandlersHaveEvents
  BY DEF TypeOK
<1>2. ASSUME NEW q \in Partitions
      PROVE  marked[q] \in Nat /\ committed[q] \in Nat /\ Len(log[q]) \in Nat
  <2>1. log[q] \in Seq([user : Users, node : Nodes])
    BY <1>1 DEF KafkaType
  <2> QED BY <1>1, <2>1 DEF KafkaType
<1>3. CASE MarkMessage(p)
  <2>1. marked[p] < Len(log[p])
    BY <1>1, <1>3 DEF MarkMessage, HandlersHaveEvents
  <2>2. /\ marked' = [marked EXCEPT ![p] = @ + 1]
        /\ hpc' = [hpc EXCEPT ![p] = "idle"]
        /\ log' = log /\ committed' = committed
    BY <1>3 DEF MarkMessage
  <2>3. /\ log' \in [Partitions -> Seq([user : Users, node : Nodes])]
        /\ marked' \in [Partitions -> Nat] /\ committed' \in [Partitions -> Nat]
    <3>1. marked[p] + 1 \in Nat
      BY <1>2
    <3>2. /\ log \in [Partitions -> Seq([user : Users, node : Nodes])]
          /\ marked \in [Partitions -> Nat] /\ committed \in [Partitions -> Nat]
      BY <1>1 DEF KafkaType
    <3> QED BY <2>2, <3>1, <3>2
  <2>4. ASSUME NEW q \in Partitions
        PROVE  committed'[q] <= marked'[q] /\ marked'[q] <= Len(log'[q])
    <3>1. committed[q] <= marked[q] /\ marked[q] <= Len(log[q])
      BY <1>1 DEF KafkaType
    <3>2. marked'[q] = IF q = p THEN marked[q] + 1 ELSE marked[q]
      BY <1>1, <2>2 DEF KafkaType
    <3> QED BY <1>2, <2>1, <2>2, <3>1, <3>2
  <2>5. HandlersHaveEvents'
    BY <1>1, <1>2, <2>2 DEF KafkaType, DrainType, HandlersHaveEvents
  <2> QED BY <2>3, <2>4, <2>5 DEF KafkaType
<1>4. CASE UserOnline(p)
  <2>1. HandlersHaveEvents'
    BY <1>1, <1>4 DEF UserOnline, DrainType, HandlersHaveEvents, kafkaVars
  <2> QED BY <1>4, <2>1, TypesUnchanged DEF UserOnline
<1>5. CASE UNCHANGED kafkaVars /\ hpc[p] # "idle"
           /\ \A q \in Partitions : q # p => hpc'[q] = hpc[q]
  <2>1. HandlersHaveEvents'
    BY <1>1, <1>5 DEF HandlersHaveEvents, kafkaVars
  <2> QED BY <1>5, <2>1, TypesUnchanged
<1>6. CASE SendPage(p)
  BY <1>6, TypesUnchanged DEF SendPage, kafkaVars, drainVars
<1>7. CASE PageAccepted(p) \/ PageFails(p)
  <2>1. hpc[p] # "idle" /\ UNCHANGED kafkaVars
    BY <1>7, RequestFacts DEF PageAccepted, PageFails, CallersWait, AllAccepted, AllRefused,
       Answered, CallFails
  <2>2. \A q \in Partitions : q # p => hpc'[q] = hpc[q]
    BY <1>1, <1>7 DEF PageAccepted, PageFails, DrainType
  <2> QED BY <1>5, <2>1, <2>2
<1>8. CASE Retrieve(p) \/ RetrieveFails(p) \/ Acknowledge(p) \/ AcknowledgeFails(p)
  <2>1. hpc[p] # "idle" /\ UNCHANGED kafkaVars
    BY <1>8 DEF Retrieve, RetrieveFails, Acknowledge, AcknowledgeFails
  <2>2. \A q \in Partitions : q # p => hpc'[q] = hpc[q]
    BY <1>1, <1>8 DEF Retrieve, RetrieveFails, Acknowledge, AcknowledgeFails, DrainType
  <2> QED BY <1>5, <2>1, <2>2
<1> QED BY <1>3, <1>4, <1>6, <1>7, <1>8 DEF Handler

LEMMA HandlerRpcType ==
  ASSUME TypeOK, NEW p \in Partitions, Handler(p), ~ PagePanics(p)
  PROVE  RpcType' /\ DataType'
<1>1. RpcType /\ DrainType /\ KafkaType /\ HandlersHaveEvents /\ DataType
  BY DEF TypeOK
<1>2. CASE SendPage(p)
  <2>1. page[p] \in SUBSET Msgs
    BY <1>1 DEF DrainType
  <2>2. Event(p) \in [user : Users, node : Nodes]
    <3>1. /\ log[p] \in Seq([user : Users, node : Nodes])
          /\ marked[p] \in Nat /\ marked[p] < Len(log[p])
      BY <1>1, <1>2 DEF SendPage, KafkaType, HandlersHaveEvents
    <3>2. marked[p] + 1 \in 1 .. Len(log[p])
      BY <3>1
    <3> QED BY <3>1, <3>2, ElementType DEF Event
  <2>3. call' \in Requests
    BY <1>2, <2>1, <2>2 DEF SendPage, Request, Requests, Callers
  <2> QED BY <1>1, <1>2, <2>3, TypesUnchanged DEF SendPage, RpcType
<1>3. CASE PageAccepted(p)
  BY <1>1, <1>3, TypesUnchanged DEF PageAccepted, RpcType
<1>4. CASE PageFails(p)
  <2>1. late' \in SUBSET (Callers \X Nodes \X Msgs) /\ call' \in Requests \cup {NoRequest}
    BY <1>1, <1>4, GiveUpType DEF PageFails, RpcType, CallFails
  <2> QED BY <1>1, <1>4, <2>1, TypesUnchanged DEF PageFails, RpcType
<1>5. CASE Acknowledge(p) \/ AcknowledgeFails(p)
  BY <1>1, <1>5, InsertTypes, TypesUnchanged DEF Acknowledge, AcknowledgeFails, DataType
<1>6. CASE UNCHANGED <<rpcVars, dataVars>>
  BY <1>6, TypesUnchanged
<1> QED
  BY <1>2, <1>3, <1>4, <1>5, <1>6 DEF Handler, UserOnline, Retrieve, RetrieveFails, MarkMessage

LEMMA RestartTypeOK ==
  ASSUME TypeOK, Restart, GiveUp
  PROVE  TypeOK'
<1>1. AccessType /\ KafkaType /\ TaskType /\ RpcType /\ DataType
  BY DEF TypeOK
<1>2. KafkaType'
  <2>1. UNCHANGED <<log, committed>> /\ marked' = committed
    BY DEF Restart
  <2>2. ASSUME NEW p \in Partitions
        PROVE  committed'[p] <= marked'[p] /\ marked'[p] <= Len(log'[p])
    <3>1. /\ log[p] \in Seq([user : Users, node : Nodes])
          /\ committed[p] \in Nat /\ marked[p] \in Nat
          /\ committed[p] <= marked[p] /\ marked[p] <= Len(log[p])
      BY <1>1 DEF KafkaType
    <3>2. Len(log[p]) \in Nat
      BY <3>1
    <3> QED BY <2>1, <3>1, <3>2
  <2> QED BY <1>1, <2>1, <2>2 DEF KafkaType
<1>3. TaskType'
  BY <1>1, NoOutcomeType DEF TaskType, Restart
<1>4. DrainType'
  BY DEF DrainType, Restart
<1>5. RpcType'
  BY <1>1, GiveUpType DEF RpcType, Restart
<1>6. HandlersHaveEvents'
  BY DEF HandlersHaveEvents, Restart
<1> QED
  BY <1>2, <1>3, <1>4, <1>5, <1>6, TypesUnchanged DEF TypeOK, Restart

\* A panic is a restart that gives no request up.
LEMMA PanicIsRestart ==
  ASSUME NEW p \in Partitions, PagePanics(p)
  PROVE  Restart /\ GiveUp
BY DEF PagePanics, GiveUp

LEMMA HandlerTypeOK ==
  ASSUME TypeOK, CallersWait, NEW p \in Partitions, Handler(p)
  PROVE  TypeOK'
<1>1. CASE PagePanics(p)
  BY <1>1, PanicIsRestart, RestartTypeOK
<1>2. CASE ~ PagePanics(p)
  <2>1. UNCHANGED <<accessVars, taskVars>>
    BY <1>2 DEF Handler, UserOnline, Retrieve, RetrieveFails, SendPage, PageAccepted, PageFails,
       Acknowledge, AcknowledgeFails, MarkMessage
  <2> QED
    BY <1>2, <2>1, HandlerDrainType, HandlerKafkaType, HandlerRpcType, TypesUnchanged DEF TypeOK
<1> QED BY <1>1, <1>2

-----------------------------------------------------------------------------
(* Whoever calls waits                                                     *)

\* The steps by which a caller stops waiting, or others move, keep the rest
\* waiting: a call moves itself only, and so does a handler.
LEMMA NextCallersWait ==
  ASSUME TypeOK, CallersWait, [Next]_vars
  PROVE  CallersWait'
<1> USE NoneAssumption, TasksAssumption DEF CallersWait
<1>1. TaskType /\ DrainType
  BY DEF TypeOK
<1>2. CASE call'.by = None
  BY <1>2
<1>3. CASE call'.by = call.by /\ UNCHANGED <<tpc, hpc>>
  BY <1>3
<1>4. CASE AccessSide
  BY <1>3, <1>4, AccessSideFrame DEF taskVars, drainVars
<1>5. CASE DeliverLate \/ \E p \in Partitions : CommitOffset(p)
  BY <1>3, <1>5 DEF DeliverLate, CommitOffset, taskVars, drainVars, rpcVars
<1>6. CASE Deliver
  <2>1. call'.by = call.by
    BY <1>6, RequestFacts DEF Deliver, Requests
  <2> QED BY <1>3, <1>6, <2>1 DEF Deliver, taskVars, drainVars
<1>7. ASSUME NEW t \in Tasks, PushToUser(t) PROVE CallersWait'
  <2>1. CASE SendSucceeds(t) \/ SendFails(t) \/ SendPanics(t)
    BY <1>2, <2>1 DEF SendSucceeds, SendFails, SendPanics, NoRequest
  <2>2. ASSUME NEW n \in Nodes, SendGroup(t, n) PROVE CallersWait'
    BY <1>1, <2>2 DEF SendGroup, Request, drainVars, TaskType
  <2>3. ASSUME call.by # t, call' = call, hpc' = hpc,
               \A s \in Tasks : s # t => tpc'[s] = tpc[s]
        PROVE  CallersWait'
    BY <2>3
  <2>4. CASE TooMany(t) \/ Save(t) \/ SaveFails(t) \/ Grouped(t) \/ Archive(t)
             \/ ArchiveFails(t) \/ UpdateRowFails(t) \/ Return(t)
    <3>1. call.by # t /\ call' = call /\ hpc' = hpc
      BY <2>4 DEF TooMany, Save, SaveFails, Grouped, Archive, ArchiveFails, UpdateRowFails, Return,
         Sent, drainVars, rpcVars
    <3>2. \A s \in Tasks : s # t => tpc'[s] = tpc[s]
      BY <1>1, <2>4 DEF TooMany, Save, SaveFails, Grouped, Archive, ArchiveFails, UpdateRowFails,
         Return, End, TaskType
    <3> QED BY <2>3, <3>1, <3>2
  <2>5. CASE \E m \in Msgs : Lookup(t, m) \/ UpdateRow(t, m)
    BY <1>3, <2>5 DEF Lookup, UpdateRow, drainVars, rpcVars
  <2> QED BY <1>7, <2>1, <2>2, <2>4, <2>5 DEF PushToUser
<1>8. ASSUME NEW p \in Partitions, Handler(p) PROVE CallersWait'
  <2>1. CASE PagePanics(p)
    BY <1>2, <2>1 DEF PagePanics, Restart, NoRequest
  <2>2. CASE PageAccepted(p)
    BY <1>2, <2>2 DEF PageAccepted, NoRequest
  <2>3. CASE PageFails(p)
    BY <1>2, <2>3 DEF PageFails, NoRequest
  <2>4. CASE SendPage(p)
    BY <1>1, <2>4 DEF SendPage, Request, drainVars, taskVars
  <2>5. CASE UserOnline(p) \/ Retrieve(p) \/ RetrieveFails(p) \/ Acknowledge(p)
             \/ AcknowledgeFails(p) \/ MarkMessage(p)
    <3>1. call.by # p /\ call' = call /\ tpc' = tpc
      BY <2>5 DEF UserOnline, Retrieve, RetrieveFails, Acknowledge, AcknowledgeFails, MarkMessage,
         taskVars, rpcVars
    <3>2. \A q \in Partitions : q # p => hpc'[q] = hpc[q]
      BY <1>1, <2>5 DEF UserOnline, Retrieve, RetrieveFails, Acknowledge, AcknowledgeFails,
         MarkMessage, DrainType
    <3> QED BY <3>1, <3>2
  <2> QED BY <1>8, <2>1, <2>2, <2>3, <2>4, <2>5 DEF Handler
<1>9. CASE Crash
  BY <1>2, <1>9 DEF Crash, Restart, NoRequest
<1>10. CASE UNCHANGED vars
  BY <1>3, <1>10 DEF vars, taskVars, drainVars, rpcVars
<1> QED
  BY <1>4, <1>5, <1>6, <1>7, <1>8, <1>9, <1>10 DEF Next, AccessSide

-----------------------------------------------------------------------------
(* Type correctness                                                        *)

LEMMA InitCallersWait == Init => CallersWait
BY NoneAssumption DEF Init, CallersWait, NoRequest

LEMMA NextTypeOK ==
  ASSUME TypeOK, CallersWait, [Next]_vars
  PROVE  TypeOK'
<1>1. CASE Crash
  BY <1>1, RestartTypeOK DEF Crash
<1>2. CASE UNCHANGED vars
  BY <1>2, TypesUnchanged DEF TypeOK, vars, kafkaVars, drainVars
<1> QED
  BY <1>1, <1>2, AccessSideTypeOK, SharedTypeOK, PushToUserTypeOK, HandlerTypeOK
     DEF Next, AccessSide

LEMMA TypesAndWaiting == Spec => [](TypeOK /\ CallersWait)
<1>1. Init => TypeOK /\ CallersWait
  BY InitTypeOK, InitCallersWait
<1>2. TypeOK /\ CallersWait /\ [Next]_vars => (TypeOK /\ CallersWait)'
  BY NextTypeOK, NextCallersWait
<1> QED BY <1>1, <1>2, PTL DEF Spec

\* Every reachable state is well typed; in particular no offset passes the end
\* of the log and a running handler has an event (ConsumeClaim, auto-commit).
THEOREM TypeCorrect == Spec => []TypeOK
BY TypesAndWaiting, PTL

\* The manager's mutex is held only by a caller that waits for its answer,
\* whatever fails, panics, times out or restarts (AccessNodeManager.SendToUser).
THEOREM LockReleased == Spec => []LockHolderWaits
<1>1. TypeOK /\ CallersWait => LockHolderWaits
  BY RequestFacts DEF TypeOK, RpcType, Requests, NoRequest, Callers, CallersWait, LockHolderWaits
<1> QED
  BY <1>1, TypesAndWaiting, PTL

-----------------------------------------------------------------------------
(* What is recorded was accepted                                           *)

\* A step of the specification, by actor; the access side and the rest move
\* neither records nor anybody's memory of an answer.
LEMMA OneActor ==
  ASSUME [Next]_vars
  PROVE  \/ UNCHANGED <<taskVars, drainVars, call, late, pushed, drained, dataVars>>
         \/ Deliver \/ DeliverLate
         \/ \E t \in Tasks : PushToUser(t)
         \/ \E p \in Partitions : Handler(p) /\ ~ PagePanics(p)
         \/ Restart /\ GiveUp
<1>1. CASE AccessSide
  BY <1>1, AccessSideFrame
<1>2. CASE \E p \in Partitions : CommitOffset(p)
  BY <1>2 DEF CommitOffset, rpcVars
<1>3. CASE UNCHANGED vars
  BY <1>3 DEF vars, rpcVars
<1>4. CASE Crash BY <1>4 DEF Crash
<1>5. CASE \E p \in Partitions : PagePanics(p) BY <1>5, PanicIsRestart
<1> QED BY <1>1, <1>2, <1>3, <1>4, <1>5 DEF Next, AccessSide

\* Nothing is ever taken out of what the nodes accepted.
LEMMA AcceptedGrows ==
  ASSUME [Next]_vars
  PROVE  pushed \subseteq pushed' /\ drained \subseteq drained'
<1>1. CASE UNCHANGED <<pushed, drained>>
  BY <1>1
<1>2. CASE Deliver BY <1>2 DEF Deliver, Accept
<1>3. CASE DeliverLate BY <1>3 DEF DeliverLate, Accept
<1>4. ASSUME NEW t \in Tasks, PushToUser(t) PROVE UNCHANGED <<pushed, drained>>
  BY <1>4, PushToUserFrame
<1>5. ASSUME NEW p \in Partitions, Handler(p), ~ PagePanics(p)
      PROVE  UNCHANGED <<pushed, drained>>
  BY <1>5 DEF Handler, UserOnline, Retrieve, RetrieveFails, SendPage, PageAccepted, PageFails,
     Acknowledge, AcknowledgeFails, MarkMessage, rpcVars
<1>6. CASE Restart BY <1>6 DEF Restart
<1> QED BY <1>1, <1>2, <1>3, <1>4, <1>5, <1>6, OneActor

\* The node's loop counts a message as accepted when it accepts it.
LEMMA AnswersAreTrueStep ==
  ASSUME TypeOK, AnswersAreTrue, [Next]_vars
  PROVE  AnswersAreTrue'
<1> USE TasksAssumption, NoneAssumption DEF AnswersAreTrue
<1>1. CASE call' = call \/ call'.ok = {}
  BY <1>1, AcceptedGrows
<1>2. CASE Deliver
  <2>1. PICK m \in Msgs :
          \/ /\ Accept(call.by, m)
             /\ call' = [call EXCEPT !.rest = @ \ {m}, !.ok = @ \cup {m}]
          \/ /\ call' = [call EXCEPT !.rest = @ \ {m}, !.refused = @ \cup {m}]
             /\ UNCHANGED <<pushed, drained>>
    BY <1>2 DEF Deliver
  <2>2. call \in Requests
    BY <1>2, RequestFacts DEF Deliver
  <2>3. CASE Accept(call.by, m) /\ call' = [call EXCEPT !.rest = @ \ {m}, !.ok = @ \cup {m}]
    <3>1. call'.by = call.by /\ call'.ok = call.ok \cup {m}
      BY <2>2, <2>3 DEF Requests
    <3> QED BY <2>3, <3>1 DEF Accept
  <2>4. CASE call' = [call EXCEPT !.rest = @ \ {m}, !.refused = @ \cup {m}]
    <3>1. call'.by = call.by /\ call'.ok = call.ok
      BY <2>2, <2>4 DEF Requests
    <3> QED BY <3>1, AcceptedGrows
  <2> QED BY <2>1, <2>3, <2>4
<1>3. CASE DeliverLate BY <1>1, <1>3 DEF DeliverLate
<1>4. ASSUME NEW t \in Tasks, PushToUser(t) PROVE call' = call \/ call'.ok = {}
  <2>1. CASE \E n \in Nodes : SendGroup(t, n)
    BY <2>1 DEF SendGroup, Request
  <2>2. CASE SendSucceeds(t) \/ SendFails(t) \/ SendPanics(t)
    BY <2>2 DEF SendSucceeds, SendFails, SendPanics, NoRequest
  <2>3. CASE UNCHANGED rpcVars
    BY <2>3 DEF rpcVars
  <2> QED
    BY <1>4, <2>1, <2>2, <2>3 DEF PushToUser, TooMany, Save, SaveFails, Lookup, Grouped, Archive,
       ArchiveFails, UpdateRow, UpdateRowFails, Return
<1>5. ASSUME NEW p \in Partitions, Handler(p), ~ PagePanics(p)
      PROVE  call' = call \/ call'.ok = {}
  BY <1>5 DEF Handler, UserOnline, Retrieve, RetrieveFails, SendPage, PageAccepted, PageFails,
     Acknowledge, AcknowledgeFails, MarkMessage, Request, NoRequest, rpcVars
<1>6. CASE Restart BY <1>1, <1>6 DEF Restart, NoRequest
<1> QED BY <1>1, <1>2, <1>3, <1>4, <1>5, <1>6, OneActor

\* Only SendSucceeds notes a message as sent, and the request accepted it.
LEMMA OutcomesAreTrueStep ==
  ASSUME TypeOK, OutcomesAreTrue, AnswersAreTrue, [Next]_vars
  PROVE  OutcomesAreTrue'
<1> USE DEF OutcomesAreTrue
<1>1. TaskType
  BY DEF TypeOK
<1>2. CASE UNCHANGED mask
  BY <1>2, AcceptedGrows
<1>3. CASE Deliver BY <1>2, <1>3 DEF Deliver, taskVars
<1>4. CASE DeliverLate BY <1>2, <1>4 DEF DeliverLate, taskVars
<1>5. ASSUME NEW t \in Tasks, PushToUser(t) PROVE OutcomesAreTrue'
  <2>1. ASSUME NEW f, mask' = [mask EXCEPT ![t] = f],
               \A m \in Msgs : f[m] = "ok" => mask[t][m] = "ok" \/ m \in pushed
        PROVE  OutcomesAreTrue'
    BY <1>1, <2>1, AcceptedGrows DEF TaskType
  <2>2. \A m \in Msgs : NoOutcome[m] # "ok"
    BY DEF NoOutcome
  <2>3. CASE TooMany(t) \/ SaveFails(t) \/ SendPanics(t) \/ ArchiveFails(t)
             \/ UpdateRowFails(t) \/ Return(t) \/ Save(t)
    BY <2>1, <2>2, <2>3 DEF TooMany, SaveFails, SendPanics, ArchiveFails, UpdateRowFails, Return,
       Save, End
  <2>4. ASSUME NEW m \in Msgs, NEW r, r # "ok", Ungrouped(t, m, r) PROVE OutcomesAreTrue'
    BY <1>1, <2>4, AcceptedGrows DEF Ungrouped, TaskType
  <2>5. ASSUME NEW m \in Msgs, Lookup(t, m) PROVE OutcomesAreTrue'
    BY <1>2, <2>4, <2>5 DEF Lookup
  <2>6. CASE SendSucceeds(t)
    <3>1. call.ok \subseteq pushed
      BY <2>6 DEF SendSucceeds, AllAccepted, Answered, AnswersAreTrue
    <3>2. mask' = [mask EXCEPT ![t] = [m \in Msgs |-> IF m \in call.ok THEN "ok" ELSE mask[t][m]]]
      BY <1>1, <2>6 DEF SendSucceeds, TaskType
    <3> QED BY <2>1, <3>1, <3>2
  <2>7. CASE UNCHANGED mask
    BY <1>2, <2>7
  <2> QED
    BY <1>5, <2>3, <2>5, <2>6, <2>7 DEF PushToUser, Grouped, SendGroup, SendFails, Archive,
       UpdateRow, taskVars
<1>6. ASSUME NEW p \in Partitions, Handler(p), ~ PagePanics(p) PROVE UNCHANGED mask
  BY <1>6 DEF Handler, UserOnline, Retrieve, RetrieveFails, SendPage, PageAccepted, PageFails,
     Acknowledge, AcknowledgeFails, MarkMessage, taskVars
<1>7. CASE Restart BY <1>7 DEF Restart, NoOutcome
<1> QED BY <1>2, <1>3, <1>4, <1>5, <1>6, <1>7, OneActor DEF taskVars

\* Only PageAccepted fills what is to be acknowledged, from the request.
LEMMA AcksAreTrueStep ==
  ASSUME TypeOK, AcksAreTrue, AnswersAreTrue, [Next]_vars
  PROVE  AcksAreTrue'
<1> USE DEF AcksAreTrue
<1>1. DrainType
  BY DEF TypeOK
<1>2. CASE UNCHANGED acks
  BY <1>2, AcceptedGrows
<1>3. CASE Deliver BY <1>2, <1>3 DEF Deliver, drainVars
<1>4. CASE DeliverLate BY <1>2, <1>4 DEF DeliverLate, drainVars
<1>5. ASSUME NEW t \in Tasks, PushToUser(t) PROVE UNCHANGED acks
  BY <1>5, PushToUserFrame DEF drainVars
<1>6. ASSUME NEW p \in Partitions, Handler(p), ~ PagePanics(p) PROVE AcksAreTrue'
  <2>1. CASE PageAccepted(p)
    <3>1. call.ok \subseteq drained
      BY <2>1 DEF PageAccepted, AllAccepted, Answered, AnswersAreTrue
    <3> QED BY <1>1, <2>1, <3>1, AcceptedGrows DEF PageAccepted, DrainType
  <2>2. CASE MarkMessage(p)
    BY <1>1, <2>2, AcceptedGrows DEF MarkMessage, DrainType
  <2>3. CASE UNCHANGED acks
    BY <1>2, <2>3
  <2> QED
    BY <1>6, <2>1, <2>2, <2>3 DEF Handler, UserOnline, Retrieve, RetrieveFails, SendPage,
       PageFails, Acknowledge, AcknowledgeFails, drainVars
<1>7. CASE Restart BY <1>7 DEF Restart
<1> QED BY <1>2, <1>3, <1>4, <1>5, <1>6, <1>7, OneActor DEF drainVars

\* The records are written from the memory of the calls and handlers.
LEMMA RecordedIsAcceptedStep ==
  ASSUME TypeOK, RecordedInv, [Next]_vars
  PROVE  RecordedIsAccepted'
<1>1. DataType /\ RecordedIsAccepted
  BY DEF TypeOK, RecordedInv
<1> USE DEF RecordedIsAccepted
<1>2. CASE UNCHANGED dataVars
  BY <1>1, <1>2, AcceptedGrows DEF dataVars
<1>3. CASE Deliver BY <1>2, <1>3 DEF Deliver
<1>4. CASE DeliverLate BY <1>2, <1>4 DEF DeliverLate
<1>5. ASSUME \A m \in Msgs : "sent" \in rows'[m] => "sent" \in rows[m] \/ m \in pushed,
             \A m \in Msgs :
               store'[m] = "delivered" => store[m] = "delivered" \/ m \in drained
      PROVE  RecordedIsAccepted'
  BY <1>1, <1>5, AcceptedGrows
<1>6. ASSUME NEW t \in Tasks, PushToUser(t) PROVE RecordedIsAccepted'
  <2>1. CASE Save(t) \/ SaveFails(t)
    BY <1>1, <1>5, <2>1 DEF Save, SaveFails, InsertRows
  <2>2. CASE Archive(t) \/ ArchiveFails(t)
    BY <1>1, <1>5, <2>2 DEF Archive, ArchiveFails, Insert
  <2>3. ASSUME NEW m \in Msgs, UpdateRow(t, m) PROVE RecordedIsAccepted'
    <3>1. rows' = [rows EXCEPT ![m] = {Status(mask[t][m])}] /\ store' = store
      BY <2>3 DEF UpdateRow
    <3>2. Status(mask[t][m]) = "sent" => m \in pushed
      BY DEF Status, RecordedInv, OutcomesAreTrue
    <3> QED BY <1>1, <1>5, <3>1, <3>2 DEF DataType
  <2>4. CASE UNCHANGED dataVars
    BY <1>2, <2>4
  <2> QED
    BY <1>6, <2>1, <2>2, <2>3, <2>4 DEF PushToUser, TooMany, Lookup, Grouped, SendGroup,
       SendSucceeds, SendFails, SendPanics, UpdateRowFails, Return
<1>7. ASSUME NEW p \in Partitions, Handler(p), ~ PagePanics(p) PROVE RecordedIsAccepted'
  <2>1. CASE Acknowledge(p) \/ AcknowledgeFails(p)
    <3>1. acks[p] \subseteq drained
      BY DEF RecordedInv, AcksAreTrue
    <3>2. rows' = rows /\ (MarkDelivered(acks[p]) \/ UNCHANGED store)
      BY <2>1 DEF Acknowledge, AcknowledgeFails
    <3> QED BY <1>1, <1>5, <3>1, <3>2 DEF MarkDelivered
  <2>2. CASE UNCHANGED dataVars
    BY <1>2, <2>2
  <2> QED
    BY <1>7, <2>1, <2>2 DEF Handler, UserOnline, Retrieve, RetrieveFails, SendPage, PageAccepted,
       PageFails, MarkMessage
<1>8. CASE Restart BY <1>2, <1>8 DEF Restart
<1> QED BY <1>2, <1>3, <1>4, <1>6, <1>7, <1>8, OneActor

LEMMA InitRecordedInv == Init => RecordedInv
<1> SUFFICES ASSUME Init PROVE RecordedInv
  OBVIOUS
<1>1. RecordedIsAccepted
  BY DEF Init, RecordedIsAccepted
<1>2. OutcomesAreTrue
  BY DEF Init, OutcomesAreTrue, NoOutcome
<1>3. AcksAreTrue
  BY DEF Init, AcksAreTrue
<1>4. AnswersAreTrue
  BY DEF Init, AnswersAreTrue, NoRequest
<1> QED BY <1>1, <1>2, <1>3, <1>4 DEF RecordedInv

\* A message recorded as sent, or as delivered from the archive, was accepted by
\* an access node, whatever was lost, repeated or restarted on the way
\* (PushToUser's msgSendMask, UserOnline's successIds).
THEOREM Recorded == Spec => []RecordedIsAccepted
<1>1. TypeOK /\ RecordedInv /\ [Next]_vars => RecordedInv'
  BY RecordedIsAcceptedStep, OutcomesAreTrueStep, AcksAreTrueStep, AnswersAreTrueStep
     DEF RecordedInv
<1>2. RecordedInv => RecordedIsAccepted
  BY DEF RecordedInv
<1> QED BY <1>1, <1>2, InitRecordedInv, TypeCorrect, PTL DEF Spec

-----------------------------------------------------------------------------
(* A handler that ends well has emptied the archive                        *)

\* No step takes a message out of the archive or a delivery back: an insert
\* meets no row, and an update finds pending rows or delivered ones.
LEMMA StoreGrows ==
  ASSUME TypeOK, [Next]_vars, NEW m \in Msgs
  PROVE  /\ store[m] # "none" => store'[m] # "none"
         /\ store[m] = "delivered" => store'[m] = "delivered"
<1>1. CASE UNCHANGED store
  BY <1>1
<1>2. ASSUME NEW t \in Tasks, Insertable(Offline(t)), Insert(Offline(t))
      PROVE  /\ store[m] # "none" => store'[m] # "none"
             /\ store[m] = "delivered" => store'[m] = "delivered"
  BY <1>2 DEF Insert, Insertable
<1>3. ASSUME NEW p \in Partitions, MarkDelivered(acks[p])
      PROVE  /\ store[m] # "none" => store'[m] # "none"
             /\ store[m] = "delivered" => store'[m] = "delivered"
  BY <1>3 DEF MarkDelivered
<1>4. CASE Deliver BY <1>1, <1>4 DEF Deliver, dataVars
<1>5. CASE DeliverLate BY <1>1, <1>5 DEF DeliverLate, dataVars
<1>6. ASSUME NEW t \in Tasks, PushToUser(t)
      PROVE  UNCHANGED store \/ (Insertable(Offline(t)) /\ Insert(Offline(t)))
  <2>1. CASE Archive(t) \/ ArchiveFails(t)
    BY <2>1 DEF Archive, ArchiveFails
  <2>2. CASE UNCHANGED store
    BY <2>2
  <2> QED
    BY <1>6, <2>1, <2>2 DEF PushToUser, TooMany, Save, SaveFails, Lookup, Grouped, SendGroup,
       SendSucceeds, SendFails, SendPanics, UpdateRow, UpdateRowFails, Return, dataVars
<1>7. ASSUME NEW p \in Partitions, Handler(p), ~ PagePanics(p)
      PROVE  UNCHANGED store \/ MarkDelivered(acks[p])
  <2>1. CASE Acknowledge(p) \/ AcknowledgeFails(p)
    BY <2>1 DEF Acknowledge, AcknowledgeFails
  <2>2. CASE UNCHANGED store
    BY <2>2
  <2> QED
    BY <1>7, <2>1, <2>2 DEF Handler, UserOnline, Retrieve, RetrieveFails, SendPage, PageAccepted,
       PageFails, MarkMessage, dataVars
<1>8. CASE Restart BY <1>1, <1>8 DEF Restart, dataVars
<1> QED BY <1>1, <1>2, <1>3, <1>4, <1>5, <1>6, <1>7, <1>8, OneActor DEF dataVars

\* A step moves handler p only if it is a step of p, or ends the process.
LocalsOf(p) == <<hpc[p], cursor[p], page[p], acks[p], due[p]>>

LEMMA OwnLocals ==
  ASSUME TypeOK, [Next]_vars, NEW p \in Partitions
  PROVE  UNCHANGED LocalsOf(p) \/ (Handler(p) /\ ~ PagePanics(p)) \/ Restart
<1>1. DrainType
  BY DEF TypeOK
<1>2. CASE UNCHANGED drainVars
  BY <1>2 DEF drainVars, LocalsOf
<1>3. CASE Deliver BY <1>2, <1>3 DEF Deliver
<1>4. CASE DeliverLate BY <1>2, <1>4 DEF DeliverLate
<1>5. CASE \E t \in Tasks : PushToUser(t) BY <1>2, <1>5, PushToUserFrame
<1>6. ASSUME NEW q \in Partitions, Handler(q), ~ PagePanics(q), q # p
      PROVE  UNCHANGED LocalsOf(p)
  <2>1. CASE UserOnline(q) \/ Retrieve(q) \/ RetrieveFails(q) \/ PageAccepted(q)
             \/ PageFails(q) \/ Acknowledge(q) \/ AcknowledgeFails(q)
    <3>1. hpc'[p] = hpc[p] /\ cursor'[p] = cursor[p]
      BY <1>1, <1>6, <2>1 DEF UserOnline, Retrieve, RetrieveFails, PageAccepted, PageFails,
         Acknowledge, AcknowledgeFails, DrainType
    <3>2. page'[p] = page[p] /\ acks'[p] = acks[p] /\ due'[p] = due[p]
      BY <1>1, <1>6, <2>1 DEF UserOnline, Retrieve, RetrieveFails, PageAccepted, PageFails,
         Acknowledge, AcknowledgeFails, DrainType
    <3> QED BY <3>1, <3>2 DEF LocalsOf
  <2>2. CASE SendPage(q)
    BY <2>2 DEF SendPage, drainVars, LocalsOf
  <2>3. CASE MarkMessage(q)
    BY <1>1, <1>6, <2>3 DEF MarkMessage, DrainType, LocalsOf
  <2> QED BY <1>6, <2>1, <2>2, <2>3 DEF Handler
<1> QED BY <1>2, <1>3, <1>4, <1>5, <1>6, OneActor

\* The event a handler works on stays the same while it runs: logs only grow,
\* and offsets move when the handler has ended.
LEMMA EventStays ==
  ASSUME TypeOK, CallersWait, [Next]_vars, NEW p \in Partitions,
         hpc[p] # "idle", hpc'[p] # "idle"
  PROVE  Event(p)' = Event(p)
<1>1. KafkaType /\ DrainType /\ HandlersHaveEvents
  BY DEF TypeOK
<1>2. CASE UNCHANGED <<log, marked>>
  BY <1>2 DEF Event
<1>3. CASE AccessSide
  <2>1. marked' = marked
    BY <1>3, AccessSideFrame
  <2>2. ASSUME NEW q \in Partitions, NEW c \in Conns,
               log' = [log EXCEPT ![q] = Append(@, [user |-> ConnUser[c], node |-> ConnNode[c]])]
        PROVE  Event(p)' = Event(p)
    <3> DEFINE Events == [user : Users, node : Nodes]
               e == [user |-> ConnUser[c], node |-> ConnNode[c]]
    <3>1. /\ log[p] \in Seq(Events) /\ e \in Events
          /\ marked[p] \in Nat /\ marked[p] < Len(log[p])
      BY <1>1, ConnAssumption DEF KafkaType, HandlersHaveEvents
    <3>2. Len(log[p]) \in Nat
      BY <3>1
    <3>3. marked[p] + 1 \in 1 .. Len(log[p])
      BY <3>1, <3>2
    <3>4. log'[p] = log[p] \/ log'[p] = Append(log[p], e)
      BY <1>1, <2>2 DEF KafkaType
    <3>5. log'[p][marked[p] + 1] = log[p][marked[p] + 1]
      BY <3>1, <3>3, <3>4, AppendFacts
    <3> QED BY <2>1, <3>5 DEF Event
  <2> QED BY <1>2, <1>3, <2>1, <2>2, AccessSideFrame
<1>4. CASE \/ Deliver
           \/ DeliverLate
           \/ \E t \in Tasks : PushToUser(t)
           \/ \E q \in Partitions : CommitOffset(q)
           \/ UNCHANGED vars
  BY <1>2, <1>4, PushToUserFrame DEF Deliver, DeliverLate, CommitOffset, vars, kafkaVars
<1>5. ASSUME NEW q \in Partitions, Handler(q), ~ PagePanics(q) PROVE Event(p)' = Event(p)
  <2>1. CASE MarkMessage(q)
    <3>1. q # p
      BY <1>1, <2>1 DEF MarkMessage, DrainType
    <3>2. marked'[p] = marked[p] /\ log' = log
      BY <1>1, <2>1, <3>1 DEF MarkMessage, KafkaType
    <3> QED BY <3>2 DEF Event
  <2>2. CASE UNCHANGED kafkaVars
    BY <1>2, <2>2 DEF kafkaVars
  <2> QED
    BY <1>5, <2>1, <2>2 DEF Handler, UserOnline, Retrieve, RetrieveFails, SendPage, PageAccepted,
       PageFails, Acknowledge, AcknowledgeFails
<1>6. ~ Restart
  BY DEF Restart
<1> QED BY <1>3, <1>4, <1>5, <1>6, PanicIsRestart DEF Next, Crash, AccessSide

\* The request of a handler is its page, however much of it the node has done.
LEMMA PageIsSentStep ==
  ASSUME TypeOK, CallersWait, [Next]_vars, NEW p \in Partitions, PageIsSent(p)
  PROVE  PageIsSent(p)'
<1> USE TasksAssumption, NoneAssumption DEF PageIsSent
<1>1. CASE call'.by # p
  BY <1>1
<1>2. CASE call' = call /\ page'[p] = page[p]
  BY <1>2
<1>3. CASE Deliver
  <2>1. PICK m \in Msgs :
          /\ m \in call.rest
          /\ \/ call' = [call EXCEPT !.rest = @ \ {m}, !.ok = @ \cup {m}]
             \/ call' = [call EXCEPT !.rest = @ \ {m}, !.refused = @ \cup {m}]
    BY <1>3 DEF Deliver, IsLeast
  <2>2. call \in Requests
    BY <1>3, RequestFacts DEF Deliver
  <2>3. /\ call'.by = call.by
        /\ call'.rest \cup call'.ok \cup call'.refused
             = call.rest \cup call.ok \cup call.refused
    BY <2>1, <2>2 DEF Requests
  <2>4. page' = page
    BY <1>3 DEF Deliver, drainVars
  <2> QED BY <2>3, <2>4
<1>4. CASE UNCHANGED <<call, page>>
  BY <1>2, <1>4
<1>5. CASE DeliverLate BY <1>4, <1>5 DEF DeliverLate, drainVars
<1>6. ASSUME NEW t \in Tasks, PushToUser(t) PROVE PageIsSent(p)'
  <2>1. page' = page
    BY <1>6, PushToUserFrame DEF drainVars
  <2>2. CASE \E n \in Nodes : SendGroup(t, n)
    BY <1>1, <2>2 DEF SendGroup, Request
  <2>3. CASE SendSucceeds(t) \/ SendFails(t) \/ SendPanics(t)
    BY <1>1, <2>3 DEF SendSucceeds, SendFails, SendPanics, NoRequest
  <2>4. CASE UNCHANGED rpcVars
    BY <1>4, <2>1, <2>4 DEF rpcVars
  <2> QED
    BY <1>6, <2>2, <2>3, <2>4 DEF PushToUser, TooMany, Save, SaveFails, Lookup, Grouped, Archive,
       ArchiveFails, UpdateRow, UpdateRowFails, Return
<1>7. ASSUME NEW q \in Partitions, Handler(q), ~ PagePanics(q) PROVE PageIsSent(p)'
  <2>1. CASE SendPage(q)
    <3>1. CASE q = p
      BY <2>1, <3>1 DEF SendPage, Request, drainVars
    <3>2. CASE q # p
      BY <1>1, <2>1, <3>2 DEF SendPage, Request
    <3> QED BY <3>1, <3>2
  <2>2. CASE PageAccepted(q) \/ PageFails(q)
    BY <1>1, <2>2 DEF PageAccepted, PageFails, NoRequest
  <2>3. CASE UNCHANGED rpcVars
    <3>1. CASE call.by = p
      <4>1. hpc[p] = "send"
        BY <3>1 DEF CallersWait
      <4>2. page'[p] = page[p]
        BY <1>7, <2>3, <4>1 DEF Handler, UserOnline, Retrieve, RetrieveFails, SendPage,
           PageAccepted, PageFails, Acknowledge, AcknowledgeFails, MarkMessage, drainVars,
           TypeOK, DrainType
      <4> QED BY <1>2, <2>3, <4>2 DEF rpcVars
    <3>2. CASE call.by # p
      BY <1>1, <2>3, <3>2 DEF rpcVars
    <3> QED BY <3>1, <3>2
  <2> QED
    BY <1>7, <2>1, <2>2, <2>3 DEF Handler, UserOnline, Retrieve, RetrieveFails, Acknowledge,
       AcknowledgeFails, MarkMessage
<1>8. CASE Restart BY <1>1, <1>8 DEF Restart, NoRequest
<1>9. CASE UNCHANGED <<taskVars, drainVars, call, late, pushed, drained, dataVars>>
  BY <1>4, <1>9 DEF drainVars
<1> QED BY <1>3, <1>5, <1>6, <1>7, <1>8, <1>9, OneActor

\* What a step of handler p does to what it is working on.
LEMMA DrainOwnStep ==
  ASSUME TypeOK, CallersWait, DrainInv, [Next]_vars, NEW p \in Partitions,
         Handler(p), ~ PagePanics(p)
  PROVE  /\ DueIsArchived(p)' /\ BehindCursor(p)' /\ PageIsNext(p)'
         /\ PageIsAcknowledged(p)' /\ Drained(p)'
<1>1. DrainType /\ DataType
  BY DEF TypeOK
<1>2. /\ DueIsArchived(p) /\ BehindCursor(p) /\ PageIsNext(p)
      /\ PageIsSent(p) /\ PageIsAcknowledged(p) /\ Drained(p)
  BY DEF DrainInv
<1>3. \A m \in Msgs : /\ store[m] # "none" => store'[m] # "none"
                      /\ store[m] = "delivered" => store'[m] = "delivered"
  BY StoreGrows
<1>4. due[p] \in SUBSET Msgs /\ page[p] \in SUBSET Msgs /\ Msgs \subseteq Nat \ {0}
  BY <1>1, MsgsAssumption DEF DrainType
<1>5. CASE UserOnline(p)
  <2>1. /\ hpc'[p] = "retrieve" /\ cursor'[p] = 0 /\ due'[p] = Pending(Event(p).user)
        /\ UNCHANGED <<log, marked, store>>
    BY <1>1, <1>5 DEF UserOnline, DrainType, kafkaVars, dataVars
  <2>2. DueIsArchived(p)'
    BY <2>1 DEF DueIsArchived, Event, Pending
  <2>3. BehindCursor(p)'
    <3>1. ASSUME NEW m \in Pending(Event(p).user) PROVE ~ (m <= 0)
      <4>1. m \in Nat /\ m # 0
        BY <1>4 DEF Pending
      <4> QED BY <4>1
    <3> QED BY <2>1, <3>1 DEF BehindCursor
  <2> QED BY <2>1, <2>2, <2>3 DEF PageIsNext, PageIsAcknowledged, Drained
<1>6. ASSUME hpc[p] # "idle", hpc'[p] # "idle", due'[p] = due[p]
      PROVE  DueIsArchived(p)'
  BY <1>2, <1>3, <1>4, <1>6, EventStays DEF DueIsArchived
<1>7. CASE Retrieve(p)
  <2> DEFINE S == {m \in Pending(Event(p).user) : m > cursor[p]}
  <2>1. PICK P \in SUBSET S : IsPage(P, S) /\ page' = [page EXCEPT ![p] = P]
    BY <1>7 DEF Retrieve
  <2>2. /\ hpc[p] = "retrieve" /\ hpc'[p] = "send" /\ page'[p] = P
        /\ UNCHANGED <<cursor, acks, due, store>>
    BY <1>1, <1>7, <2>1 DEF Retrieve, DrainType, dataVars
  <2>3. BehindCursor(p)'
    BY <1>2, <2>2 DEF BehindCursor
  <2>4. PageIsNext(p)'
    <3>1. ASSUME NEW m \in due[p], store[m] # "delivered", m \notin P
          PROVE  Cardinality(P) = MaxMessageCount /\ \A k \in P : k < m
      <4>1. m \in Msgs /\ MsgUser[m] = Event(p).user /\ store[m] = "pending"
        BY <1>1, <1>2, <1>4, <2>2, <3>1 DEF DueIsArchived, DataType
      <4>2. m > cursor[p]
        <5>1. ~ (m <= cursor[p])
          BY <1>2, <2>2, <3>1 DEF BehindCursor
        <5>2. m \in Nat /\ cursor[p] \in Nat
          BY <1>1, <1>4, <4>1 DEF DrainType
        <5> QED BY <5>1, <5>2
      <4>3. m \in S \ P
        BY <3>1, <4>1, <4>2 DEF Pending
      <4> QED BY <2>1, <4>3, PageAssumption DEF IsPage
    <3> QED BY <2>2, <3>1 DEF PageIsNext
  <2> QED BY <1>6, <2>2, <2>3, <2>4 DEF PageIsAcknowledged, Drained
<1>8. CASE SendPage(p)
  <2>1. UNCHANGED <<hpc, cursor, page, acks, due, store>> /\ hpc[p] = "send"
    BY <1>8 DEF SendPage, drainVars, dataVars
  <2> QED BY <1>2, <1>6, <2>1 DEF BehindCursor, PageIsNext, PageIsAcknowledged, Drained
<1>9. CASE PageAccepted(p)
  <2>1. hpc[p] = "send" /\ call.ok = page[p]
    BY <1>2, <1>9 DEF PageAccepted, AllAccepted, Answered, CallersWait, PageIsSent
  <2>2. /\ hpc'[p] = "ack" /\ acks'[p] = page[p]
        /\ UNCHANGED <<cursor, page, due, store>>
    BY <1>1, <1>9, <2>1 DEF PageAccepted, DrainType, dataVars
  <2> QED
    BY <1>2, <1>6, <2>1, <2>2 DEF BehindCursor, PageIsNext, PageIsAcknowledged, Drained
<1>10. CASE RetrieveFails(p) \/ PageFails(p) \/ AcknowledgeFails(p)
  <2>1. /\ hpc[p] # "idle" /\ hpc'[p] = "failed" /\ due' = due
    BY <1>1, <1>10 DEF RetrieveFails, PageFails, AcknowledgeFails, DrainType, CallersWait,
       CallFails, AllRefused, Answered
  <2> QED
    BY <1>6, <2>1 DEF BehindCursor, PageIsNext, PageIsAcknowledged, Drained
<1>11. CASE Acknowledge(p)
  <2>1. hpc[p] = "ack" /\ acks[p] = page[p] /\ due' = due /\ page' = page
    BY <1>2, <1>11 DEF Acknowledge, PageIsAcknowledged
  <2>2. \A m \in due[p] : m \in page[p] => store'[m] = "delivered"
    BY <1>2, <1>4, <1>11, <2>1 DEF Acknowledge, MarkDelivered, DueIsArchived
  <2>3. \A m \in due[p] :
          \/ store'[m] = "delivered"
          \/ Cardinality(page[p]) = MaxMessageCount /\ \A k \in page[p] : k < m
    BY <1>2, <1>3, <1>4, <2>1, <2>2 DEF PageIsNext
  <2>4. CASE Cardinality(page[p]) # MaxMessageCount
    <3>1. hpc'[p] = "handled"
      BY <1>1, <1>11, <2>4 DEF Acknowledge, DrainType
    <3> QED
      BY <1>6, <2>1, <2>3, <2>4, <3>1 DEF BehindCursor, PageIsNext, PageIsAcknowledged, Drained
  <2>5. CASE Cardinality(page[p]) = MaxMessageCount
    <3>1. PICK k \in page[p] : hpc'[p] = "retrieve" /\ cursor'[p] = k
      BY <1>1, <1>11, <2>5 DEF Acknowledge, DrainType
    <3>2. ASSUME NEW m \in due[p], m <= k PROVE store'[m] = "delivered"
      <4>1. m \in Nat /\ k \in Nat
        BY <1>4
      <4> QED BY <2>3, <3>2, <4>1
    <3> QED
      BY <1>6, <2>1, <3>1, <3>2 DEF BehindCursor, PageIsNext, PageIsAcknowledged, Drained
  <2> QED BY <2>4, <2>5
<1>12. CASE MarkMessage(p)
  <2>1. hpc'[p] = "idle"
    BY <1>1, <1>12 DEF MarkMessage, DrainType
  <2> QED
    BY <2>1 DEF DueIsArchived, BehindCursor, PageIsNext, PageIsAcknowledged, Drained
<1> QED BY <1>5, <1>7, <1>8, <1>9, <1>10, <1>11, <1>12 DEF Handler

LEMMA DrainInvStep ==
  ASSUME TypeOK, CallersWait, DrainInv, [Next]_vars
  PROVE  DrainInv'
<1>1. ASSUME NEW p \in Partitions
      PROVE  /\ DueIsArchived(p)' /\ BehindCursor(p)' /\ PageIsNext(p)'
             /\ PageIsAcknowledged(p)' /\ Drained(p)'
  <2>1. CASE Handler(p) /\ ~ PagePanics(p)
    BY <2>1, DrainOwnStep
  <2>2. CASE Restart
    BY <2>2 DEF Restart, DueIsArchived, BehindCursor, PageIsNext, PageIsAcknowledged, Drained
  <2>3. CASE UNCHANGED LocalsOf(p)
    <3>1. /\ hpc'[p] = hpc[p] /\ cursor'[p] = cursor[p] /\ page'[p] = page[p]
          /\ acks'[p] = acks[p] /\ due'[p] = due[p]
      BY <2>3 DEF LocalsOf
    <3>2. \A m \in due[p] : /\ store[m] # "none" => store'[m] # "none"
                            /\ store[m] = "delivered" => store'[m] = "delivered"
      BY StoreGrows DEF TypeOK, DrainType
    <3>3. DueIsArchived(p)'
      BY <3>1, <3>2, EventStays DEF DrainInv, DueIsArchived
    <3>4. BehindCursor(p)' /\ PageIsNext(p)'
      BY <3>1, <3>2 DEF DrainInv, BehindCursor, PageIsNext
    <3>5. PageIsAcknowledged(p)' /\ Drained(p)'
      BY <3>1, <3>2 DEF DrainInv, PageIsAcknowledged, Drained
    <3> QED BY <3>3, <3>4, <3>5
  <2> QED BY <2>1, <2>2, <2>3, OwnLocals
<1>2. ASSUME NEW p \in Partitions PROVE PageIsSent(p)'
  BY PageIsSentStep DEF DrainInv
<1> QED BY <1>1, <1>2 DEF DrainInv

LEMMA InitDrainInv == Init => DrainInv
BY NoneAssumption
   DEF Init, DrainInv, DueIsArchived, BehindCursor, PageIsNext, PageIsSent, PageIsAcknowledged,
       Drained, NoRequest

\* A handler that ends well has had delivered all that the archive held for its
\* user when it began: no page is skipped or cut short, although other handlers
\* and calls change the archive meanwhile (UserOnline's loop over pages).
THEOREM DrainComplete == Spec => []DrainIsComplete
<1>1. TypeOK /\ CallersWait /\ DrainInv /\ [Next]_vars => DrainInv'
  BY DrainInvStep
<1>2. DrainInv => DrainIsComplete
  BY DEF DrainInv, Drained, DrainIsComplete
<1> QED BY <1>1, <1>2, InitDrainInv, TypesAndWaiting, PTL DEF Spec

-----------------------------------------------------------------------------
(* A message takes one of two routes                                       *)

\* What PushToUser keeps in its locals.
CallOf(t) == <<tpc[t], todo[t], mask[t], groups[t]>>

\* A call's step leaves the other calls alone.
LEMMA OtherCall ==
  ASSUME TypeOK, NEW t \in Tasks, NEW s \in Tasks, PushToUser(s), s # t
  PROVE  UNCHANGED CallOf(t)
<1>1. TaskType
  BY DEF TypeOK
<1>2. CASE TooMany(s) \/ SaveFails(s) \/ SendPanics(s) \/ ArchiveFails(s)
           \/ UpdateRowFails(s) \/ Return(s)
  <2>1. PICK r \in {"done", "failed"} : End(s, r)
    BY <1>2 DEF TooMany, SaveFails, SendPanics, ArchiveFails, UpdateRowFails, Return
  <2> QED BY <1>1, <2>1 DEF End, TaskType, CallOf
<1>3. CASE Save(s) BY <1>1, <1>3 DEF Save, TaskType, CallOf
<1>4. CASE \E m \in Msgs : Lookup(s, m)
  BY <1>1, <1>4 DEF Lookup, Ungrouped, TaskType, CallOf
<1>5. CASE Grouped(s) BY <1>1, <1>5 DEF Grouped, TaskType, CallOf
<1>6. CASE \E n \in Nodes : SendGroup(s, n)
  BY <1>1, <1>6 DEF SendGroup, TaskType, CallOf
<1>7. CASE SendSucceeds(s) BY <1>1, <1>7 DEF SendSucceeds, TaskType, CallOf
<1>8. CASE SendFails(s) BY <1>8 DEF SendFails, taskVars, CallOf
<1>9. CASE Archive(s) BY <1>1, <1>9 DEF Archive, TaskType, CallOf
<1>10. CASE \E m \in Msgs : UpdateRow(s, m)
  BY <1>1, <1>10 DEF UpdateRow, TaskType, CallOf
<1> QED BY <1>2, <1>3, <1>4, <1>5, <1>6, <1>7, <1>8, <1>9, <1>10 DEF PushToUser

\* A step moves call t only if it is a step of t, or ends the process.
LEMMA OwnCall ==
  ASSUME TypeOK, [Next]_vars, NEW t \in Tasks
  PROVE  UNCHANGED CallOf(t) \/ PushToUser(t) \/ Restart
<1>1. TaskType
  BY DEF TypeOK
<1>2. CASE UNCHANGED taskVars
  BY <1>2 DEF taskVars, CallOf
<1>3. CASE Deliver BY <1>2, <1>3 DEF Deliver
<1>4. CASE DeliverLate BY <1>2, <1>4 DEF DeliverLate
<1>5. ASSUME NEW p \in Partitions, Handler(p), ~ PagePanics(p) PROVE UNCHANGED taskVars
  BY <1>5 DEF Handler, UserOnline, Retrieve, RetrieveFails, SendPage, PageAccepted, PageFails,
     Acknowledge, AcknowledgeFails, MarkMessage
<1>6. ASSUME NEW s \in Tasks, PushToUser(s), s # t PROVE UNCHANGED CallOf(t)
  BY <1>6, OtherCall
<1> QED BY <1>2, <1>3, <1>4, <1>5, <1>6, OneActor

\* The steps by which PushToUser returns.
Returns(t) ==
  \/ TooMany(t) \/ SaveFails(t) \/ SendPanics(t) \/ ArchiveFails(t)
  \/ UpdateRowFails(t) \/ Return(t)

LEMMA ReturnFacts ==
  ASSUME TypeOK, NEW t \in Tasks, Returns(t)
  PROVE  /\ tpc'[t] \in {"done", "failed"}
         /\ todo'[t] = {}
         /\ mask'[t] = NoOutcome
         /\ \A n \in Nodes : groups'[t][n] = {}
<1>1. PICK r \in {"done", "failed"} : End(t, r)
  BY DEF Returns, TooMany, SaveFails, SendPanics, ArchiveFails, UpdateRowFails, Return
<1>2. TaskType
  BY DEF TypeOK
<1> QED BY <1>1, <1>2 DEF End, TaskType

LEMMA NoOutcomeFacts == \A m \in Msgs : NoOutcome[m] = "send failed"
BY DEF NoOutcome

LEMMA CallsAreRegularStep ==
  ASSUME TypeOK, CallersWait, CallsAreRegular, [Next]_vars
  PROVE  CallsAreRegular'
<1> SUFFICES ASSUME NEW t \in Tasks
             PROVE  /\ todo'[t] \subseteq TaskMsgs[t]
                    /\ tpc'[t] \in {"lookup", "send", "update", "done"} => Fits(t)
                    /\ tpc'[t] = "lookup" =>
                         \A m \in todo'[t] : mask'[t][m] = "send failed"
  BY DEF CallsAreRegular, Fits
<1>1. TaskType
  BY DEF TypeOK
<1>2. /\ todo[t] \subseteq TaskMsgs[t] /\ TaskMsgs[t] \subseteq Msgs
      /\ tpc[t] \in {"lookup", "send", "update", "done"} => Fits(t)
      /\ tpc[t] = "lookup" => \A m \in todo[t] : mask[t][m] = "send failed"
  BY TasksAssumption DEF CallsAreRegular
<1>3. CASE UNCHANGED CallOf(t) BY <1>2, <1>3 DEF CallOf
<1>4. CASE Restart BY <1>1, <1>2, <1>4 DEF Restart, TaskType
<1>5. CASE PushToUser(t)
  <2>1. CASE Returns(t)
    <3>1. Return(t) => Fits(t)
      BY <1>2 DEF Return
    <3>2. ~ Return(t) => End(t, "failed")
      BY <2>1 DEF Returns, TooMany, SaveFails, SendPanics, ArchiveFails, UpdateRowFails
    <3>3. End(t, "failed") => tpc'[t] = "failed"
      BY <1>1 DEF End, TaskType
    <3> QED BY <2>1, <3>1, <3>2, <3>3, ReturnFacts
  <2>2. CASE Save(t)
    BY <1>1, <1>2, <2>2, NoOutcomeFacts DEF Save, TaskType
  <2>3. ASSUME NEW m \in Msgs, Lookup(t, m)
        PROVE  /\ todo'[t] \subseteq todo[t] /\ tpc[t] = "lookup" /\ tpc' = tpc
               /\ \A k \in todo'[t] : mask'[t][k] = mask[t][k]
    <3>1. tpc[t] = "lookup" /\ tpc' = tpc /\ todo'[t] = todo[t] \ {m}
      BY <1>1, <2>3 DEF Lookup, TaskType
    <3>2. ASSUME NEW k \in Msgs, k # m PROVE mask'[t][k] = mask[t][k]
      BY <1>1, <2>3, <3>2 DEF Lookup, Ungrouped, TaskType
    <3> QED BY <1>2, <3>1, <3>2
  <2>4. CASE \E m \in Msgs : Lookup(t, m)
    BY <1>2, <2>3, <2>4
  <2>5. CASE Grouped(t) BY <1>1, <1>2, <2>5 DEF Grouped, TaskType
  <2>6. CASE \E n \in Nodes : SendGroup(t, n)
    BY <1>1, <1>2, <2>6 DEF SendGroup, TaskType
  <2>7. CASE SendFails(t) BY <1>2, <2>7 DEF SendFails, taskVars
  <2>8. CASE Archive(t) BY <1>1, <1>2, <2>8 DEF Archive, Sent, TaskType
  <2>9. CASE \E m \in Msgs : UpdateRow(t, m)
    BY <1>1, <1>2, <2>9 DEF UpdateRow, TaskType
  <2>10. CASE SendSucceeds(t)
    <3>1. tpc[t] = "send" /\ tpc' = tpc /\ todo' = todo
      BY <2>10 DEF SendSucceeds, AllAccepted, Answered, CallersWait
    <3> QED BY <1>2, <3>1
  <2> QED
    BY <1>5, <2>1, <2>2, <2>4, <2>5, <2>6, <2>7, <2>8, <2>9, <2>10 DEF PushToUser, Returns
<1> QED BY <1>3, <1>4, <1>5, OwnCall

\* Once a call has a message down for sending, it never turns to archiving it.
LEMMA SendsOnlyStays ==
  ASSUME TypeOK, [Next]_vars, NEW t \in Tasks, NEW m \in Msgs, SendsOnly(t, m)
  PROVE  SendsOnly(t, m)'
<1> SUFFICES /\ tpc'[t] # "idle"
             /\ tpc'[t] = "lookup" => m \notin todo'[t]
             /\ mask'[t][m] # "user offline"
  BY DEF SendsOnly, Fits
<1>1. TaskType
  BY DEF TypeOK
<1>2. /\ m \in TaskMsgs[t] /\ tpc[t] # "idle"
      /\ tpc[t] = "lookup" => m \notin todo[t]
      /\ mask[t][m] # "user offline"
  BY DEF SendsOnly
<1>3. CASE UNCHANGED CallOf(t) BY <1>2, <1>3 DEF CallOf
<1>4. CASE Restart
  BY <1>1, <1>2, <1>4, NoOutcomeFacts DEF Restart, TaskType
<1>5. CASE PushToUser(t)
  <2>1. CASE Returns(t) BY <2>1, ReturnFacts, NoOutcomeFacts
  <2>2. CASE Save(t) BY <1>2, <2>2 DEF Save
  <2>3. ASSUME NEW k \in Msgs, Lookup(t, k)
        PROVE  tpc' = tpc /\ tpc[t] = "lookup" /\ m \notin todo'[t] /\ mask'[t][m] = mask[t][m]
    <3>1. k # m
      BY <1>2, <2>3 DEF Lookup, IsLeast
    <3>2. tpc' = tpc /\ tpc[t] = "lookup" /\ todo'[t] = todo[t] \ {k}
      BY <1>1, <2>3 DEF Lookup, TaskType
    <3>3. mask'[t][m] = mask[t][m]
      BY <1>1, <2>3, <3>1 DEF Lookup, Ungrouped, TaskType
    <3> QED BY <1>2, <3>2, <3>3
  <2>4. CASE \E k \in Msgs : Lookup(t, k)
    BY <1>2, <2>3, <2>4
  <2>5. CASE Grouped(t) BY <1>1, <1>2, <2>5 DEF Grouped, TaskType
  <2>6. CASE \E n \in Nodes : SendGroup(t, n)
    BY <1>1, <1>2, <2>6 DEF SendGroup, TaskType
  <2>7. CASE SendFails(t) BY <1>2, <2>7 DEF SendFails, taskVars
  <2>8. CASE Archive(t) BY <1>1, <1>2, <2>8 DEF Archive, TaskType
  <2>9. CASE \E k \in Msgs : UpdateRow(t, k)
    BY <1>1, <1>2, <2>9 DEF UpdateRow, TaskType
  <2>10. CASE SendSucceeds(t)
    <3>1. mask'[t][m] \in {mask[t][m], "ok"}
      BY <1>1, <2>10 DEF SendSucceeds, TaskType
    <3> QED BY <1>2, <2>10, <3>1 DEF SendSucceeds
  <2> QED
    BY <1>5, <2>1, <2>2, <2>4, <2>5, <2>6, <2>7, <2>8, <2>9, <2>10 DEF PushToUser, Returns
<1> QED BY <1>3, <1>4, <1>5, OwnCall

LEMMA HadItsTurnStays ==
  ASSUME TypeOK, [Next]_vars, NEW t \in Tasks, NEW m \in Msgs, HadItsTurn(t, m)
  PROVE  HadItsTurn(t, m)'
<1> SUFFICES tpc'[t] \in {"update", "done", "failed"}
  BY DEF HadItsTurn, Fits
<1>1. TaskType /\ tpc[t] \in {"update", "done", "failed"}
  BY DEF TypeOK, HadItsTurn
<1>2. CASE UNCHANGED CallOf(t) BY <1>1, <1>2 DEF CallOf
<1>3. CASE Restart BY <1>1, <1>3 DEF Restart, TaskType
<1>4. CASE PushToUser(t)
  <2>1. CASE Returns(t) BY <2>1, ReturnFacts
  <2>2. CASE tpc' = tpc BY <1>1, <2>2
  <2>3. ~ Save(t) /\ ~ Grouped(t) BY <1>1 DEF Save, Grouped
  <2>4. CASE Archive(t) BY <1>1, <2>4 DEF Archive, TaskType
  <2> QED
    BY <1>4, <2>1, <2>2, <2>3, <2>4 DEF PushToUser, Returns, Lookup, SendGroup, SendSucceeds,
       SendFails, UpdateRow, taskVars
<1> QED BY <1>2, <1>3, <1>4, OwnCall

\* A call sends a message when it has found the user's session; from then on
\* the message only moves from group to request to what was given up on.
LEMMA OnItsWayStep ==
  ASSUME TypeOK, CallersWait, [Next]_vars, NEW t \in Tasks, NEW m \in Msgs, OnItsWay(t, m)'
  PROVE  OnItsWay(t, m) \/ (Lookup(t, m) /\ mask' = mask)
<1> USE TasksAssumption, NoneAssumption
<1>1. TaskType /\ RpcType
  BY DEF TypeOK
<1>2. CASE UNCHANGED <<groups, call, late>>
  BY <1>2 DEF OnItsWay
<1>3. CASE /\ \A n \in Nodes : groups'[t][n] \subseteq groups[t][n]
           /\ call'.by = t => call'.by = call.by /\ call'.rest \subseteq call.rest
           /\ late' \subseteq late \/ GiveUp
  <2>1. CASE \E n \in Nodes : m \in groups'[t][n]
    BY <1>3, <2>1 DEF OnItsWay
  <2>2. CASE call'.by = t /\ m \in call'.rest
    BY <1>3, <2>2 DEF OnItsWay
  <2>3. ASSUME NEW n \in Nodes, <<t, n, m>> \in late' PROVE OnItsWay(t, m)
    <3>1. CASE <<t, n, m>> \in late
      BY <3>1 DEF OnItsWay
    <3>2. CASE <<t, n, m>> \in {<<call.by, call.node, k>> : k \in call.rest}
      BY <3>2 DEF OnItsWay
    <3> QED BY <1>3, <2>3, <3>1, <3>2 DEF GiveUp
  <2> QED BY <2>1, <2>2, <2>3 DEF OnItsWay
<1>4. CASE Deliver
  <2>1. PICK k \in Msgs :
          \/ call' = [call EXCEPT !.rest = @ \ {k}, !.ok = @ \cup {k}]
          \/ call' = [call EXCEPT !.rest = @ \ {k}, !.refused = @ \cup {k}]
    BY <1>4 DEF Deliver
  <2>2. call \in Requests
    BY <1>4, RequestFacts DEF Deliver
  <2>3. call'.by = call.by /\ call'.rest \subseteq call.rest
    BY <2>1, <2>2 DEF Requests
  <2> QED BY <1>3, <1>4, <2>3 DEF Deliver, taskVars
<1>5. CASE DeliverLate
  BY <1>3, <1>5 DEF DeliverLate, taskVars
<1>6. CASE Restart /\ GiveUp
  BY <1>3, <1>6 DEF Restart, NoRequest
<1>7. ASSUME NEW p \in Partitions, Handler(p), ~ PagePanics(p)
      PROVE  OnItsWay(t, m) \/ (Lookup(t, m) /\ mask' = mask)
  <2>1. CASE SendPage(p)
    BY <1>3, <2>1 DEF SendPage, Request, taskVars
  <2>2. CASE PageAccepted(p)
    BY <1>3, <2>2 DEF PageAccepted, NoRequest, taskVars
  <2>3. CASE PageFails(p)
    BY <1>3, <2>3 DEF PageFails, CallFails, NoRequest, taskVars
  <2>4. CASE UNCHANGED <<taskVars, rpcVars>>
    BY <1>2, <2>4 DEF taskVars, rpcVars
  <2> QED
    BY <1>7, <2>1, <2>2, <2>3, <2>4 DEF Handler, UserOnline, Retrieve, RetrieveFails, Acknowledge,
       AcknowledgeFails, MarkMessage
<1>8. ASSUME NEW s \in Tasks, PushToUser(s)
      PROVE  OnItsWay(t, m) \/ (Lookup(t, m) /\ mask' = mask)
  <2>1. CASE Returns(s)
    <3>1. \A n \in Nodes : groups'[t][n] \subseteq groups[t][n]
      <4>1. CASE s = t BY <2>1, <4>1, ReturnFacts
      <4>2. CASE s # t
        <5>1. PICK r \in {"done", "failed"} : End(s, r)
          BY <2>1 DEF Returns, TooMany, SaveFails, SendPanics, ArchiveFails, UpdateRowFails, Return
        <5> QED BY <1>1, <4>2, <5>1 DEF End, TaskType
      <4> QED BY <4>1, <4>2
    <3>2. UNCHANGED <<call, late>> \/ (call' = NoRequest /\ late' = late)
      BY <2>1 DEF Returns, TooMany, SaveFails, SendPanics, ArchiveFails, UpdateRowFails, Return,
         rpcVars
    <3> QED BY <1>3, <3>1, <3>2 DEF NoRequest
  <2>2. CASE \E k \in Msgs : Lookup(s, k)
    <3>1. PICK k \in Msgs : Lookup(s, k)
      BY <2>2
    <3>2. CASE UNCHANGED groups
      BY <1>2, <3>1, <3>2 DEF Lookup, rpcVars
    <3>3. CASE groups' = [groups EXCEPT ![s][session[MsgUser[k]]] = @ \cup {k}] /\ mask' = mask
      <4>1. CASE s = t /\ k = m
        BY <3>1, <3>3, <4>1
      <4>2. CASE s # t \/ k # m
        <5>1. \A n \in Nodes : m \in groups'[t][n] => m \in groups[t][n]
          BY <1>1, <3>3, <4>2 DEF TaskType
        <5>2. UNCHANGED <<call, late>>
          BY <3>1 DEF Lookup, rpcVars
        <5> QED BY <5>1, <5>2 DEF OnItsWay
      <4> QED BY <4>1, <4>2
    <3> QED BY <3>1, <3>2, <3>3 DEF Lookup, Ungrouped
  <2>3. ASSUME NEW n \in Nodes, SendGroup(s, n) PROVE OnItsWay(t, m)
    <3>1. \A k \in Nodes : groups'[t][k] \subseteq groups[t][k]
      BY <1>1, <2>3 DEF SendGroup, TaskType
    <3>2. late' = late /\ (call' = call \/ Request(s, n, groups[s][n]))
      BY <2>3 DEF SendGroup
    <3> QED BY <3>1, <3>2 DEF OnItsWay, Request
  <2>4. CASE SendSucceeds(s)
    BY <1>3, <2>4 DEF SendSucceeds, NoRequest
  <2>5. CASE SendFails(s)
    BY <1>3, <2>5 DEF SendFails, CallFails, NoRequest, taskVars
  <2>6. CASE UNCHANGED <<groups, rpcVars>>
    BY <1>2, <2>6 DEF rpcVars
  <2> QED
    BY <1>8, <2>1, <2>2, <2>3, <2>4, <2>5, <2>6 DEF PushToUser, Returns, Save, Grouped, Archive,
       UpdateRow
<1>9. CASE UNCHANGED <<taskVars, drainVars, call, late, pushed, drained, dataVars>>
  BY <1>2, <1>9 DEF taskVars
<1> QED BY <1>4, <1>5, <1>6, <1>7, <1>8, <1>9, OneActor

\* A node accepts from a call only what the call is sending.
LEMMA PushedStep ==
  ASSUME TypeOK, [Next]_vars, NEW m \in pushed', m \notin pushed
  PROVE  m \in Msgs /\ \E t \in Tasks : OnItsWay(t, m)
<1> USE TasksAssumption, NoneAssumption
<1>1. CASE Deliver
  <2>1. PICK k \in Msgs : k \in call.rest /\ (Accept(call.by, k) \/ UNCHANGED pushed)
    BY <1>1 DEF Deliver, IsLeast
  <2>2. call.by \in Tasks /\ k = m
    BY <2>1 DEF Accept
  <2> QED BY <2>1, <2>2 DEF OnItsWay
<1>2. CASE DeliverLate
  <2>1. PICK r \in late : Accept(r[1], r[3]) \/ UNCHANGED pushed
    BY <1>2 DEF DeliverLate
  <2>2. r[1] \in Tasks /\ r[3] = m
    BY <2>1 DEF Accept
  <2>3. r = <<r[1], r[2], r[3]>> /\ r[2] \in Nodes /\ r[3] \in Msgs
    BY <2>1 DEF TypeOK, RpcType
  <2> QED BY <2>1, <2>2, <2>3 DEF OnItsWay
<1>3. ASSUME NEW t \in Tasks, PushToUser(t) PROVE UNCHANGED pushed
  BY <1>3, PushToUserFrame
<1>4. ASSUME NEW p \in Partitions, Handler(p), ~ PagePanics(p) PROVE UNCHANGED pushed
  BY <1>4 DEF Handler, UserOnline, Retrieve, RetrieveFails, SendPage, PageAccepted, PageFails,
     Acknowledge, AcknowledgeFails, MarkMessage, rpcVars
<1>5. CASE Restart BY <1>5 DEF Restart
<1> QED BY <1>1, <1>2, <1>3, <1>4, <1>5, OneActor

\* A message enters the archive when a call that found no session has its turn.
LEMMA ArchivedStep ==
  ASSUME TypeOK, CallsAreRegular, [Next]_vars, NEW m \in Msgs,
         store[m] = "none", store'[m] # "none"
  PROVE  \E t \in Tasks : /\ m \in TaskMsgs[t] /\ Fits(t)
                          /\ tpc[t] = "send" /\ mask[t][m] = "user offline"
                          /\ HadItsTurn(t, m)'
<1>1. TaskType
  BY DEF TypeOK
<1>2. ASSUME NEW p \in Partitions, Handler(p), ~ PagePanics(p) PROVE FALSE
  <2>1. CASE Acknowledge(p) \/ AcknowledgeFails(p)
    BY <2>1 DEF Acknowledge, AcknowledgeFails, MarkDelivered
  <2> QED
    BY <1>2, <2>1 DEF Handler, UserOnline, Retrieve, RetrieveFails, SendPage, PageAccepted,
       PageFails, MarkMessage, dataVars
<1>3. ASSUME NEW t \in Tasks, PushToUser(t)
      PROVE  /\ m \in TaskMsgs[t] /\ Fits(t)
             /\ tpc[t] = "send" /\ mask[t][m] = "user offline"
             /\ HadItsTurn(t, m)'
  <2>1. Archive(t) \/ ArchiveFails(t)
    BY <1>3 DEF PushToUser, TooMany, Save, SaveFails, Lookup, Grouped, SendGroup, SendSucceeds,
       SendFails, SendPanics, UpdateRow, UpdateRowFails, Return, dataVars
  <2>2. tpc[t] = "send" /\ Fits(t)
    BY <2>1 DEF Archive, ArchiveFails, Sent, CallsAreRegular
  <2>3. m \in Offline(t)
    BY <2>1 DEF Archive, ArchiveFails, Insert
  <2>4. tpc'[t] \in {"update", "failed"}
    BY <1>1, <2>1 DEF Archive, ArchiveFails, End, TaskType
  <2> QED BY <2>2, <2>3, <2>4 DEF Offline, HadItsTurn, Fits
<1>4. ~ Deliver /\ ~ DeliverLate
  BY DEF Deliver, DeliverLate, dataVars
<1>5. ~ Restart
  BY DEF Restart, dataVars
<1> QED BY <1>2, <1>3, <1>4, <1>5, OneActor DEF dataVars

\* When a call finds a message's user it has not been archived by that call,
\* and by no other if no other carries it.
LEMMA LookupFacts ==
  ASSUME TypeOK, RoutesInv, NEW t \in Tasks, NEW m \in Msgs, Lookup(t, m), mask' = mask
  PROVE  /\ SendsOnly(t, m)'
         /\ Unrepeated(m) => store[m] = "none"
<1>1. TaskType
  BY DEF TypeOK
<1>2. m \in todo[t] /\ tpc[t] = "lookup" /\ tpc' = tpc /\ todo'[t] = todo[t] \ {m}
  BY <1>1 DEF Lookup, IsLeast, TaskType
<1>3. m \in TaskMsgs[t] /\ Fits(t) /\ mask[t][m] = "send failed"
  BY <1>2 DEF RoutesInv, CallsAreRegular
<1>4. SendsOnly(t, m)'
  BY <1>2, <1>3 DEF SendsOnly, Fits
<1>5. ASSUME Unrepeated(m), store[m] # "none" PROVE FALSE
  <2>1. PICK s \in Tasks : HadItsTurn(s, m)
    BY <1>5 DEF RoutesInv, ArchivedByCalls
  <2>2. s = t
    BY <1>3, <1>5, <2>1 DEF Unrepeated, HadItsTurn
  <2> QED BY <1>2, <2>1, <2>2 DEF HadItsTurn
<1> QED BY <1>4, <1>5

LEMMA RoutesInvStep ==
  ASSUME TypeOK, CallersWait, RoutesInv, [Next]_vars
  PROVE  RoutesInv'
<1>1. CallsAreRegular /\ SendersSendOnly /\ ArchivedByCalls /\ RoutesExclude
  BY DEF RoutesInv
<1>2. pushed \subseteq Msgs
  BY DEF TypeOK, RpcType
<1>3. ASSUME NEW t \in Tasks, NEW m \in Msgs, OnItsWay(t, m)' PROVE SendsOnly(t, m)'
  <2>1. CASE OnItsWay(t, m)
    BY <1>1, <2>1, SendsOnlyStays DEF SendersSendOnly
  <2> QED BY <1>3, <2>1, OnItsWayStep, LookupFacts
<1>4. ASSUME NEW m \in pushed' PROVE \E t \in Tasks : SendsOnly(t, m)'
  <2>1. CASE m \in pushed
    BY <1>1, <1>2, <2>1, SendsOnlyStays DEF SendersSendOnly
  <2>2. CASE m \notin pushed
    <3>1. PICK t \in Tasks : m \in Msgs /\ OnItsWay(t, m)
      BY <2>2, PushedStep
    <3> QED BY <1>1, <3>1, SendsOnlyStays DEF SendersSendOnly
  <2> QED BY <2>1, <2>2
<1>5. ASSUME NEW m \in Msgs, store'[m] # "none" PROVE \E t \in Tasks : HadItsTurn(t, m)'
  <2>1. CASE store[m] # "none"
    BY <1>1, <2>1, HadItsTurnStays DEF ArchivedByCalls
  <2>2. CASE store[m] = "none"
    BY <1>1, <1>5, <2>2, ArchivedStep
  <2> QED BY <2>1, <2>2
<1>6. ASSUME NEW m \in Msgs, Unrepeated(m), store'[m] # "none"
      PROVE  m \notin pushed' /\ \A t \in Tasks : ~ OnItsWay(t, m)'
  <2>1. CASE store[m] # "none"
    <3>1. m \notin pushed /\ \A t \in Tasks : ~ OnItsWay(t, m)
      BY <1>1, <1>6, <2>1 DEF RoutesExclude
    <3>2. m \notin pushed'
      BY <3>1, PushedStep
    <3>3. \A t \in Tasks : ~ OnItsWay(t, m)'
      BY <1>6, <2>1, <3>1, OnItsWayStep, LookupFacts
    <3> QED BY <3>2, <3>3
  <2>2. CASE store[m] = "none"
    <3>1. PICK s \in Tasks : /\ m \in TaskMsgs[s] /\ Fits(s)
                             /\ tpc[s] = "send" /\ mask[s][m] = "user offline"
      BY <1>1, <1>6, <2>2, ArchivedStep
    <3>2. \A t \in Tasks : ~ SendsOnly(t, m)
      BY <1>6, <3>1 DEF Unrepeated, SendsOnly
    <3>3. m \notin pushed /\ \A t \in Tasks : ~ OnItsWay(t, m)
      BY <1>1, <3>2 DEF SendersSendOnly
    <3>4. m \notin pushed'
      BY <3>3, PushedStep
    <3>5. ASSUME NEW t \in Tasks, Lookup(t, m) PROVE FALSE
      BY <1>1, <1>6, <3>1, <3>5 DEF Lookup, IsLeast, CallsAreRegular, Unrepeated
    <3> QED BY <3>3, <3>4, <3>5, OnItsWayStep
  <2> QED BY <2>1, <2>2
<1>7. CallsAreRegular'
  BY <1>1, CallsAreRegularStep
<1>8. SendersSendOnly' BY <1>3, <1>4 DEF SendersSendOnly
<1>9. ArchivedByCalls' BY <1>5 DEF ArchivedByCalls
<1>10. RoutesExclude' BY <1>6 DEF RoutesExclude, Unrepeated, Fits
<1> QED BY <1>7, <1>8, <1>9, <1>10 DEF RoutesInv

LEMMA InitRoutesInv == Init => RoutesInv
<1> SUFFICES ASSUME Init PROVE RoutesInv
  OBVIOUS
<1>1. CallsAreRegular
  BY DEF Init, CallsAreRegular
<1>2. \A t \in Tasks, m \in Msgs : ~ OnItsWay(t, m)
  BY DEF Init, OnItsWay, NoRequest
<1>3. SendersSendOnly
  BY <1>2 DEF Init, SendersSendOnly
<1>4. ArchivedByCalls /\ RoutesExclude
  BY DEF Init, ArchivedByCalls, RoutesExclude
<1> QED BY <1>1, <1>3, <1>4 DEF RoutesInv

\* A message that one call carries is never both accepted by a node from that
\* call and stored in the archive, also when the request was given up on and
\* carried out late (msgSendMask, archiveOfflineMessages).
THEOREM ExclusiveRoutes == Spec => []RoutesAreExclusive
<1>1. TypeOK /\ CallersWait /\ RoutesInv /\ [Next]_vars => RoutesInv'
  BY RoutesInvStep
<1>2. RoutesInv => RoutesAreExclusive
  BY DEF RoutesInv, RoutesExclude, RoutesAreExclusive
<1> QED BY <1>1, <1>2, InitRoutesInv, TypesAndWaiting, PTL DEF Spec

-----------------------------------------------------------------------------
(* Delivery is final                                                       *)

\* Call t has written the outcome of m, and writes no other.
Settled(t, m) == tpc[t] \in {"update", "done", "failed"} /\ m \notin todo[t]

\* A row says "sent" only after the one call that carries the message wrote so.
SentRowsAreSettled ==
  \A t \in Tasks, m \in Msgs :
    m \in TaskMsgs[t] /\ Fits(t) /\ Unrepeated(m) /\ "sent" \in rows[m] => Settled(t, m)

\* Which steps write the rows of a message: the insert of a call that starts,
\* and the statement of a call that ends.
LEMMA RowsStep ==
  ASSUME TypeOK, CallsAreRegular, [Next]_vars, NEW m \in Msgs, rows'[m] # rows[m]
  PROVE  \E t \in Tasks :
           /\ m \in TaskMsgs[t] /\ Fits(t)
           /\ \/ tpc[t] = "idle" /\ rows'[m] = rows[m] \cup {"pending"}
              \/ UpdateRow(t, m)
<1>1. rows' # rows
  OBVIOUS
<1>2. ASSUME NEW p \in Partitions, Handler(p), ~ PagePanics(p) PROVE rows' = rows
  BY <1>2 DEF Handler, UserOnline, Retrieve, RetrieveFails, SendPage, PageAccepted, PageFails,
     Acknowledge, AcknowledgeFails, MarkMessage, dataVars
<1>3. PICK t \in Tasks : PushToUser(t)
  BY <1>1, <1>2, OneActor DEF Deliver, DeliverLate, Restart, dataVars
<1>4. CASE (Save(t) \/ SaveFails(t)) /\ InsertRows(t)
  <2>1. tpc[t] = "idle" /\ Fits(t)
    BY <1>4 DEF Save, SaveFails
  <2>2. m \in TaskMsgs[t] /\ rows'[m] = rows[m] \cup {"pending"}
    BY <1>4 DEF InsertRows
  <2> QED BY <2>1, <2>2
<1>5. ASSUME NEW k \in Msgs, UpdateRow(t, k) PROVE UpdateRow(t, m) /\ m \in TaskMsgs[t] /\ Fits(t)
  <2>1. k = m
    BY <1>5 DEF UpdateRow, TypeOK, DataType
  <2> QED BY <1>5, <2>1 DEF UpdateRow, CallsAreRegular
<1>6. CASE \E k \in Msgs : UpdateRow(t, k)
  BY <1>5, <1>6
<1> QED
  BY <1>1, <1>3, <1>4, <1>6 DEF PushToUser, TooMany, Save, SaveFails, Lookup, Grouped, SendGroup,
     SendSucceeds, SendFails, SendPanics, Archive, ArchiveFails, UpdateRowFails, Return, dataVars

LEMMA SettledStays ==
  ASSUME TypeOK, [Next]_vars, NEW t \in Tasks, NEW m \in Msgs, Settled(t, m)
  PROVE  Settled(t, m)'
<1> SUFFICES tpc'[t] \in {"update", "done", "failed"} /\ m \notin todo'[t]
  BY DEF Settled
<1>1. TaskType
  BY DEF TypeOK
<1>2. tpc[t] \in {"update", "done", "failed"} /\ m \notin todo[t]
  BY DEF Settled
<1>3. CASE UNCHANGED CallOf(t) BY <1>2, <1>3 DEF CallOf
<1>4. CASE Restart BY <1>1, <1>2, <1>4 DEF Restart, TaskType
<1>5. CASE PushToUser(t)
  <2>1. CASE Returns(t) BY <2>1, ReturnFacts
  <2>2. CASE \E k \in Msgs : UpdateRow(t, k)
    BY <1>1, <1>2, <2>2 DEF UpdateRow, TaskType
  <2>3. CASE (\E n \in Nodes : SendGroup(t, n)) \/ Archive(t)
    BY <1>2, <2>3 DEF SendGroup, Archive, Sent
  <2>4. CASE SendSucceeds(t) \/ SendFails(t)
    BY <1>2, <2>4 DEF SendSucceeds, SendFails, taskVars
  <2> QED
    BY <1>2, <1>5, <2>1, <2>2, <2>3, <2>4 DEF PushToUser, Returns, Save, Lookup, Grouped
<1> QED BY <1>3, <1>4, <1>5, OwnCall

LEMMA SentRowsAreSettledStep ==
  ASSUME TypeOK, CallsAreRegular, SentRowsAreSettled, [Next]_vars
  PROVE  SentRowsAreSettled'
<1> SUFFICES ASSUME NEW t \in Tasks, NEW m \in Msgs, m \in TaskMsgs[t], Fits(t), Unrepeated(m),
                    "sent" \in rows'[m]
             PROVE  Settled(t, m)'
  BY DEF SentRowsAreSettled, Unrepeated, Fits
<1>1. CASE "sent" \in rows[m]
  BY <1>1, SettledStays DEF SentRowsAreSettled
<1>2. CASE "sent" \notin rows[m]
  <2>1. PICK s \in Tasks : /\ m \in TaskMsgs[s] /\ Fits(s)
                           /\ \/ tpc[s] = "idle" /\ rows'[m] = rows[m] \cup {"pending"}
                              \/ UpdateRow(s, m)
    BY <1>2, RowsStep
  <2>2. s = t
    BY <2>1 DEF Unrepeated
  <2>3. UpdateRow(t, m)
    BY <1>2, <2>1, <2>2
  <2> QED BY <2>3 DEF UpdateRow, Settled, TypeOK, TaskType
<1> QED BY <1>1, <1>2

LEMMA InitSentRowsAreSettled == Init => SentRowsAreSettled
BY DEF Init, SentRowsAreSettled

\* No later step takes "sent" back from a message carried by one call, or makes
\* a delivered message pending in the archive again (updateMessageStatus,
\* BatchInsertOfflineMessages, UpdateMessagesStatus).
THEOREM FinalDelivery == Spec => DeliveryIsFinal
<1>1. TypeOK /\ CallersWait /\ RoutesInv /\ [Next]_vars => RoutesInv'
  BY RoutesInvStep
<1>2. TypeOK /\ RoutesInv /\ SentRowsAreSettled /\ [Next]_vars => SentRowsAreSettled'
  BY SentRowsAreSettledStep DEF RoutesInv
<1>3. TypeOK /\ RoutesInv /\ SentRowsAreSettled /\ [Next]_vars
      => [\A m \in Msgs :
            /\ Unrepeated(m) /\ rows[m] = {"sent"} => rows'[m] = {"sent"}
            /\ store[m] = "delivered" => store'[m] = "delivered"]_vars
  <2> SUFFICES ASSUME TypeOK, RoutesInv, SentRowsAreSettled, [Next]_vars, NEW m \in Msgs
               PROVE  /\ Unrepeated(m) /\ rows[m] = {"sent"} => rows'[m] = {"sent"}
                      /\ store[m] = "delivered" => store'[m] = "delivered"
    OBVIOUS
  <2>1. CallsAreRegular
    BY DEF RoutesInv
  <2>2. ASSUME Unrepeated(m), rows[m] = {"sent"}, rows'[m] # rows[m] PROVE FALSE
    <3>1. PICK t \in Tasks : /\ m \in TaskMsgs[t] /\ Fits(t)
                             /\ tpc[t] = "idle" \/ UpdateRow(t, m)
      BY <2>1, <2>2, RowsStep
    <3>2. Settled(t, m)
      BY <2>2, <3>1 DEF SentRowsAreSettled
    <3> QED BY <3>1, <3>2 DEF Settled, UpdateRow
  <2> QED BY <2>2, StoreGrows
<1> QED
  BY <1>1, <1>2, <1>3, InitRoutesInv, InitSentRowsAreSettled, TypesAndWaiting, PTL
  DEF Spec, DeliveryIsFinal

-----------------------------------------------------------------------------
(* A call that succeeds has recorded what became of its messages           *)

\* Without timeouts and dying nodes every request of a call is answered.
AllAnswered == Faults \cap {"rpc", "exit"} = {}

\* Call t has taken notice of the acceptance of m, or will with its answer, or
\* has not succeeded.
AcceptanceIsKnown(t, m) ==
  m \in pushed =>
    \/ tpc[t] = "failed"
    \/ tpc[t] = "send" /\ call.by = t /\ m \in call.ok
    \/ tpc[t] \in {"send", "update"} /\ mask[t][m] = "ok"
    \/ tpc[t] = "done" /\ rows[m] = {"sent"}

\* Call t has written the outcome of m, once and for all.
RowIsWritten(t, m) ==
  /\ tpc[t] = "update" /\ m \notin todo[t] => rows[m] = {Status(mask[t][m])}
  /\ tpc[t] = "done" => rows[m] \in {{"sent"}, {"pending"}}

\* Call t, and no other one that is taken up, carries m.
Carries(t, m) == m \in TaskMsgs[t] /\ Fits(t) /\ Unrepeated(m)

\* Only calls that failed have requests that were given up on.
LateOnesFailed == \A r \in late : r[1] \in Tasks => tpc[r[1]] = "failed"

SuccessInv ==
  /\ \A t \in Tasks, m \in Msgs : Carries(t, m) => RowIsWritten(t, m)
  /\ AllAnswered => LateOnesFailed
  /\ AllAnswered => \A t \in Tasks, m \in Msgs : Carries(t, m) => AcceptanceIsKnown(t, m)

\* A node accepts from a call in answer to its request, or late.
LEMMA AcceptedFrom ==
  ASSUME TypeOK, CallersWait, [Next]_vars, NEW m \in pushed', m \notin pushed
  PROVE  /\ m \in Msgs /\ UNCHANGED <<taskVars, dataVars>>
         /\ \E t \in Tasks :
              /\ OnItsWay(t, m)
              /\ \/ tpc[t] = "send" /\ call'.by = t /\ m \in call'.ok
                 \/ \E n \in Nodes : <<t, n, m>> \in late
<1> USE TasksAssumption, NoneAssumption
<1>1. CASE Deliver
  <2>1. PICK k \in Msgs :
          /\ call.by # None /\ k \in call.rest
          /\ \/ /\ Accept(call.by, k)
                /\ call' = [call EXCEPT !.rest = @ \ {k}, !.ok = @ \cup {k}]
             \/ UNCHANGED pushed
          /\ UNCHANGED <<taskVars, dataVars>>
    BY <1>1 DEF Deliver, IsLeast
  <2>2. call.by \in Tasks /\ k = m
    BY <2>1 DEF Accept
  <2>3. call \in Requests
    BY <2>1, RequestFacts
  <2>4. call'.by = call.by /\ m \in call'.ok
    BY <2>1, <2>2, <2>3 DEF Requests
  <2> QED BY <2>1, <2>2, <2>4 DEF OnItsWay, CallersWait
<1>2. CASE DeliverLate
  <2>1. PICK r \in late : /\ Accept(r[1], r[3]) \/ UNCHANGED pushed
                          /\ UNCHANGED <<taskVars, dataVars>>
    BY <1>2 DEF DeliverLate
  <2>2. r[1] \in Tasks /\ r[3] = m
    BY <2>1 DEF Accept
  <2>3. r = <<r[1], r[2], r[3]>> /\ r[2] \in Nodes /\ r[3] \in Msgs
    BY <2>1 DEF TypeOK, RpcType
  <2> QED BY <2>1, <2>2, <2>3 DEF OnItsWay
<1>3. ASSUME NEW t \in Tasks, PushToUser(t) PROVE UNCHANGED pushed
  BY <1>3, PushToUserFrame
<1>4. ASSUME NEW p \in Partitions, Handler(p), ~ PagePanics(p) PROVE UNCHANGED pushed
  BY <1>4 DEF Handler, UserOnline, Retrieve, RetrieveFails, SendPage, PageAccepted, PageFails,
     Acknowledge, AcknowledgeFails, MarkMessage, rpcVars
<1>5. CASE Restart BY <1>5 DEF Restart
<1> QED BY <1>1, <1>2, <1>3, <1>4, <1>5, OneActor

\* Nobody but its owner ends a request.
LEMMA RequestIsOwned ==
  ASSUME TypeOK, [Next]_vars, NEW t \in Tasks, call.by = t, ~ Restart,
         call'.by # t \/ ~ (call.ok \subseteq call'.ok)
  PROVE  PushToUser(t)
<1> USE TasksAssumption, NoneAssumption
<1>1. ASSUME Deliver PROVE FALSE
  <2>1. PICK k \in Msgs : \/ call' = [call EXCEPT !.rest = @ \ {k}, !.ok = @ \cup {k}]
                          \/ call' = [call EXCEPT !.rest = @ \ {k}, !.refused = @ \cup {k}]
    BY <1>1 DEF Deliver
  <2>2. call \in Requests
    BY RequestFacts
  <2> QED BY <2>1, <2>2 DEF Requests
<1>2. ASSUME NEW p \in Partitions, Handler(p), ~ PagePanics(p) PROVE UNCHANGED call
  BY <1>2 DEF Handler, UserOnline, Retrieve, RetrieveFails, SendPage, PageAccepted, PageFails,
     AllAccepted, AllRefused, Answered, CallFails, Acknowledge, AcknowledgeFails, MarkMessage,
     rpcVars
<1>3. ASSUME NEW s \in Tasks, PushToUser(s), s # t PROVE UNCHANGED call
  BY <1>3 DEF PushToUser, TooMany, Save, SaveFails, Lookup, Grouped, SendGroup, SendSucceeds,
     SendFails, SendPanics, Archive, ArchiveFails, UpdateRow, UpdateRowFails, Return,
     AllAccepted, AllRefused, SomeRefused, Answered, CallFails, rpcVars
<1> QED BY <1>1, <1>2, <1>3, OneActor DEF DeliverLate

\* A call that has returned does nothing more.
LEMMA CallsReturnOnce ==
  ASSUME TypeOK, CallersWait, [Next]_vars, NEW t \in Tasks, tpc[t] \in {"done", "failed"}
  PROVE  tpc'[t] = tpc[t]
<1>1. ~ PushToUser(t)
  BY DEF PushToUser, TooMany, Save, SaveFails, Lookup, Grouped, SendGroup, SendSucceeds,
     SendFails, SendPanics, Archive, ArchiveFails, UpdateRow, UpdateRowFails, Return, Sent,
     AllAccepted, AllRefused, SomeRefused, Answered, CallFails, CallersWait
<1>2. CASE Restart BY <1>2 DEF Restart, TypeOK, TaskType
<1> QED BY <1>1, <1>2, OwnCall DEF CallOf

LEMMA LateOnesFailedStep ==
  ASSUME TypeOK, CallersWait, AllAnswered, LateOnesFailed, [Next]_vars
  PROVE  LateOnesFailed'
<1> SUFFICES ASSUME NEW r \in late', r[1] \in Tasks PROVE tpc'[r[1]] = "failed"
  BY DEF LateOnesFailed
<1>1. CASE r \in late
  BY <1>1, CallsReturnOnce DEF LateOnesFailed
<1>2. CASE r \notin late
  <2>1. ASSUME NEW t \in Tasks, PushToUser(t) PROVE late' = late
    BY <2>1 DEF PushToUser, TooMany, Save, SaveFails, Lookup, Grouped, SendGroup, SendSucceeds,
       SendFails, SendPanics, Archive, ArchiveFails, UpdateRow, UpdateRowFails, Return,
       CallFails, AllAnswered, rpcVars
  <2>2. ASSUME NEW p \in Partitions, Handler(p), ~ PagePanics(p) PROVE late' = late
    BY <2>2 DEF Handler, UserOnline, Retrieve, RetrieveFails, SendPage, PageAccepted, PageFails,
       CallFails, AllAnswered, Acknowledge, AcknowledgeFails, MarkMessage, rpcVars
  <2>3. Restart /\ GiveUp
    BY <1>2, <2>1, <2>2, OneActor DEF Deliver, DeliverLate
  <2>4. call.by = r[1]
    BY <1>2, <2>3 DEF GiveUp
  <2>5. tpc[r[1]] = "send"
    BY <2>4 DEF CallersWait
  <2> QED BY <2>3, <2>5 DEF Restart
<1> QED BY <1>1, <1>2

LEMMA RowIsWrittenStep ==
  ASSUME TypeOK, CallersWait, CallsAreRegular, [Next]_vars,
         NEW t \in Tasks, NEW m \in Msgs, Carries(t, m), RowIsWritten(t, m)
  PROVE  RowIsWritten(t, m)'
<1> SUFFICES /\ tpc'[t] = "update" /\ m \notin todo'[t] => rows'[m] = {Status(mask'[t][m])}
             /\ tpc'[t] = "done" => rows'[m] \in {{"sent"}, {"pending"}}
  BY DEF RowIsWritten, Status
<1>1. TaskType /\ DataType
  BY DEF TypeOK
<1>2. /\ tpc[t] = "update" /\ m \notin todo[t] => rows[m] = {Status(mask[t][m])}
      /\ tpc[t] = "done" => rows[m] \in {{"sent"}, {"pending"}}
  BY DEF RowIsWritten
<1>3. rows'[m] # rows[m] => tpc[t] = "idle" \/ UpdateRow(t, m)
  <2>1. ASSUME NEW s \in Tasks, m \in TaskMsgs[s], Fits(s) PROVE s = t
    BY <2>1 DEF Carries, Unrepeated
  <2> QED BY <2>1, RowsStep
<1>4. CASE UNCHANGED CallOf(t)
  <2>1. ~ UpdateRow(t, m)
    BY <1>1, <1>4 DEF UpdateRow, TaskType, CallOf
  <2> QED BY <1>2, <1>3, <1>4, <2>1 DEF CallOf
<1>5. CASE Restart
  BY <1>1, <1>2, <1>5 DEF Restart, TaskType, dataVars
<1>6. CASE UpdateRow(t, m)
  BY <1>1, <1>6 DEF UpdateRow, TaskType, DataType
<1>7. ASSUME NEW k \in Msgs, k # m, UpdateRow(t, k) PROVE RowIsWritten(t, m)'
  <2>1. rows'[m] = rows[m] /\ tpc' = tpc /\ mask' = mask /\ todo'[t] = todo[t] \ {k}
    BY <1>1, <1>7 DEF UpdateRow, TaskType, DataType
  <2> QED BY <1>2, <1>7, <2>1 DEF RowIsWritten, Status
<1>8. CASE Return(t)
  <2>1. tpc[t] = "update" /\ m \notin todo[t] /\ rows' = rows /\ tpc'[t] = "done"
    BY <1>1, <1>8 DEF Return, End, TaskType, dataVars
  <2> QED BY <1>2, <2>1 DEF Status
<1>9. CASE Archive(t)
  BY <1>1, <1>9 DEF Archive, Carries, TaskType
<1>10. CASE Returns(t) /\ ~ Return(t)
  <2>1. End(t, "failed")
    BY <1>10 DEF Returns, TooMany, SaveFails, SendPanics, ArchiveFails, UpdateRowFails
  <2> QED BY <1>1, <2>1 DEF End, TaskType
<1>11. CASE PushToUser(t) /\ ~ Returns(t) /\ ~ Archive(t) /\ ~ \E k \in Msgs : UpdateRow(t, k)
  <2>1. tpc'[t] \in {"lookup", "send"}
    BY <1>1, <1>11 DEF PushToUser, Returns, Save, Lookup, Grouped, SendGroup, SendSucceeds,
       SendFails, CallFails, AllAccepted, AllRefused, Answered, CallersWait, TaskType, taskVars
  <2> QED BY <2>1
<1> QED
  BY <1>4, <1>5, <1>6, <1>7, <1>8, <1>9, <1>10, <1>11, OwnCall DEF RowIsWritten, Status

LEMMA AcceptanceIsKnownStep ==
  ASSUME TypeOK, CallersWait, RoutesInv, SuccessInv, AllAnswered, [Next]_vars,
         NEW t \in Tasks, NEW m \in Msgs, Carries(t, m), AcceptanceIsKnown(t, m)
  PROVE  AcceptanceIsKnown(t, m)'
<1> SUFFICES ASSUME m \in pushed'
             PROVE  \/ tpc'[t] = "failed"
                    \/ tpc'[t] = "send" /\ call'.by = t /\ m \in call'.ok
                    \/ tpc'[t] \in {"send", "update"} /\ mask'[t][m] = "ok"
                    \/ tpc'[t] = "done" /\ rows'[m] = {"sent"}
  BY DEF AcceptanceIsKnown
<1>1. TaskType /\ CallsAreRegular
  BY DEF TypeOK, RoutesInv
<1>2. ASSUME NEW s \in Tasks, m \in TaskMsgs[s], Fits(s) PROVE s = t
  BY <1>2 DEF Carries, Unrepeated
<1>3. CASE m \notin pushed
  <2>1. UNCHANGED <<taskVars, dataVars>>
    BY <1>3, AcceptedFrom
  <2>2. PICK s \in Tasks :
          /\ OnItsWay(s, m)
          /\ \/ tpc[s] = "send" /\ call'.by = s /\ m \in call'.ok
             \/ \E n \in Nodes : <<s, n, m>> \in late
    BY <1>3, AcceptedFrom
  <2>3. s = t
    BY <1>2, <2>2 DEF RoutesInv, SendersSendOnly, SendsOnly
  <2>4. (\E n \in Nodes : <<s, n, m>> \in late) => tpc[t] = "failed"
    BY <2>3 DEF SuccessInv, LateOnesFailed
  <2> QED BY <2>1, <2>2, <2>3, <2>4 DEF taskVars
<1>4. CASE m \in pushed
  <2>1. \/ tpc[t] = "failed"
        \/ tpc[t] = "send" /\ call.by = t /\ m \in call.ok
        \/ tpc[t] \in {"send", "update"} /\ mask[t][m] = "ok"
        \/ tpc[t] = "done" /\ rows[m] = {"sent"}
    BY <1>4 DEF AcceptanceIsKnown
  <2>2. CASE tpc[t] = "failed"
    BY <2>2, CallsReturnOnce
  <2>3. CASE tpc[t] = "done" /\ rows[m] = {"sent"}
    <3>1. rows'[m] = rows[m]
      BY <1>1, <1>2, <2>3, RowsStep DEF UpdateRow
    <3> QED BY <2>3, <3>1, CallsReturnOnce
  <2>4. CASE Restart
    BY <1>1, <2>1, <2>3, <2>4 DEF Restart, TaskType
  <2>5. CASE ~ PushToUser(t) /\ ~ Restart
    <3>1. UNCHANGED CallOf(t)
      BY <2>5, OwnCall
    <3>2. call.by = t => call'.by = t /\ call.ok \subseteq call'.ok
      BY <2>5, RequestIsOwned
    <3> QED BY <2>1, <2>3, <3>1, <3>2 DEF CallOf
  <2>6. CASE PushToUser(t) /\ tpc[t] = "send" /\ call.by = t /\ m \in call.ok
    <3>1. CASE SendSucceeds(t)
      BY <1>1, <2>6, <3>1 DEF SendSucceeds, TaskType
    <3>2. ~ SendFails(t)
      BY <2>6 DEF SendFails, CallFails, AllRefused, AllAnswered
    <3>3. CASE SendPanics(t)
      BY <1>1, <3>3 DEF SendPanics, End, TaskType
    <3>4. call.by # None
      BY <2>6, NoneAssumption
    <3> QED
      BY <2>6, <3>1, <3>2, <3>3, <3>4 DEF PushToUser, TooMany, Save, SaveFails, Lookup, Grouped,
         SendGroup, Archive, ArchiveFails, Sent, UpdateRow, UpdateRowFails, Return
  <2>7. CASE PushToUser(t) /\ tpc[t] \in {"send", "update"} /\ mask[t][m] = "ok"
    <3>1. CASE \E n \in Nodes : SendGroup(t, n)
      BY <2>7, <3>1 DEF SendGroup
    <3>2. CASE SendSucceeds(t)
      BY <1>1, <2>7, <3>2 DEF SendSucceeds, AllAccepted, Answered, CallersWait, TaskType
    <3>3. CASE SendFails(t)
      BY <2>7, <3>3 DEF SendFails, taskVars
    <3>4. CASE SendPanics(t) \/ ArchiveFails(t) \/ UpdateRowFails(t)
      BY <1>1, <3>4 DEF SendPanics, ArchiveFails, UpdateRowFails, End, TaskType
    <3>5. CASE Archive(t)
      BY <1>1, <2>7, <3>5 DEF Archive, TaskType
    <3>6. CASE \E k \in Msgs : UpdateRow(t, k)
      BY <2>7, <3>6 DEF UpdateRow
    <3>7. CASE Return(t)
      <4>1. tpc[t] = "update" /\ m \notin todo[t] /\ rows' = rows /\ tpc'[t] = "done"
        BY <1>1, <3>7 DEF Return, End, TaskType, dataVars
      <4>2. rows[m] = {Status(mask[t][m])}
        BY <4>1 DEF SuccessInv, RowIsWritten
      <4> QED BY <2>7, <4>1, <4>2 DEF Status
    <3> QED
      BY <2>7, <3>1, <3>2, <3>3, <3>4, <3>5, <3>6, <3>7 DEF PushToUser, TooMany, Save, SaveFails,
         Lookup, Grouped
  <2> QED BY <2>1, <2>2, <2>3, <2>4, <2>5, <2>6, <2>7
<1> QED BY <1>3, <1>4

LEMMA SuccessInvStep ==
  ASSUME TypeOK, CallersWait, RoutesInv, SuccessInv, [Next]_vars
  PROVE  SuccessInv'
<1>1. ASSUME NEW t \in Tasks, NEW m \in Msgs PROVE Carries(t, m)' <=> Carries(t, m)
  BY DEF Carries, Fits, Unrepeated
<1>2. \A t \in Tasks, m \in Msgs : Carries(t, m) => RowIsWritten(t, m)'
  BY RowIsWrittenStep DEF SuccessInv, RoutesInv
<1>3. AllAnswered => LateOnesFailed'
  BY LateOnesFailedStep DEF SuccessInv
<1>4. AllAnswered => \A t \in Tasks, m \in Msgs : Carries(t, m) => AcceptanceIsKnown(t, m)'
  BY AcceptanceIsKnownStep DEF SuccessInv
<1> QED BY <1>1, <1>2, <1>3, <1>4 DEF SuccessInv, AllAnswered

LEMMA InitSuccessInv == Init => SuccessInv
BY DEF Init, SuccessInv, RowIsWritten, LateOnesFailed, AcceptanceIsKnown

\* When no request times out and no node dies, a call that succeeds has left
\* every message it alone carries one status, which is "sent" exactly when a
\* node accepted it (PushToUser's mask, updateMessageStatus).
THEOREM RecordedSuccess == Spec => []SuccessIsRecorded
<1>1. TypeOK /\ CallersWait /\ RoutesInv /\ [Next]_vars => RoutesInv'
  BY RoutesInvStep
<1>2. TypeOK /\ CallersWait /\ RoutesInv /\ SuccessInv /\ [Next]_vars => SuccessInv'
  BY SuccessInvStep
<1>3. TypeOK /\ CallsAreRegular /\ RecordedIsAccepted /\ SuccessInv => SuccessIsRecorded
  <2> SUFFICES ASSUME CallsAreRegular, RecordedIsAccepted, SuccessInv, AllAnswered,
                      NEW t \in Tasks, tpc[t] = "done", NEW m \in TaskMsgs[t], Unrepeated(m)
               PROVE  rows[m] = IF m \in pushed THEN {"sent"} ELSE {"pending"}
    BY DEF SuccessIsRecorded, AllAnswered
  <2>1. m \in Msgs
    BY TasksAssumption
  <2>2. Fits(t)
    BY DEF CallsAreRegular
  <2>3. RowIsWritten(t, m) /\ AcceptanceIsKnown(t, m)
    BY <2>1, <2>2 DEF SuccessInv, Carries
  <2>4. m \in pushed => rows[m] = {"sent"}
    BY <2>3 DEF AcceptanceIsKnown
  <2>5. m \notin pushed => rows[m] # {"sent"}
    BY <2>1 DEF RecordedIsAccepted
  <2> QED BY <2>3, <2>4, <2>5 DEF RowIsWritten
<1> QED
  BY <1>1, <1>2, <1>3, InitRoutesInv, InitSuccessInv, TypesAndWaiting, Recorded, PTL
  DEF Spec, RoutesInv

-----------------------------------------------------------------------------
(* What push does to the access service: nothing                           *)

\* The steps of push and the nodes' loop leave the access service alone, and
\* the others are steps of AccessView: with ImplementsAccess, which has the
\* connection manager behave in just that way, what is proved here of push is
\* proved of push on top of the connection manager.
THEOREM SeesAccess == Spec => View!AccessSpec
<1>1. Init => View!AccessInit
  BY DEF Init
<1>2. ASSUME [Next]_vars PROVE View!AccessNext \/ UNCHANGED accessVars
  <2>1. CASE AccessSide
    BY <2>1, AccessSideFrame
  <2>2. CASE Deliver \/ DeliverLate
    BY <2>2 DEF Deliver, DeliverLate
  <2>3. ASSUME NEW t \in Tasks, PushToUser(t) PROVE UNCHANGED accessVars
    BY <2>3, PushToUserFrame
  <2>4. ASSUME NEW p \in Partitions, Handler(p), ~ PagePanics(p) PROVE UNCHANGED accessVars
    BY <2>4 DEF Handler, UserOnline, Retrieve, RetrieveFails, SendPage, PageAccepted, PageFails,
       Acknowledge, AcknowledgeFails, MarkMessage
  <2>5. CASE \E p \in Partitions : CommitOffset(p)
    BY <2>5 DEF CommitOffset
  <2>6. Restart => UNCHANGED accessVars
    BY DEF Restart
  <2>7. CASE Crash \/ \E p \in Partitions : PagePanics(p)
    BY <2>6, <2>7 DEF Crash, PagePanics
  <2>8. CASE UNCHANGED vars
    BY <2>8 DEF vars
  <2> QED BY <1>2, <2>1, <2>2, <2>3, <2>4, <2>5, <2>7, <2>8 DEF Next, AccessSide
<1>3. [Next]_vars => [View!AccessNext]_(View!accessVars)
  BY <1>2 DEF accessVars, View!accessVars
<1> QED BY <1>1, <1>3, PTL DEF Spec, View!AccessSpec
=============================================================================

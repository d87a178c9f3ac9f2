--------------------------- MODULE PushDelivery ----------------------------
(***************************************************************************)
(* The push service and the offline store: PushToUser looks each message's *)
(* user up in Redis, sends the messages of the users it finds to their     *)
(* access node, archives those of the others and records a status per      *)
(* message; the handler of Online events drains the archive page by page.  *)
(* Pushes and handlers run concurrently; the mutex of the access node      *)
(* manager lets one request at a time go out.                              *)
(*                                                                         *)
(* The access service is reduced to what push can tell apart of it, which  *)
(* AccessView states and ConnManager implements.                           *)
(***************************************************************************)
EXTENDS Naturals, Sequences, FiniteSets

CONSTANTS
  Users,
  Nodes,             \* access processes
  Conns,             \* connections of users to nodes
  ConnUser,          \* the user of each connection
  ConnNode,          \* the node that upgraded each connection
  Patient,           \* users who reconnect only after the old connection is gone
  Msgs,              \* message ids, in the order of msg_id
  MsgUser,           \* the user a message is for; None: empty to_user_id
  Tasks,             \* calls of PushToUser
  TaskMsgs,          \* the messages of each call
  Partitions,        \* of the user_state topic
  MaxMessageCount,   \* push: most messages of a call, size of a full page
  BatchArchiveSize,  \* offline: most messages retrieved at once
  Faults,            \* what may go wrong between the services
  None

ASSUME MsgsAssumption ==
  /\ Msgs \subseteq Nat \ {0}
  /\ IsFiniteSet(Msgs)
  /\ MsgUser \in [Msgs -> Users \cup {None}]
ASSUME TasksAssumption ==
  /\ TaskMsgs \in [Tasks -> SUBSET Msgs]
  /\ Tasks \cap Partitions = {}
ASSUME PageAssumption ==
  /\ MaxMessageCount \in Nat \ {0}
  /\ BatchArchiveSize = MaxMessageCount
ASSUME ConnAssumption ==
  /\ ConnUser \in [Conns -> Users]
  /\ ConnNode \in [Conns -> Nodes]
ASSUME FaultsAssumption ==
  Faults \subseteq {"redis", "kafka", "db", "offline", "rpc", "crash", "discovery", "exit"}
ASSUME NoneAssumption == None \notin Users \cup Nodes \cup Tasks \cup Partitions

VARIABLES
  session,    \* user -> node named by the Redis session
  stage,      \* connection -> how far StartClient got
  present,    \* node -> users in its map
  clearing,   \* node -> user whose session StopClient is about to clear
  known,      \* nodes in the access node manager
  log,        \* partition -> Online events, in order
  marked,     \* partition -> events marked as consumed
  committed,  \* partition -> events a restarted consumer does not see again
  tpc,        \* call -> where PushToUser is
  todo,       \* call -> messages its current loop has still to visit
  mask,       \* call -> message -> msgSendMask
  groups,     \* call -> node -> accessMessageGroups
  hpc,        \* partition -> where UserOnline is
  cursor,     \* partition -> latestId, 0 for none
  page,       \* partition -> messagesToSend
  acks,       \* partition -> successIds
  due,        \* partition -> messages pending when UserOnline began
  call,       \* the PushMessage request under the manager's mutex
  late,       \* requests given up by push that a node is still to carry out
  rows,       \* message -> statuses of its rows in the push database
  store,      \* message -> its row in the offline database
  pushed,     \* messages a node accepted from a call of PushToUser
  drained     \* messages a node accepted from UserOnline

accessVars == <<session, stage, present, clearing>>
kafkaVars  == <<log, marked, committed>>
taskVars   == <<tpc, todo, mask, groups>>
drainVars  == <<hpc, cursor, page, acks, due>>
rpcVars    == <<known, call, late, pushed, drained>>
dataVars   == <<rows, store>>
pushVars   == <<kafkaVars, taskVars, drainVars, rpcVars, dataVars>>
vars == <<accessVars, kafkaVars, taskVars, drainVars, rpcVars, dataVars>>

\* The access service, as far as push can see it.
View == INSTANCE AccessView WITH AccessFaults <- Faults \cap {"redis", "exit"}

Callers == Tasks \cup Partitions

\* The outcomes of a message; "ok" is a nil error.
Reasons == {"send failed", "session status", "user offline", "user invalid", "ok"}

NoRequest == [by |-> None, node |-> None, rest |-> {}, ok |-> {}, refused |-> {}]
Requests == [by : Callers, node : Nodes,
             rest : SUBSET Msgs, ok : SUBSET Msgs, refused : SUBSET Msgs]

\* Faulty variant: no message is marked as failed to begin with.
NilOutcome == [m \in Msgs |-> "ok"]

\* What msgSendMask starts from.
NoOutcome == [m \in Msgs |-> "send failed"]

AccessType == View!AccessType

KafkaType ==
  /\ log \in [Partitions -> Seq([user : Users, node : Nodes])]
  /\ marked \in [Partitions -> Nat]
  /\ committed \in [Partitions -> Nat]
  /\ \A p \in Partitions : committed[p] <= marked[p] /\ marked[p] <= Len(log[p])

TaskType ==
  /\ tpc \in [Tasks -> {"idle", "lookup", "send", "update", "done", "failed"}]
  /\ todo \in [Tasks -> SUBSET Msgs]
  /\ mask \in [Tasks -> [Msgs -> Reasons]]
  /\ groups \in [Tasks -> [Nodes -> SUBSET Msgs]]

DrainType ==
  /\ hpc \in [Partitions -> {"idle", "retrieve", "send", "ack", "handled", "failed"}]
  /\ cursor \in [Partitions -> Nat]
  /\ page \in [Partitions -> SUBSET Msgs]
  /\ acks \in [Partitions -> SUBSET Msgs]
  /\ due \in [Partitions -> SUBSET Msgs]

RpcType ==
  /\ known \in SUBSET Nodes
  /\ call \in Requests \cup {NoRequest}
  /\ late \in SUBSET (Callers \X Nodes \X Msgs)
  /\ pushed \in SUBSET Msgs
  /\ drained \in SUBSET Msgs

DataType ==
  /\ rows \in [Msgs -> SUBSET {"pending", "sent"}]
  /\ store \in [Msgs -> {"none", "pending", "delivered"}]

\* A running handler has an event to handle.
HandlersHaveEvents == \A p \in Partitions : hpc[p] # "idle" => marked[p] < Len(log[p])

TypeOK ==
  /\ AccessType /\ KafkaType /\ TaskType /\ DrainType /\ RpcType /\ DataType
  /\ HandlersHaveEvents

Init ==
  /\ View!AccessInit
  /\ known = IF "discovery" \in Faults THEN {} ELSE Nodes
  /\ log = [p \in Partitions |-> <<>>]
  /\ marked = [p \in Partitions |-> 0]
  /\ committed = [p \in Partitions |-> 0]
  /\ tpc = [t \in Tasks |-> "idle"]
  /\ todo = [t \in Tasks |-> {}]
  /\ mask = [t \in Tasks |-> NoOutcome]
  /\ groups = [t \in Tasks |-> [n \in Nodes |-> {}]]
  /\ hpc = [p \in Partitions |-> "idle"]
  /\ cursor = [p \in Partitions |-> 0]
  /\ page = [p \in Partitions |-> {}]
  /\ acks = [p \in Partitions |-> {}]
  /\ due = [p \in Partitions |-> {}]
  /\ call = NoRequest
  /\ late = {}
  /\ rows = [m \in Msgs |-> {}]
  /\ store = [m \in Msgs |-> "none"]
  /\ pushed = {}
  /\ drained = {}

-----------------------------------------------------------------------------
(* The access service, as AccessView has it                                *)

Connect(c) == View!Connect(c) /\ UNCHANGED pushVars
ConnectFails(c) == View!ConnectFails(c) /\ UNCHANGED pushVars

\* The Online event goes to a random partition; an error is only logged.
Announce(c) ==
  /\ View!Announce(c)
  /\ \/ \E p \in Partitions :
          log' = [log EXCEPT ![p] = Append(@, [user |-> ConnUser[c], node |-> ConnNode[c]])]
     \/ "kafka" \in Faults /\ UNCHANGED log
  /\ UNCHANGED <<marked, committed, taskVars, drainVars, rpcVars, dataVars>>

Register(c) == View!Register(c) /\ UNCHANGED pushVars
Disconnect(n, u) == View!Disconnect(n, u) /\ UNCHANGED pushVars
ClearSession(n) == View!ClearSession(n) /\ UNCHANGED pushVars
SessionExpire(u) == View!SessionExpire(u) /\ UNCHANGED pushVars

\* What the node had still to do for push is refused or given up on.
NodeExits(n) == View!Exit(n) /\ UNCHANGED pushVars

\* updateNodesFromInstances finds a node; none is ever removed.
Discover(n) ==
  /\ n \notin known
  /\ known' = known \cup {n}
  /\ UNCHANGED <<accessVars, kafkaVars, taskVars, drainVars, call, late, pushed, drained, dataVars>>

-----------------------------------------------------------------------------
(* A PushMessage request, from AccessNodeManager.SendToUser to its answer   *)

\* SendToUser takes the mutex and calls node n.
Request(x, n, S) ==
  call' = [by |-> x, node |-> n, rest |-> S, ok |-> {}, refused |-> {}]

IsLeast(m, S) == m \in S /\ \A k \in S : m <= k

\* Node n takes message m into the user's queue.
Accept(x, m) ==
  /\ pushed' = IF x \in Tasks THEN pushed \cup {m} ELSE pushed
  /\ drained' = IF x \in Partitions THEN drained \cup {m} ELSE drained

IsUp(n, m) == MsgUser[m] \in present[n]

\* The node's loop hands the next message to its connection manager, which
\* refuses it when the user is not in the map.
Deliver ==
  \E m \in Msgs :
    /\ call.by # None
    /\ IsLeast(m, call.rest)
    /\ \/ /\ IsUp(call.node, m)
          /\ Accept(call.by, m)
          /\ call' = [call EXCEPT !.rest = @ \ {m}, !.ok = @ \cup {m}]
       \/ /\ ~ IsUp(call.node, m)
          /\ call' = [call EXCEPT !.rest = @ \ {m}, !.refused = @ \cup {m}]
          /\ UNCHANGED <<pushed, drained>>
    /\ UNCHANGED <<accessVars, kafkaVars, taskVars, drainVars, known, late, dataVars>>

\* What is left of a request that push gave up: nothing when it never reached
\* the node, else the messages the node has not come to.
GiveUp ==
  \/ UNCHANGED late
  \/ late' = late \cup {<<call.by, call.node, m>> : m \in call.rest}

\* The node carries out a message of such a request.
DeliverLate ==
  \E r \in late :
    /\ late' = late \ {r}
    /\ \/ IsUp(r[2], r[3]) /\ Accept(r[1], r[3])
       \/ ~ IsUp(r[2], r[3]) /\ UNCHANGED <<pushed, drained>>
    /\ UNCHANGED <<accessVars, kafkaVars, taskVars, drainVars, known, call, dataVars>>

\* How the node answers caller x.
Answered(x) == call.by = x /\ call.rest = {}
AllAccepted(x) == Answered(x) /\ call.refused = {}
AllRefused(x) == Answered(x) /\ call.refused # {} /\ call.ok = {}
SomeRefused(x) == Answered(x) /\ call.refused # {} /\ call.ok # {}

\* The call ends in an error and no response: a refusal of everything, a
\* timeout or a broken connection.
CallFails(x) ==
  \/ AllRefused(x) /\ UNCHANGED late
  \/ call.by = x /\ Faults \cap {"rpc", "exit"} # {} /\ GiveUp

-----------------------------------------------------------------------------
(* PushToUser                                                              *)

\* PushToUser returns and its locals are gone.
End(t, result) ==
  /\ tpc' = [tpc EXCEPT ![t] = result]
  /\ todo' = [todo EXCEPT ![t] = {}]
  /\ mask' = [mask EXCEPT ![t] = NoOutcome]
  /\ groups' = [groups EXCEPT ![t] = [n \in Nodes |-> {}]]

Fits(t) == Cardinality(TaskMsgs[t]) <= MaxMessageCount

\* More messages than a call may have.
TooMany(t) ==
  /\ tpc[t] = "idle"
  /\ ~ Fits(t)
  /\ End(t, "failed")
  /\ UNCHANGED <<accessVars, kafkaVars, drainVars, rpcVars, dataVars>>

\* SaveMessages: a new row for each message, also for one that has a row.
InsertRows(t) ==
  rows' = [m \in Msgs |-> IF m \in TaskMsgs[t] THEN rows[m] \cup {"pending"} ELSE rows[m]]

\* The messages are saved, and every outcome starts as a failed send.
Save(t) ==
  /\ tpc[t] = "idle"
  /\ Fits(t)
  /\ InsertRows(t)
  /\ mask' = [mask EXCEPT ![t] = NoOutcome]
  /\ todo' = [todo EXCEPT ![t] = TaskMsgs[t]]
  /\ tpc' = [tpc EXCEPT ![t] = "lookup"]
  /\ UNCHANGED <<accessVars, kafkaVars, groups, drainVars, rpcVars, store>>

\* The insert fails, or its answer is lost: PushToUser returns.
SaveFails(t) ==
  /\ tpc[t] = "idle"
  /\ Fits(t)
  /\ "db" \in Faults
  /\ InsertRows(t) \/ UNCHANGED rows
  /\ End(t, "failed")
  /\ UNCHANGED <<accessVars, kafkaVars, drainVars, rpcVars, store>>

\* A message that groupMessageByConnectId leaves out of the groups.
Ungrouped(t, m, reason) ==
  /\ mask' = [mask EXCEPT ![t][m] = reason]
  /\ UNCHANGED groups

\* groupMessageByConnectId looks up the user of the next message.
Lookup(t, m) ==
  LET u == MsgUser[m] IN
  /\ tpc[t] = "lookup"
  /\ IsLeast(m, todo[t])
  /\ todo' = [todo EXCEPT ![t] = @ \ {m}]
  /\ \/ u = None /\ Ungrouped(t, m, "user invalid")
     \/ u # None /\ "redis" \in Faults /\ Ungrouped(t, m, "session status")
     \/ u # None /\ session[u] = None /\ Ungrouped(t, m, "user offline")
     \/ /\ u # None /\ session[u] # None
        /\ groups' = [groups EXCEPT ![t][session[u]] = @ \cup {m}]
        /\ UNCHANGED mask
  /\ UNCHANGED <<accessVars, kafkaVars, tpc, drainVars, rpcVars, dataVars>>

Grouped(t) ==
  /\ tpc[t] = "lookup"
  /\ todo[t] = {}
  /\ tpc' = [tpc EXCEPT ![t] = "send"]
  /\ UNCHANGED <<accessVars, kafkaVars, todo, mask, groups, drainVars, rpcVars, dataVars>>

\* sendMessageToAccessNode: the groups are sent one after the other; a node
\* the manager does not know is an error, and the loop goes on.
SendGroup(t, n) ==
  /\ tpc[t] = "send"
  /\ groups[t][n] # {}
  /\ call.by = None
  /\ groups' = [groups EXCEPT ![t][n] = {}]
  /\ \/ n \in known /\ Request(t, n, groups[t][n])
     \/ n \notin known /\ UNCHANGED call
  /\ UNCHANGED <<accessVars, kafkaVars, tpc, todo, mask, drainVars, known, late,
                 pushed, drained, dataVars>>

\* Every message of the group was accepted.
SendSucceeds(t) ==
  /\ AllAccepted(t)
  /\ mask' = [mask EXCEPT ![t] = [m \in Msgs |-> IF m \in call.ok THEN "ok" ELSE @[m]]]
  /\ call' = NoRequest
  /\ UNCHANGED <<accessVars, kafkaVars, tpc, todo, groups, drainVars, known, late,
                 pushed, drained, dataVars>>

\* Faulty variant: an error leaves SendToUser without releasing the mutex.
SendFailsLocked(t) ==
  /\ CallFails(t)
  /\ UNCHANGED <<accessVars, kafkaVars, taskVars, drainVars, known, call, pushed, drained,
                 dataVars>>

\* The outcomes of the group stay what they were.
SendFails(t) ==
  /\ CallFails(t)
  /\ call' = NoRequest
  /\ UNCHANGED <<accessVars, kafkaVars, taskVars, drainVars, known, pushed, drained,
                 dataVars>>

\* Faulty variant: the mutex is not released by the panic.
SendPanicsLocked(t) ==
  /\ SomeRefused(t)
  /\ End(t, "failed")
  /\ UNCHANGED <<accessVars, kafkaVars, drainVars, rpcVars, dataVars>>

\* A partial failure comes without the response that SendToUser goes on to
\* read: it panics, the mutex is released and the server returns an error.
SendPanics(t) ==
  /\ SomeRefused(t)
  /\ call' = NoRequest
  /\ End(t, "failed")
  /\ UNCHANGED <<accessVars, kafkaVars, drainVars, known, late,
                 pushed, drained, dataVars>>

\* All groups are sent.
Sent(t) ==
  /\ tpc[t] = "send"
  /\ \A n \in Nodes : groups[t][n] = {}
  /\ call.by # t

\* Faulty variant: every message that was not sent is archived.
NotSent(t) == {m \in TaskMsgs[t] : mask[t][m] # "ok"}

\* The messages to archive: those, and only those, of users without a session.
Offline(t) == {m \in TaskMsgs[t] : mask[t][m] = "user offline"}

Insert(S) == store' = [m \in Msgs |-> IF m \in S THEN "pending" ELSE store[m]]

\* Faulty variant: the insert overwrites a row with the same msg_id.
Overwritable(S) == TRUE

\* msg_id is unique: a message that is there already fails the whole insert.
Insertable(S) == \A m \in S : store[m] = "none"

\* archiveOfflineMessages stores the messages of users that had no session.
Archive(t) ==
  /\ Sent(t)
  /\ Insertable(Offline(t))
  /\ Insert(Offline(t))
  /\ todo' = [todo EXCEPT ![t] = TaskMsgs[t]]
  /\ tpc' = [tpc EXCEPT ![t] = "update"]
  /\ UNCHANGED <<accessVars, kafkaVars, mask, groups, drainVars, rpcVars, rows>>

\* It fails, or its answer is lost: PushToUser returns, no status is written.
ArchiveFails(t) ==
  /\ Sent(t)
  /\ Offline(t) # {}
  /\ \/ ("offline" \in Faults \/ ~ Insertable(Offline(t))) /\ UNCHANGED store
     \/ "offline" \in Faults /\ Insertable(Offline(t)) /\ Insert(Offline(t))
  /\ End(t, "failed")
  /\ UNCHANGED <<accessVars, kafkaVars, drainVars, rpcVars, rows>>

Status(reason) == IF reason = "ok" THEN "sent" ELSE "pending"

\* updateMessageStatus: one statement per message, in any order, which sets
\* every row with its msg_id.
UpdateRow(t, m) ==
  /\ tpc[t] = "update"
  /\ m \in todo[t]
  /\ rows' = [rows EXCEPT ![m] = {Status(mask[t][m])}]
  /\ todo' = [todo EXCEPT ![t] = @ \ {m}]
  /\ UNCHANGED <<accessVars, kafkaVars, tpc, mask, groups, drainVars, rpcVars, store>>

\* The first statement that fails, if only by a lost answer, ends the loop.
UpdateRowFails(t) ==
  /\ tpc[t] = "update"
  /\ TaskMsgs[t] # {}
  /\ "db" \in Faults
  /\ End(t, "failed")
  /\ UNCHANGED <<accessVars, kafkaVars, drainVars, rpcVars, dataVars>>

\* Faulty variant: the loop over the statuses is left too early.
ReturnEarly(t) ==
  /\ tpc[t] = "update"
  /\ End(t, "done")
  /\ UNCHANGED <<accessVars, kafkaVars, drainVars, rpcVars, dataVars>>

Return(t) ==
  /\ tpc[t] = "update"
  /\ todo[t] = {}
  /\ End(t, "done")
  /\ UNCHANGED <<accessVars, kafkaVars, drainVars, rpcVars, dataVars>>

-----------------------------------------------------------------------------
(* The handler of Online events                                            *)

Event(p) == log[p][marked[p] + 1]

Pending(u) == {m \in Msgs : MsgUser[m] = u /\ store[m] = "pending"}

\* ConsumeClaim takes the next event of its partition.
UserOnline(p) ==
  /\ hpc[p] = "idle"
  /\ marked[p] < Len(log[p])
  /\ hpc' = [hpc EXCEPT ![p] = "retrieve"]
  /\ cursor' = [cursor EXCEPT ![p] = 0]
  /\ due' = [due EXCEPT ![p] = Pending(Event(p).user)]
  /\ UNCHANGED <<accessVars, kafkaVars, taskVars, page, acks, rpcVars, dataVars>>

\* P is what GetOfflineMessagesByUserID makes of the matching rows S: all of
\* them, or as many as the limit allows, lowest msg_id first.
IsPage(P, S) ==
  /\ P \subseteq S
  /\ \/ P = S /\ Cardinality(P) <= BatchArchiveSize
     \/ Cardinality(P) = BatchArchiveSize
  /\ \A m \in P, k \in S \ P : m < k

\* The next page of the user's pending messages is read.
Retrieve(p) ==
  LET S == {m \in Pending(Event(p).user) : m > cursor[p]} IN
  /\ hpc[p] = "retrieve"
  /\ \E P \in SUBSET S :
       /\ IsPage(P, S)
       /\ page' = [page EXCEPT ![p] = P]
  /\ hpc' = [hpc EXCEPT ![p] = "send"]
  /\ UNCHANGED <<accessVars, kafkaVars, taskVars, cursor, acks, due, rpcVars, dataVars>>

RetrieveFails(p) ==
  /\ hpc[p] = "retrieve"
  /\ "offline" \in Faults
  /\ hpc' = [hpc EXCEPT ![p] = "failed"]
  /\ UNCHANGED <<accessVars, kafkaVars, taskVars, cursor, page, acks, due, rpcVars, dataVars>>

\* The page, empty or not, goes to the node the event names.
SendPage(p) ==
  /\ hpc[p] = "send"
  /\ call.by = None
  /\ Event(p).node \in known
  /\ Request(p, Event(p).node, page[p])
  /\ UNCHANGED <<accessVars, kafkaVars, taskVars, drainVars, known, late, pushed, drained,
                 dataVars>>

\* Every message of the page was accepted.
PageAccepted(p) ==
  /\ AllAccepted(p)
  /\ acks' = [acks EXCEPT ![p] = call.ok]
  /\ call' = NoRequest
  /\ hpc' = [hpc EXCEPT ![p] = "ack"]
  /\ UNCHANGED <<accessVars, kafkaVars, taskVars, cursor, page, due, known, late, pushed,
                 drained, dataVars>>

\* An unknown node or a failed call ends the handler.
PageFails(p) ==
  /\ \/ /\ hpc[p] = "send" /\ call.by = None
        /\ Event(p).node \notin known
        /\ UNCHANGED <<call, late>>
     \/ CallFails(p) /\ call' = NoRequest
  /\ hpc' = [hpc EXCEPT ![p] = "failed"]
  /\ UNCHANGED <<accessVars, kafkaVars, taskVars, cursor, page, acks, due, known, pushed,
                 drained, dataVars>>

\* MarkMessagesAsDelivered updates the rows there are.
MarkDelivered(S) ==
  store' = [m \in Msgs |-> IF m \in S /\ store[m] # "none" THEN "delivered" ELSE store[m]]

\* Faulty variant: the first page is taken for the last.
AcknowledgeOnce(p) ==
  /\ hpc[p] = "ack"
  /\ MarkDelivered(acks[p])
  /\ hpc' = [hpc EXCEPT ![p] = "handled"]
  /\ UNCHANGED <<accessVars, kafkaVars, taskVars, cursor, page, acks, due, rpcVars, rows>>

\* The page is acknowledged; unless it was full it was the last one, else the
\* next one starts after its last message.
Acknowledge(p) ==
  /\ hpc[p] = "ack"
  /\ MarkDelivered(acks[p])
  /\ \/ /\ Cardinality(page[p]) # MaxMessageCount
        /\ hpc' = [hpc EXCEPT ![p] = "handled"]
        /\ UNCHANGED cursor
     \/ /\ Cardinality(page[p]) = MaxMessageCount
        /\ hpc' = [hpc EXCEPT ![p] = "retrieve"]
        /\ \E m \in page[p] :
             /\ \A k \in page[p] : k <= m
             /\ cursor' = [cursor EXCEPT ![p] = m]
  /\ UNCHANGED <<accessVars, kafkaVars, taskVars, page, acks, due, rpcVars, rows>>

\* An acknowledgement of no message calls nobody, so cannot fail.
AcknowledgeFails(p) ==
  /\ hpc[p] = "ack"
  /\ acks[p] # {}
  /\ "offline" \in Faults
  /\ MarkDelivered(acks[p]) \/ UNCHANGED store
  /\ hpc' = [hpc EXCEPT ![p] = "failed"]
  /\ UNCHANGED <<accessVars, kafkaVars, taskVars, cursor, page, acks, due, rpcVars, rows>>

\* Faulty variant: an event is marked only when its handler succeeded.
MarkHandled(p) ==
  /\ hpc[p] = "handled"
  /\ marked' = [marked EXCEPT ![p] = @ + 1]
  /\ hpc' = [hpc EXCEPT ![p] = "idle"]
  /\ cursor' = [cursor EXCEPT ![p] = 0]
  /\ page' = [page EXCEPT ![p] = {}]
  /\ acks' = [acks EXCEPT ![p] = {}]
  /\ due' = [due EXCEPT ![p] = {}]
  /\ UNCHANGED <<accessVars, log, committed, taskVars, rpcVars, dataVars>>

\* The event is marked, whether or not its handler failed; the handler's
\* locals are gone.
MarkMessage(p) ==
  /\ hpc[p] \in {"handled", "failed"}
  /\ marked' = [marked EXCEPT ![p] = @ + 1]
  /\ hpc' = [hpc EXCEPT ![p] = "idle"]
  /\ cursor' = [cursor EXCEPT ![p] = 0]
  /\ page' = [page EXCEPT ![p] = {}]
  /\ acks' = [acks EXCEPT ![p] = {}]
  /\ due' = [due EXCEPT ![p] = {}]
  /\ UNCHANGED <<accessVars, log, committed, taskVars, rpcVars, dataVars>>

\* Faulty variant: an event is committed when its handler takes it.
CommitTaken(p) ==
  /\ hpc[p] # "idle"
  /\ committed' = [committed EXCEPT ![p] = marked[p] + 1]
  /\ UNCHANGED <<accessVars, log, marked, taskVars, drainVars, rpcVars, dataVars>>

\* The marked offset is committed every second.
CommitOffset(p) ==
  /\ committed[p] # marked[p]
  /\ committed' = [committed EXCEPT ![p] = marked[p]]
  /\ UNCHANGED <<accessVars, log, marked, taskVars, drainVars, rpcVars, dataVars>>

-----------------------------------------------------------------------------
(* The end of the push process                                             *)

\* The calls it served end in an error for the caller; the consumer of the
\* next process resumes at the committed offsets.
Restart ==
  /\ tpc' = [t \in Tasks |-> IF tpc[t] \in {"idle", "done"} THEN tpc[t] ELSE "failed"]
  /\ todo' = [t \in Tasks |-> {}]
  /\ mask' = [t \in Tasks |-> NoOutcome]
  /\ groups' = [t \in Tasks |-> [n \in Nodes |-> {}]]
  /\ hpc' = [p \in Partitions |-> "idle"]
  /\ marked' = committed
  /\ cursor' = [p \in Partitions |-> 0]
  /\ page' = [p \in Partitions |-> {}]
  /\ acks' = [p \in Partitions |-> {}]
  /\ due' = [p \in Partitions |-> {}]
  /\ call' = NoRequest
  /\ UNCHANGED <<accessVars, log, committed, known, pushed, drained, dataVars>>

Crash ==
  /\ "crash" \in Faults
  /\ GiveUp
  /\ Restart

\* The panic of SendToUser is recovered by nobody in a consumer goroutine.
PagePanics(p) ==
  /\ SomeRefused(p)
  /\ UNCHANGED late
  /\ Restart

-----------------------------------------------------------------------------
Connection(c) == Connect(c) \/ ConnectFails(c) \/ Announce(c) \/ Register(c)

Node(n) ==
  \/ (\E u \in Users : Disconnect(n, u)) \/ ClearSession(n) \/ NodeExits(n)
  \/ Discover(n)

PushToUser(t) ==
  \/ TooMany(t) \/ Save(t) \/ SaveFails(t)
  \/ (\E m \in Msgs : Lookup(t, m)) \/ Grouped(t)
  \/ (\E n \in Nodes : SendGroup(t, n)) \/ SendSucceeds(t) \/ SendFails(t) \/ SendPanics(t)
  \/ Archive(t) \/ ArchiveFails(t)
  \/ (\E m \in Msgs : UpdateRow(t, m)) \/ UpdateRowFails(t) \/ Return(t)

Handler(p) ==
  \/ UserOnline(p) \/ Retrieve(p) \/ RetrieveFails(p)
  \/ SendPage(p) \/ PageAccepted(p) \/ PageFails(p) \/ PagePanics(p)
  \/ Acknowledge(p) \/ AcknowledgeFails(p) \/ MarkMessage(p)

Next ==
  \/ \E c \in Conns : Connection(c)
  \/ \E n \in Nodes : Node(n)
  \/ \E u \in Users : SessionExpire(u)
  \/ Deliver \/ DeliverLate
  \/ \E t \in Tasks : PushToUser(t)
  \/ \E p \in Partitions : Handler(p) \/ CommitOffset(p)
  \/ Crash

Spec == Init /\ [][Next]_vars

\* The scheduler runs every goroutine, the manager's mutex starves nobody, and
\* every call between services has a timeout; calls need not arrive, nor users
\* connect, nor offsets be committed.
Fairness ==
  /\ WF_vars(Deliver)
  /\ \A t \in Tasks : SF_vars(tpc[t] # "idle" /\ PushToUser(t))
  /\ \A p \in Partitions : SF_vars(Handler(p))

FairSpec == Spec /\ Fairness

-----------------------------------------------------------------------------
(* Correctness                                                             *)

\* What the databases call done was done: a message recorded as sent, or as
\* delivered from the archive, was accepted by an access node, whatever was
\* lost, repeated or restarted on the way (PushToUser's mask, UserOnline's
\* acknowledgement).
RecordedIsAccepted ==
  \A m \in Msgs :
    /\ "sent" \in rows[m] => m \in pushed
    /\ store[m] = "delivered" => m \in drained

\* At most one call that PushToUser takes up carries message m.
Unrepeated(m) ==
  \A s, t \in {x \in Tasks : Fits(x)} :
    m \in TaskMsgs[s] \cap TaskMsgs[t] => s = t

\* A message takes one of two routes to its user: one that a call sent to a
\* node, even by a request given up on, never goes to the archive as well.
RoutesAreExclusive ==
  \A m \in Msgs : Unrepeated(m) => ~ (m \in pushed /\ store[m] # "none")

\* Delivery is final: no later step takes "sent" back from a message carried
\* by one call, or makes a delivered message pending in the archive again.
DeliveryIsFinal ==
  [][\A m \in Msgs :
       /\ Unrepeated(m) /\ rows[m] = {"sent"} => rows'[m] = {"sent"}
       /\ store[m] = "delivered" => store'[m] = "delivered"]_vars

\* When no request times out and no node dies, a call that succeeds has left
\* every message it alone carries one status, and it tells whether a node
\* accepted the message: none is on its way any more, and none was accepted
\* without PushToUser's taking notice.
SuccessIsRecorded ==
  Faults \cap {"rpc", "exit"} = {} =>
    \A t \in Tasks : tpc[t] = "done" =>
      \A m \in TaskMsgs[t] :
        Unrepeated(m) => rows[m] = IF m \in pushed THEN {"sent"} ELSE {"pending"}

\* A handler that ends well has emptied the archive of what it held for the
\* user when the handler began: no page is skipped or cut short, although
\* other handlers and calls change the archive meanwhile.
DrainIsComplete ==
  \A p \in Partitions :
    hpc[p] = "handled" => \A m \in due[p] : store[m] = "delivered"

\* The manager's mutex is held only while its holder waits for the answer to its
\* request: no error, panic or restart leaves it locked behind, which would stop
\* every later push and handler.
LockHolderWaits ==
  call.by # None =>
    \/ \E t \in Tasks : call.by = t /\ tpc[t] = "send"
    \/ \E p \in Partitions : call.by = p /\ hpc[p] = "send"

\* A push that was taken up returns, although it takes the manager's mutex
\* again and again, in competition with the handlers.
PushesReturn == \A t \in Tasks : tpc[t] = "lookup" ~> tpc[t] \in {"done", "failed"}

\* Every published Online event is marked in the end, also when its handler
\* fails, takes several pages or ends the process and is run again.
EventsAreMarked ==
  \A p \in Partitions, k \in 1 .. Cardinality(Conns) :
    Len(log[p]) >= k ~> marked[p] >= k

\* A push that reports success leaves each message for a user accepted by a
\* node or stored in the archive.
FailedSendIsArchived ==
  \A t \in Tasks : tpc[t] = "done" =>
    \A m \in TaskMsgs[t] : MsgUser[m] = None \/ m \in pushed \/ store[m] # "none"

\* When an Online event has been handled and its user is connected to the node
\* it names, what the archive held for the user has been delivered.
OnlineEventDelivers ==
  \A p \in Partitions :
    /\ hpc[p] \in {"handled", "failed"}
    /\ Event(p).user \in present[Event(p).node]
    => \A m \in due[p] : store[m] = "delivered"

\* A node accepts a message once: no request, whether of a call or of a
\* handler, puts into a queue what another one has put there already.
DeliveredOnce ==
  [][\A m \in call'.ok \ call.ok : m \notin pushed \cup drained]_vars

-----------------------------------------------------------------------------
(* Refinement                                                              *)

Once == {m \in Msgs : Unrepeated(m)}

\* How far message m has got, by what nodes accepted and the archive holds.
Life(m) ==
  CASE m \notin pushed \cup drained /\ store[m] = "none" -> "absent"
    [] m \in pushed \ drained /\ store[m] = "none" -> "taken"
    [] m \notin pushed \cup drained /\ store[m] = "pending" -> "stored"
    [] m \in drained \ pushed /\ store[m] = "pending" -> "fetched"
    [] m \in drained \ pushed /\ store[m] = "delivered" -> "delivered"
    [] OTHER -> "astray"

Box == INSTANCE Mailbox WITH
  Messages <- Once,
  life <- [m \in Once |-> Life(m)],
  recorded <- {m \in Once : rows[m] = {"sent"}}

\* For messages that one call carries, push and the offline store behave as
\* Mailbox says, whatever fails in between and however the two routes, late
\* requests and repeated events meet.
LooksLikeMailbox == Box!MailSpec
=============================================================================

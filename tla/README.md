# Chatify: TLA+ models, model checking and proofs

Chatify is an instant-messaging back end in Go: a client keeps a WebSocket to
the `access` service, messages go up through Kafka to `logic`, and come down
through `push`, which finds the user's access node in Redis or stores the
message with `offline`; `auth` keeps accounts and tokens. This directory models
the parts of it in which state is shared between goroutines, services and stores.

- [1 Inventory](#1-inventory)
- [2 Modules](#2-modules)
- [3 Runs](#3-runs)
- [4 Fairness](#4-fairness)
- [5 Proofs](#5-proofs)
- [6 Where code and documents disagree](#6-where-code-and-documents-disagree)
- [7 Abstractions, and what is not modelled](#7-abstractions-and-what-is-not-modelled)
- [8 Plan](#8-plan)

Source paths are relative to `src/`.

## 1 Inventory

### access: connection manager (`access/internal/biz/conn_manager.go`, `access/internal/service/access.go`, `access/internal/data/session.go`)

State: `Manager.clients`, a map from user to client under one `sync.Mutex`; per
client a `Send` channel of 1024 messages, a WebSocket, and a read and a write
context; per user a Redis key `session` naming the access process, with a time
to live of 60 s.

Operations: `StartClient` (session, Online event, contexts, `go writePump`, map
entry, `readPump`), `readPump`, `writePump` (queue, ping every 54 s with renewal
of the key), `StopClient` (called at the end of *both* pumps), `SendToUser`
(called by the PushMessage RPC), and the cleanup of the process, which closes
every client and deletes their sessions.

Hard: two goroutines per connection, each ending with a `StopClient` that finds
its client by *user*; a second connection of the same user overlaps the first; the
goroutine that renews the key is the one that may block in a write for 10 s, while
the key has 6 s left at the tick;
the mutex is held over a Redis and a Kafka call; the write pump starts before the
client is in the map; a node may die and leave its sessions behind.

Correct when: no stopped connection stays in the map; a connected user is where
pushes look for it, and loses that place to time only, never to another connection; the Offline event is a connection's last word; neither pump
outlives the other; queues drain; sessions of absent users go.

### access: user state events (`access/internal/data/kafka_producer.go`)

Online and Offline events go to the topic `user_state` through an asynchronous
producer with a *random* partitioner and 3 partitions: two events of one user
have no order. An error (a full producer for 5 s) is logged and ignored.

### access: PushMessage RPC (`access/internal/service/access.go`)

Stateless: hands the messages of a request to `SendToUser` one after the other.
All refused: an error without response. Some refused: an error as well, and gRPC
drops the response that goes with it.

### access: upstream messages (`access/internal/service/access.go`, `access/internal/biz/message.go`)

`readPump` logs what it reads. `Dispatch`, which would send to the topic of the
logic service, is constructed and never called, so no message goes upstream.

### push: PushToUser (`push/internal/biz/push.go`, `push/internal/data/message.go`, `push/internal/data/session.go`)

State: a row per message in the push database with a status; the locals
`msgSendMask` (outcome per message) and `accessMessageGroups`.

Operations, in order: reject a call of more than `MaxMessageCount` messages;
insert a row per message; look each user's session up, grouping the messages of
users found by their node; send each group; archive the messages whose user had
no session; write each message's status, one statement at a time. Every step has
its early return, after which no later step happens.

Hard: what it read in Redis is stale by the time it sends or archives; steps fail
one by one; a caller whose call failed may make it again with the same messages;
a request that timed out goes on at the node.

Correct when: what is recorded as sent was accepted; a message does not take both
routes; a recorded delivery is never taken back; every call returns.

### push: Online event handler (`push/internal/biz/state_handler.go`, `push/internal/data/kafka_consumer.go`)

State: a cursor (`latestId`) over the archive; the consumer group's marked and
committed offsets per partition.

Operations: retrieve a page of pending messages after the cursor, send it to the
node the *event* names, acknowledge what was accepted, go on while pages are full;
the event is marked whatever the handler returned; offsets are committed every
second. Offline events: `UserOffline` does nothing.

Hard: handlers of one user run in several partitions at once; the archive changes
between pages; the process dies between delivery and acknowledgement, or before
the commit; the node refuses the page.

Correct when: a handler that ends well has emptied the archive it found; what is
acknowledged was accepted; every event is marked in the end.

### push: access node manager (`push/internal/data/access_manager.go`)

State: a map of node addresses to gRPC clients, filled by polling etcd, under a
mutex that `SendToUser` holds over the RPC. Nodes are never removed.

Hard: every call and handler waits for the slowest node; an error that comes
without a response is read all the same when the node refused part of a request,
which panics.

### push: duplicate filter (`push/internal/data/message_dedup.go`)

Constructed and injected; called by nobody.

### offline (`offline/internal/biz/offline.go`, `offline/internal/data/offline.go`)

State: a row per `msg_id` (unique) with status pending or delivered. Operations:
archive a batch (one transaction: one duplicate fails all of it), retrieve the
pending messages of a user after a cursor in `msg_id` order, mark as delivered.
Acknowledged rows stay; the status "archived" is used by nobody.

### logic: message consumer (`logic/internal/biz/message_handler.go`, `logic/internal/data/message_dedup.go`, `logic/internal/data/kafka_consumer.go`, `logic/internal/data/kafka_producer.go`)

State: in Redis a set per message id (the duplicate filter), which lives for a day
once EXPIRE was called for it; marked and committed offsets per partition.

Operations: take an event, mark its message id in the filter (SADD, then EXPIRE),
process it, mark the offset whatever came of it. A data report is handed to the
Kafka producer; chat and control messages are logged. An empty id bypasses the
filter; a filter that answers with an error lets the message pass.

Hard: the mark comes *before* the processing, so an end in between loses the
message when it is consumed again; an answer of Redis may be lost, and the client
may have repeated the command; a message may be published twice, into two
partitions that are consumed at the same time.

Correct when: a report is handed over no more often than the filter let it pass;
a consumed report was handed over, or there is one of a few reasons; every event
is consumed for good in the end.

### logic: system push (`logic/internal/biz/logic.go`)

Stateless: builds messages with fresh ids for a list of users and calls
`PushToUser` once. A repeated request has other ids, so nothing downstream can
recognise the repetition.

### auth (`auth/internal/biz`, `auth/internal/data`)

State: a user table with unique username and email; a session table whose rows
name a user, an access and a refresh token, several rows of a user being
possible; access tokens cached in Redis with a time to live.

Operations: `Register` checks username, email and phone, each with a query of its
own, and inserts; `Login` finds the user by any of the three and, like
`RefreshToken`, deletes the user's session, saves a new one and caches its access
token; `Logout` deletes; `RevokeUser` sets the status and deletes, ignoring the
error; `VerifyToken` reads Redis, then the user's status. Deleting a session is
itself three statements: select a row of the user, delete it, remove its access
token from Redis.

Hard: check-then-insert on registration; the session row and the cached token
change one after the other, without a transaction; calls of one user overlap,
also with the user's revocation; any step may fail after the one before it.

Correct when: an identifier leads to one account; no revoked account gets in;
a refresh token works once; what is cached belongs to the user's session.

### pkg: replay checker (`pkg/auth/sign/replay.go`)

State: a cache of request ids with expiry, in Redis, or in memory with a bounded
number of entries and the order of their insertion.

Operations: `ValidateRequest` rejects a request older than the window, then asks
the cache for the id and stores it. `MemoryCache.Exists` leaves the removal of an
expired entry to a goroutine of its own; `MemoryCache.Set` evicts the oldest entry
of a full cache.

Hard: lookup and store are two operations; the removal comes later, and takes
whatever is there then; eviction may take a live entry; Redis may store the id and
lose the answer; the window has no upper end, so a request with a timestamp ahead of
the clock stays recent for longer than its id is kept, and the memory checker keeps
ids for no longer than the window.

Correct when: a request passes once, as long as its id is kept while it is recent; only
a request that was stored is called repeated; no live entry is removed by a goroutine
meant for an older one.

No service constructs a replay checker at this commit: what is stated is what
the package gives a caller that keeps to its documentation.

### pkg: the rest; configuration; generated code

Ids, password hashing, verification codes, request context, logging, metrics,
tracing: stateless or observability only. Kratos wiring, configuration loading and
the code protoc generated hold no logic of the system's own.

### External

The gateway in front of access, Redis, Kafka, MySQL, etcd. Each is modelled, where
it is, by what the code above can observe of it.

### How the parts interact

    client ==ws== access --Online/Offline--> Kafka user_state --> push handler
                    |  ^                                            |      |
         session    |  +------------- PushMessage ------------------+      | retrieve,
                    v                      ^                               | acknowledge
                  Redis <---lookup--- push PushToUser ---archive---> offline --> MySQL
                    ^                      ^
                    | filter       system push
                    |                      |
    Kafka user_message --------------> logic --data reports--> Kafka

    gateway --Register, Login, ...--> auth --> MySQL (users, sessions), Redis (tokens)

The session in Redis, the client map of a node and the archive are three records
of one fact, "where is the user". They are written by different processes in no
common order, and most hazards of the message path are states in which they
disagree. In auth the session table and the token cache are such a pair.

## 2 Modules

| module | models | extends |
|---|---|---|
| `AccessView` | what push can tell of access: the session, how far each connection has got, who is in the maps; the abstract specification of `ConnManager` | |
| `ConnManager` | the access connection manager, with Redis and Kafka around it | |
| `MCConnManager` | up to three connections of one user on two nodes | `ConnManager` |
| `ConnManager_proofs` | theorems about `ConnManager` | `ConnManager`, `TLAPS` |
| `ConnRefinement_proofs` | `ConnManager` implements `AccessView`; what that says of the session and the map | `ConnManager_proofs` |
| `PushDelivery` | PushToUser, the Online handler, the node manager and offline, on top of `AccessView` | |
| `MCPushDelivery` | message and call sets for `PushDelivery` | `PushDelivery`, `TLC` |
| `PushDelivery_proofs` | theorems about `PushDelivery` | `PushDelivery`, `TLAPS` |
| `Mailbox` | what push and offline promise of a message; an abstract specification of `PushDelivery` | |
| `PushMailbox_proofs` | `PushDelivery` implements `Mailbox` | `PushDelivery_proofs` |
| `LogicConsumer` | the consumer of `user_message` and its duplicate filter | |
| `MCLogicConsumer` | a report and a chat message in two partitions | `LogicConsumer`, `TLC` |
| `LogicConsumer_proofs` | theorems about `LogicConsumer` | `LogicConsumer`, `TLAPS` |
| `AuthAccounts` | registration and the user table | |
| `AuthSessions` | login, logout, refresh, revocation, verification | `AuthAccounts` |
| `MCAuthSessions` | four registrations, the calls of one account | `AuthSessions`, `TLC` |
| `AuthSessions_proofs` | theorems about `AuthAccounts` and `AuthSessions` | `AuthSessions`, `TLAPS` |
| `ReplayCache` | the replay checker over either cache | |
| `MCReplayCache` | four requests, one id used twice | `ReplayCache`, `TLC` |
| `ReplayCache_proofs` | theorems about `ReplayCache` | `ReplayCache`, `TLAPS` |

Definitions marked "Faulty variant" in a module are not part of its
specification. Each is a definition of the module with a plausible bug (a lost
guard, a missing reset); put in place of the original, it makes a stated property
fail, which shows that the property depends on the code.

### ConnManager

A goroutine is a pair of a connection and a side. Its `pc` says where it is; one
action is a stretch of code with one shared effect.

| code | actions |
|---|---|
| `StartClient` | `SetSession` or `SetSessionFails`; `PublishOnline` (event, contexts, `go writePump`); `Register` |
| `readPump` | `ReadEnd` |
| `writePump` | `Write`, `WriteFails`, `Renew` (the tick), `WriteEnd` |
| `StopClient` | `StopMiss`, or `StopDelete` `StopClear` `StopPublish` `StopClose` with the mutex held (`mu`) |
| `SendToUser` | `SendRefused`, `SendQueued`, `SendDropped` |
| cleanup, exit | `CleanupClose`, `CleanupClear`, `Crash` |
| Redis expiry | `Lapse` (the key has lived through a tick unrenewed), `SessionExpire` |

`cancelled` matters because `StopClient` calls Redis and Kafka with contexts
derived from the root context `ServeHTTP` cancels on return: a call made with a
cancelled context has no effect. `lapsing` holds the users whose key is in its last
seconds or has run out. Nothing keeps a key of a connection that is up from getting
there: the write pump hears the tick 54 s after the last one, and after a `WriteMessage`
that may take 10 s, and pings before it calls EXPIRE; Redis may refuse that; and on a key
that ran out EXPIRE does nothing and reports no error (`Renew` then has no effect, which
is why it asks for the key). Only a key that is being set, at most 5 s ago, is too young
(`Fresh`). `Patient` is a condition on the environment, not part of
the code: the set of users whose next connection starts only when nothing of the old
one is running and no node is about to delete their session. Other users' connections
may overlap in every way; both sets may be empty.

### AccessView, and how ConnManager and PushDelivery meet

`AccessView` is the interface between the two detailed models. Its state is what a
user of the access service could find out: the session of each user, the `stage` of
each connection (`idle`, `session` written, `online` announced, `done`), the users
`present` in each node's map, and per node the user whose session `StopClient` is
`clearing`, with the mutex held. Connections have identities, and those of one user may
overlap and take each other's place in the map; of `Patient` users it promises more:
that they connect alone, that a shutdown clears only sessions of its own node, and that
the clearing of a session fails only with Redis.

`ConnManager` implements it, whatever overlaps: `LooksLikeAccess` is `AccessSpec` with
`stage`, `present` and `clearing` read off the goroutines, the map and the mutex
(`StageOf`, `PresentAt`, `ClearingAt`). The faults map as well (`ViewFaults`): a crash or
a shutdown of a node is an `Exit`.

`PushDelivery` takes its variables, types and actions from it
(`View == INSTANCE AccessView`) and adds to each action what push sees besides, the
Online event in the log. Nothing else in `PushDelivery` touches those variables. The two
theorems `ImplementsAccess` and `SeesAccess` say this for every value of the constants:
the connection manager does nothing that `AccessView` does not, and `PushDelivery`
assumes of access nothing but `AccessView`. So what is proved of `PushDelivery` is proved
of push on top of the real connection manager, overlapping connections included.

### PushDelivery

`PushToUser` is `tpc` (lookup, send, update), with `todo` for the loop it is in,
`mask` for `msgSendMask`, `groups` for `accessMessageGroups`. The locals are
reset when it returns (`End`), so that states that differ in garbage only are one.
`UserOnline` is `hpc` with `cursor`, `page` and `acks`; `due` is a history
variable (what was pending when the handler began). `pushed` and `drained` are
history variables too: the messages a node accepted, by route.

`call` is the one request under the manager's mutex (`connsMux`). The node works
through it message by message (`Deliver`), in the order of the request. A request
push gives up (timeout, broken connection, crash) may have been lost, or may leave
messages in `late`, which the node still carries out.

| code | actions |
|---|---|
| `PushToUser`, count check, `SaveMessages` | `TooMany`, `Save`, `SaveFails` |
| `groupMessageByConnectId` | `Lookup` per message, `Grouped` |
| `sendMessageToAccessNode`, `SendToUser` | `SendGroup`, `SendSucceeds`, `SendFails`, `SendPanics` |
| `archiveOfflineMessages`, `ArchiveMessages` | `Archive`, `ArchiveFails` |
| `updateMessageStatus` | `UpdateRow` per message, `UpdateRowFails`, `Return` |
| `UserOnline` | `UserOnline`, `Retrieve(Fails)`, `SendPage`, `PageAccepted`, `PageFails`, `PagePanics`, `Acknowledge(Fails)` |
| `ConsumeClaim`, auto-commit | `MarkMessage`, `CommitOffset` |
| access, as `AccessView` has it | `Connect` `ConnectFails` `Announce` `Register`, `Disconnect` `ClearSession`, `SessionExpire`, `NodeExits` |
| etcd polling | `Discover` |
| end of the push process | `Crash`, `PagePanics` |

`PagePanics` and `SendPanics` differ because the gRPC server of push has a recovery
middleware and sarama's consumer goroutine has not: the first ends the process, the
second only the call.

### Mailbox

The abstract specification of the message path, without sessions, nodes, requests,
pages or events. A message that one call carries is `absent` until a node accepts it
from that call (`Take`) or the call archives it (`Store`); an archived one is `fetched`
when a node accepts it from a handler and `delivered` when the handler's
acknowledgement arrives (`Confirm`); a message is recorded as sent only when it was
taken. There is no way from one route to the other and none back. `PushDelivery`
implements it (`LooksLikeMailbox`) with `Life(m)`, which reads the stage off what nodes
accepted and the archive's row, and, for the record, the message's rows in the push
database. A state that is none of the five stages would be `astray`. Messages of several
calls are excluded (`Unrepeated`): for those the second call may find the user offline
and archive what the first one delivered.

### LogicConsumer

| code | actions |
|---|---|
| a producer of `user_message` | `Publish`, also again, into any partition |
| `ConsumeClaim`, `Handle` up to the filter | `Handle` |
| `CheckAndSetDedup`, SADD | `FilterNew`, `FilterDuplicate`, `FilterRepeated` (the client repeats a command whose answer is lost), `FilterFails` |
| its EXPIRE | `SetExpire` |
| `dataReport`, the other message types | `Report`, `ReportFails`, `ProcessOther` |
| `MarkMessage`, auto-commit | `MarkMessage`, `CommitOffset` |
| Redis expiry, end of a process | `MarkExpire`, `Crash(S)`, where S is what the process consumed |

`lapses` and `excused` are history variables. The first counts, per message, how
often the filter could let it pass once more (it answered with an error, or its
mark came to its end); the second holds the messages with a reason to be lost.

### AuthAccounts and AuthSessions

`Register` is `rpc`; a call of one of the other methods is `pc`, with `owner` for
the user it found, `token` for the session whose token it was given, `chosen` for
the row `SessionRepo.Delete` has selected. A session, and its tokens, are named by the
call that issued them. A call that failed without a trace goes back to idle: the
client makes it again. `before`, `overlapped`, `unfinished` and `barred` are history
variables.

| code | actions |
|---|---|
| `Register`: `checkUsername`, `checkEmail`, `checkPhone`, `Create` | `CheckUsername`, `CheckEmail`, `CheckPhone`, `Create` |
| `Login` up to `SessionRepo.Delete` | `Login` |
| `GetTokenInfo` in `Logout`, `RefreshToken` | `GetTokenInfo` |
| `VerifyAccessToken` in `VerifyToken` | `VerifyAccessToken` |
| `UserStatusCheck` in `RefreshToken`, `VerifyToken` | `CheckStatus` |
| `RevokeUser`, `UserRepo.Delete` | `RevokeUser`, `MarkRevoked` |
| `SessionRepo.Delete` | `Select`, `Erase`, `Uncache` |
| `SessionRepo.Upsert` | `Save`, `Cache` |
| Redis expiry, end of the process | `TokenExpire`, `Crash` |

### ReplayCache

`pc`, `request` and `since` are the checks; `expires` and `keys` are the memory cache
(`expiration` with the keys of `items`, and the order of insertion), or Redis, where
only `expires` is used. `removals` counts, per id, the goroutines that will remove it.

| code | actions |
|---|---|
| `ValidateRequest` up to `CheckReplay` | `ValidateRequest` |
| `Exists` of either cache | `Exists`, `ExistsFails` |
| `MemoryCache.Set` | `SetAgain`, `SetNew`, `SetEvicting` |
| `RedisCache.Set` | `SetInRedis` |
| the goroutine of `MemoryCache.Exists`, `removeKey` | `RemoveKey` |
| time, end of the process | `Tick`, `Restart` |

The clock is discrete. `Delay` bounds how long a check takes. Timestamps are any
numbers, ahead of the clock too, as the code asks of them only that they are not too
old. `TimeWindow` and `ExpireTime` are given per cache and in no relation to each other:
the constructors choose them differently. What follows from that is kept in a history
variable: `outlived` has the requests whose id was stored with an end that a check which
began in time could still outlive (`Outlives`). `overlapped` has the pairs of checks that
ran at once for one request, `forgotten` the accepted checks whose id was evicted or lost
in a restart.

## 3 Runs

`CHECK_DEADLOCK FALSE` is set everywhere: connections, calls, events and time are
finite, and the system rightly stops when the last of them is over.

| run | checks | instance |
|---|---|---|
| `conn_overlap` | `TypeOK`, `NoGhostClient`, `NobodyIsStuck`, `LooksLikeAccess`, `PumpsEndTogether`, `QueuesDrain`, `SessionsDieOut` | 2 overlapping connections, 1 node, 2 messages, queue of 1; Redis failures, crash; fair |
| `conn_patient` | `ConnectedIsReachable`, `OfflineIsFinal`, `SessionsFollowMaps`, `LooksLikeAccess` | 3 connections of a patient user, 2 nodes; every fault |
| `conn_takeover` | `SettledIsReachable`, violated | 2 overlapping connections, no fault |
| `push_drain` | `TypeOK`, `DrainIsComplete`, `SuccessIsRecorded` | 2 calls of one message, one that is too large, 2 partitions, 2 connections, pages of 1; failures of offline, lost events, unknown nodes |
| `push_repeated` | `RecordedIsAccepted`, `RoutesAreExclusive`, `LockHolderWaits`, `DeliveryIsFinal` | 2 calls sharing a message, 3 messages, one without user; lost answers, failures of the database, crashes of push |
| `push_live` | `PushesReturn`, `EventsAreMarked`, `LooksLikeMailbox` | a call of 2 messages, pages of 2, 1 partition, 2 overlapping connections; failures of Redis and of calls, unknown nodes, ends of nodes, ends of push by a panic or a crash; fair |
| `push_duplicate` | `DeliveredOnce`, violated | 1 call, 1 message, 2 partitions, 2 connections, no fault |
| `push_archive` | `FailedSendIsArchived`, violated | 1 call, 1 message, no fault |
| `push_online` | `OnlineEventDelivers`, violated | 1 message, no fault |
| `auth_sessions` | `TypeOK`, `IdentifiersAreExclusive`, `RevokedIsRefused`, `UsedTokensAreDead`, `TokensMatchSessions` | 4 registrations; 2 logins, a refresh, a logout, a revocation, a verification of one account; Redis failures, crashes |
| `replay` | `TypeOK`, `AcceptedOnce`, `RepeatsWereAccepted`, `LiveEntriesStay` | 4 checks of 4 requests with 3 ids, two of them ahead of the clock, either cache, memory for 2; Redis failures, restarts |
| `logic` | `TypeOK`, `ReportedOnce`, `LossIsExcused`, `EventsAreCommitted` | 3 events, 2 messages, 2 partitions, 2 ends of processes; failures of Redis and Kafka; fair |

### The bounds, and why they are enough

- *Connections.* Connections interfere only through the user's map entry and
  session, so all of them belong to one user. Two on one node show every
  overlap of two `StopClient`s with a `StartClient`; the third, on another node,
  shows a reconnection after a reconnection and the session naming another node. A
  run has one user, patient or not; patient users beside others are left to the
  proofs, which have any number of both. For push, two connections where handlers
  meet or repeat: two Online events of one user, in one partition or in two; 1
  elsewhere.
- *`QueueCap`* 1 (1024 in the code): empty, partly full and full are the cases the
  code tells apart; with 2 messages the queue overflows. `MCInOrder` has the messages,
  which differ in name only, arrive in one order.
- *Messages and pages.* The handler compares the size of a page with a limit; with
  a limit of 1 and two messages there are full pages, a last page, an empty page
  after a full one, and a call that is too large. In `push_live` two messages fill a
  page together, so that a node can take one and refuse the other, which ends push by
  a panic in the handler; the next process handles the event again, and both events
  when none was committed. `push_repeated` uses three messages so that a request of a
  call can be refused in part and the calls overlap in one.
- *Accounts.* The four registrations hold the ways identifiers can meet: the same
  phone number, an email address asked for again and as a username, one request
  submitted twice. The calls are those of one account, since nothing but the token
  they are given relates calls of two accounts; `MCApart` keeps registrations that
  overlap and calls that overlap apart, because registration touches no session
  and a session call reads only its user's row.
- *Auth calls.* Two logins race each other, the refresh, the logout and the
  revocation; each may be made again after it failed without a trace. A failure of
  the database ends a call between the same two statements as a crash does; what it
  adds (a revocation whose answer is lost, a failed query of `Login` taken for an
  empty one) is in the module and in the proofs, and makes the run too long.
- *Replay.* The memory cache has a window of 2 and keeps ids for 2, as
  `NewMemoryReplayChecker` has one duration for both; Redis has a window of 1 and keeps
  ids for 3, as by default its hour is longer than its five minutes. Two requests are
  of time 0, two of time 3, which is ahead of most checks; the clock runs to 4, and a
  check takes 1 at most. So a request is checked again while its entry lives, after it
  expired, and after the goroutine has removed it; without the disjunct about
  `outlived`, `AcceptedOnce` and `LiveEntriesStay` both fail in this run, in the memory
  cache. A memory for 2 ids of 3 evicts.
- *Logic.* Three events of a report in two partitions show a repetition beside and
  after the first one; two ends, a repetition of the repetition. `MCFirst`: the
  partitions differ in name only.
- *`Faults`* names what may go wrong in a run; a shutdown is in `conn_patient`, the
  end of a node under push in `push_live`, and the proofs hold for all of them. Each
  fault is a disjunct of the actions it affects and may strike at every one of them,
  any number of times.
- *`MCFewCrashes`* in `push_live`: a crash takes a call with it, so there are no more
  crashes than calls, while ends by a panic happen as often as the connections allow.
  Without a bound nothing is ever handled: push may crash each time it has taken an
  event. *`MCSecond`*: the second connection starts when the call is over. Both stop
  only steps that have no fairness, `Crash` and `Connect`.
- *`MCPrompt`* in `push_drain`: a step that is nobody else's concern (inserting rows,
  writing statuses, marking, committing) is made as soon as it can be. Nothing reads
  what it writes but the actor itself, the properties and, in other runs, a restart,
  so no order in which calls, handlers and connections meet is left out, and the run
  has a third of the states.
- *`MCRetry`* in `push_repeated`: the call is made again once the first one has sent what
  it could, or has ended, while nodes may still be at its requests. Two calls that send
  at the same time are in `push_drain`; that they may share messages is left to the
  proofs.
- *Symmetry* over partitions, connections, logins and checks, in runs that check no
  liveness.

### What the properties say

- `NoGhostClient`: a client in the map has a reader that will still delete it, so
  the map cannot fill up with dead connections whatever overlaps.
- `ConnectedIsReachable`, `OfflineIsFinal`: of a user who reconnects only after the old
  connection is gone, a connection whose pumps run is in its node's map and the
  session names the node, unless the key ran out because the write pump renewed it too
  late or not at all; its Offline event comes once, after it has left the map. No other
  connection, pump, `StopClient` or cleanup takes either away, of this user or of
  others. Both fail for users who do not wait: `conn_takeover` shows how.
- `SessionsFollowMaps`: the two records of where such a user is agree at every moment,
  also between the steps of `StartClient`, `StopClient` and cleanup: whoever is in a
  node's map, or about to be wiped by its shutdown, has a session that names that node
  or none.
- `LooksLikeAccess`: the connection manager does towards push what `AccessView` says and
  no more, however connections overlap. The session is written, announced and
  registered in this order; nobody but a `StopClient` of the node or its end takes a
  user out of a map, and who takes the user out goes on to clear the session.
- `NobodyIsStuck`: a mutex that is held is held by a goroutine that is about to release
  it, and a write pump whose reader has returned is due to end. It is the safe half of
  `PumpsEndTogether`, and unlike that one can be proved.
- `PumpsEndTogether`: when one pump has returned so does the other. This is not
  obvious, because `StopClient` returns early, closing and cancelling nothing, when
  the user is not in the map; it holds because a reader that returns makes
  `ServeHTTP` cancel the root context, and a writer that returns leaves the reader
  without pongs.
- `SessionsDieOut`: sessions of users without a connection go, including those a
  crash, a failed delete or a late `SetSession` left.
- `QueuesDrain`: also a connection thrown out of the map by another one writes what
  it had accepted.
- `RecordedIsAccepted`: neither database claims a delivery no node accepted,
  whatever was lost, repeated or restarted. The converse does not hold, by design:
  a message may be accepted and stay pending.
- `RoutesAreExclusive`: a message carried by one call is never both accepted from
  that call and archived, also when the request was given up and carried out late.
- `SuccessIsRecorded`: the converse for a call that succeeds, where no request times
  out and no node dies: each of its messages has one status, and that says whether a
  node accepted it. It fails with timeouts (the node goes on with the request), which
  is why the condition is part of it.
- `LockHolderWaits`: no error, panic, timeout or restart leaves the manager's mutex
  locked, which would stop every later push and handler.
- `DeliveryIsFinal`: no later step takes a recorded delivery back.
- `DrainIsComplete`: a handler that ends well has left nothing of what the archive
  held for the user when it began, although other handlers acknowledge and other
  calls archive meanwhile.
- `PushesReturn`, `EventsAreMarked`: no call and no event waits forever for the
  manager's mutex, or for a node that has gone; and an event whose handler ended the
  process is handled again until it is marked.
- `LooksLikeMailbox`: every step of a call, a handler, a node or a late request takes a
  message one stage further on its one route, or leaves it alone. It implies that a
  handler sends only what is archived, that only what a node accepted is confirmed,
  and that no record says "sent" of a message on the other route.
- `ReportedOnce`: a report is handed to the producer at most once more than the filter
  had to let it pass again, whatever is published twice, consumed at the same time in
  two partitions or consumed again after a crash.
- `LossIsExcused`: a report whose events have all been marked was handed over, unless
  a process ended between its mark and its processing, an answer of Redis was lost
  and the command repeated, or the producer refused it. These are all the reasons.
- `EventsAreCommitted`: every event is consumed for good, whatever interrupts it.
- `IdentifiersAreExclusive`: no identifier finds two accounts, except a phone number
  asked for by registrations that overlapped. The kinds of the identifiers keep a
  username of one account from being the address of another.
- `RevokedIsRefused`: no call that began after the revocation gives or confirms a
  token, although the session, the cached token or both may have survived it.
- `UsedTokensAreDead`: a refresh token with which a Logout or RefreshToken succeeded
  does not come back, whatever failed, unless calls of the account overlapped, when
  `Delete` may have taken another row.
- `TokensMatchSessions`: as long as the calls of an account do not overlap, it has one
  session at most between them, although `user_id` is not unique; and if none failed
  half-way, no cached token outlives its session.
- `AcceptedOnce`: what lets a request pass twice: two checks of it that ran at once, and
  only these two; an eviction or a restart that took the id stored by one of the two;
  or an id that was stored for less than its request stays recent, as the memory checker
  does with requests ahead of the clock or checked in their last moments. There is no
  other way.
- `RepeatsWereAccepted`: nothing is called a repetition that was not let through
  before, or refused only because the answer of Redis was lost.
- `LiveEntriesStay`: the goroutines that remove expired entries take no live one, as
  long as an id is used for one request only and kept while that is recent. An id that
  comes back after its entry has expired can lose its entry to the removal of the old
  one.

## 4 Fairness

`ConnManager`: weak fairness for the steps of each goroutine (the Go scheduler
runs every runnable goroutine, Redis and Kafka calls have timeouts, `sync.Mutex`
in starvation mode starves nobody), for the cleanup once it began, and for Redis
expiry where no write pump is left to renew the key (`Unrenewed`): `Lapse` and
`SessionExpire` then come, while elsewhere they only may. `ReadEnd` is fair only once the connection is closed or nobody
pings (the read deadline is extended by pongs only); `WriteEnd` only once the
connection is closed or the context done. Nothing makes a client connect, a peer
leave, a message arrive or a node crash.

`PushDelivery`: strong fairness for each call and each handler, because what they
compete for, the manager's mutex, is free again and again without being free all
the time, and the mutex starves nobody; weak fairness for the node's loop, which
has no competitor. A call to another service ends because it has a timeout (2 s
for gRPC). None for arrivals (`Save` of an idle call, `Connect`), failures,
`Crash`, `NodeExits`, `Discover`, `CommitOffset` or `SessionExpire`.

`LogicConsumer`: weak fairness for the handler of each partition, which competes with
nobody and whose calls to Redis and the producer have timeouts, and for the commit of
its offset, which a timer makes every second. None for `Publish`, `MarkExpire` or
`Crash`; that processes do not end for ever is the bound `MaxCrashes`.

`AuthSessions` and `ReplayCache` state safety only.

## 5 Proofs

Every safety property of the passing runs is proved, for every value of the
constants that keeps the modules' assumptions, every set of faults and of patient users
included.

`ConnManager_proofs`, for every set of nodes, users, connections and messages, and
every queue capacity:

- `TypeCorrect`: `Spec => []TypeOK`, with the bound on the queues.
- `NoGhost`: `Spec => []NoGhostClient`. The property is inductive given `TypeOK`:
  the only step that enters a connection in the map puts its reader in "reading",
  a reader leaves "stop" only after it has found the entry empty or emptied it,
  and the mutex keeps other goroutines out in between.
- `PatientReachability`: `Spec => []ConnectedIsReachable`.
- `PatientOffline`: `Spec => []OfflineIsFinal`.
- `Unstuck`: `Spec => []NobodyIsStuck`.

Reachability and Offline need a strengthening, `PatientInv`, of which the first two
conjuncts hold for everybody and the others for patient users, whatever the rest do:

- `HoldersOwnMutex`: a goroutine in the critical section is the one `mu` names;
- `WriterAfterOnline`: no write pump before the reader has published Online;
- `OneActivePerUser`: two connections of a user are not both running, the
  inductive form of what `Patient` asks of the environment;
- `ConnectedIsRegistered`: a running connection is in its node's map;
- `StartingHasSession`: from `SetSession` on, the session names the node or ran out,
  which it cannot while it is being set (`FreshIsNotLapsing`);
- `WipesOwnSessions`: a closing node is about to delete only sessions of users it
  serves itself;
- `OfflineIsPending`: a goroutine on its way to publish Offline has not done so and
  has emptied the entry;
- `OfflineIsFinal`.

`Unstuck` follows from `OverlapInv`, which knows nothing of patience: a goroutine in the
critical section is the one `mu` names (`HoldersOwnMutex`) and a mutex that is held has
such a goroutine (`MutexIsHeld`); whoever's read pump has returned has had its contexts
cancelled (`ReturnedIsCancelled`), which is what ends a writer whose `StopClient` came
too late to find an entry; a node closes only when shut down (`ClosingIsShutdown`).

Each conjunct has a lemma "one step preserves it", with one step per actor
(`OneActor`); the theorems combine them. The assumptions are the named ASSUMEs of
`ConnManager`: each connection has a user and a node, patient users are users, the
queue has a positive capacity, and `None` is none of the other constants.

`ConnRefinement_proofs`:

- `ImplementsAccess`: `Spec => LooksLikeAccess`, the refinement, without conditions. For
  connections that overlap, `TypeOK` and `OverlapInv` suffice: the mutex names the one
  goroutine that clears, so a deletion from the map, the clearing after it, an entry
  and an end of a node are each one step of `AccessView`. For patient users, to whom
  `AccessView` promises more, it needs `PatientInv` and, in addition, `RefinementInv`:
  the session of a running connection names its node or is gone, and so does one a
  cleanup is about to delete (`SessionsAreOwn`); what can still start, is in the map, or
  is being stopped has contexts that are not done (`StartsUncancelled`,
  `MappedUncancelled`, `HoldersUncancelled`), so that the calls to Redis in between have
  their effect. Every other step of a goroutine, a node or Redis leaves the mapped
  state alone.
- `PatientSessions`: `Spec => []SessionsFollowMaps`, from `SessionsAreOwn` and what
  `NoGhostClient` says of an entry's reader.

`PushDelivery_proofs`, for every set of users, nodes, messages, calls and
partitions, and every page size:

- `TypeCorrect`: `Spec => []TypeOK`, together with `CallersWait` (who has a request
  on its way is waiting for its answer), without which a request could outlive the
  event of the handler that sent it.
- `Recorded`: `Spec => []RecordedIsAccepted`. A row can say only what a call or a
  handler remembers, and that only what an answer said, so the invariant
  `RecordedInv` follows the claim back: `OutcomesAreTrue` (the mask of a call),
  `AcksAreTrue` (what a handler acknowledges), `AnswersAreTrue` (what a request
  counts as accepted). `pushed` and `drained` only grow.
- `DrainComplete`: `Spec => []DrainIsComplete`. `DrainInv` says of every message that
  was due when the handler began: it is in the archive (`DueIsArchived`); behind
  the cursor it is delivered (`BehindCursor`); beyond it, it is delivered, on the
  page, or above everything on a page that is full (`PageIsNext`); a page is sent
  and acknowledged whole (`PageIsSent`, `PageIsAcknowledged`). A page that is not
  full is therefore the last. It needs that a page asks for as many messages as
  the loop compares with (`PageAssumption`) and that the archive is ordered by
  message id (`MsgsAssumption`).
- `ExclusiveRoutes`: `Spec => []RoutesAreExclusive`. `RoutesInv` says that what a call
  has on its way, in a group, a request or a request given up on, and what was
  accepted from it, it has taken up for sending and will not archive
  (`SendersSendOnly`); what is in the archive comes from a call past that point
  (`ArchivedByCalls`); so with one call per message the two sets are disjoint
  (`RoutesExclude`).
- `FinalDelivery`: `Spec => DeliveryIsFinal`. A row that says "sent" was written by a
  call that does not write it again (`SentRowsAreSettled`); the archive's updates
  only deliver (`StoreGrows`).
- `RecordedSuccess`: `Spec => []SuccessIsRecorded`. `SuccessInv` follows an acceptance to
  the row that tells of it: what was accepted from a call is counted in the answer it
  waits for, or in its mask, or written, or the call has failed (`AcceptanceIsKnown`);
  a row the call has been at says what the mask says (`RowIsWritten`); and as long as
  every request is answered, a request given up on belongs to a call that failed
  (`LateOnesFailed`), so nothing is accepted behind a call's back. It needs
  `RoutesInv`: what is on its way the call has taken up for sending.
- `LockReleased`: `Spec => []LockHolderWaits`, from `CallersWait`.
- `SeesAccess`: `Spec => View!AccessSpec`: each step of access is one of `AccessView`, and
  no step of a call, a handler, the nodes' loop or the queue touches what access owns.
  It is the counterpart of `ImplementsAccess` (section 2).

`PushMailbox_proofs`:

- `MailboxPromise`: `Spec => LooksLikeMailbox`, the refinement. To the invariants above
  it adds that what a handler has on its page, in a request or in a request given up
  on, and what was accepted from it, is in the archive (`HandlersSendArchived`). With
  `RecordedInv` and `RoutesInv` that leaves a message the five stages
  (`RegularLives`), before a step and after it; an acceptance, an insert, an
  acknowledgement and a status each become one action of `Mailbox` (`AcceptIsBox`,
  `ArchiveIsBox`, `AcknowledgeIsBox`, `RowsAreBox`).

The assumptions are the named ASSUMEs of `PushDelivery`: ids are positive numbers, each
message has at most one user, calls and partitions differ, the page is not empty and as
long as the loop takes it to be.

`LogicConsumer_proofs`, for every set of messages, every finite set of partitions, and
every bound on events and crashes:

- `TypeCorrect`: `Spec => []TypeOK`, with the order of committed, marked and published.
- `OnceReported`: `Spec => []ReportedOnce`. `PassesAreCounted` counts, per message, what
  was handed over together with the handlers that have it behind the filter
  (`Passing`); the sum is at most the marks the message has plus its lapses. A
  handler that ends gives its share up, so crashes only help.
- `LossExcused`: `Spec => []LossIsExcused`. A mark in Redis is no claim of its own: who
  set it is about to process the message, or the message is settled, handed over
  or excused (`MarksAreMeant`); and while it is not settled, an event that carries it
  is still to be handled (`ServedOrAwaiting`). The second is what makes the first
  enough when offsets go back.

`ReplayCache_proofs`, for every set of requests, ids and checks, both caches, every size,
and every timestamp, window and expiry time, about which nothing is assumed: only that
they are numbers.

- `TypeCorrect`: `Spec => []TypeOK`, with `CacheShape`: the order of insertion lists
  each item of the memory cache exactly once (`Lists`), so there are no more than
  `MaxSize` (`ListedCardinality`), and a full cache always has an oldest entry.
- `OnceAccepted`, `RepeatsAccepted`, `EntriesStay`, from one invariant: running checks are
  within their time (`Timely`); the entry of a request that has its id to itself and is
  not among the `outlived` (`Safe`) is kept until no check of it can still be running
  (`KeptLongEnough`), so it is never found expired and never swept (`NeverSwept`);
  hence an accepted request is in the cache or forgotten (`Remembered`), and a second
  check meets it unless the two ran at once (`PassesKnown`); what is in the cache was
  stored by a check (`EntriesHaveSources`). That an id once stored too shortly taints
  its request for good is what makes the invariant inductive: `outlived` only grows. `StepShape` reduces each action to what it does to one
  check, one entry and the clock.

`AuthSessions_proofs`, for every set of accounts, identifiers and calls:

- `TypeCorrect`: `Spec => []TypeOK`.
- `ExclusiveIdentifiers`: `Spec => []IdentifiersAreExclusive`. `AccountInv` keeps what
  `Register` has seen to on its way to the insert: the form of its identifiers
  (`FormOk`), and that its phone number was nobody's when it began
  (`PhoneWasFree`). Columns are told apart by form, rows by the unique indexes.
- `RefusedWhenRevoked`: `Spec => []RevokedIsRefused`. A call that began on a revoked
  account gets no further than its status check (`Barred`).
- `DeadTokens`, `MatchingTokens`: `Spec => []UsedTokensAreDead`,
  `Spec => []TokensMatchSessions`. `SessionInv` says of an account whose writers never
  overlapped: one writer runs at most (`AloneOn`) and what it has selected is all there
  is (`RowsKnown`); a token that was used is gone (`TokensGone`); a cached token has
  its row, or is the next thing to be removed (`CacheKnown`). It rests on `CallInv`, which
  says which calls get where and what they refer to, and on a lemma that reduces a
  step to its effect on one call (`AllEffects`).

Only model-checked: liveness under fairness, which is out of the prover's reach, and
the counterexamples of section 6. `DeliveredOnce` and the other violated properties are
statements of the documents, which the code does not keep.

## 6 Where code and documents disagree

Four disagreements are shown by a run.

1. `conn_takeover` (`access/internal/biz/conn_manager.go:123`). `StopClient` finds its
   client by user id. When a user reconnects before the old connection is stopped, the
   old one's `StopClient` deletes the new one's map entry and session: the user is
   connected, and every push takes it for offline. README.md:118-120 has the
   session say whether the user is online.
2. `push_duplicate` (`push/internal/data/message_dedup.go:38`). README.md:131 says push
   keeps the ids of pushed messages in Redis against repeated delivery; the filter is
   called by nobody. Two Online events of one user in two partitions are handled at
   the same time, both handlers read the same page, and the node accepts it twice.
3. `push_archive` (`push/internal/biz/push.go:223`). A message whose send failed is not
   archived; README.md:124 says it is.
4. `push_online` (`access/internal/biz/conn_manager.go:104`). The Online event is
   published before the client is in the map. If push is quick the node refuses the
   whole page, and the event is marked all the same: the user is online and the
   archive still holds the messages (README.md:104).

Others were met while reading and need no run.

- `access/internal/biz/conn_manager.go:163`: the comment says a client whose queue is
  full is kicked out; the message is dropped, the call succeeds, nobody is kicked.
- `auth/internal/data/session_repo.go`, `Upsert`: the comment has a user's row updated
  when there is one, but `user_id` has no unique index, so a row is added each time.
  One session per user rests on the `Delete` before it, and overlapping logins leave
  two.
- The refresh token of a session never expires, although its time is stored and
  returned.
- The phone number is checked at registration and has no unique index.
- `UserOffline` is empty, while README.md:105 has push clear the session; delivered
  messages are marked, not deleted (README.md:125); the topic README.md:89 calls
  `chat_input` is `user_message` in the code; no upstream message is dispatched.
- `pkg/auth/sign/replay.go`: `NewMemoryReplayChecker` keeps ids for the window itself,
  cut to seconds, and `ValidateRequest` has no upper end for timestamps, so a request is
  let through twice when it is ahead of the clock or checked in its last moments. The
  Redis checker's hour against five minutes leaves room for 55 minutes. Neither is
  written down as intended or excluded; the model has both (`outlived`), and the
  properties name the case. The comment in `Exists` says that its goroutine deletes the
  expired key; by then the key may have been stored again, and the live entry goes. The
  signature formats its timestamp with `string(timestamp)`, which is a rune and not a
  number.
- Messages are paged in the order of base62 ids as strings, which is not the order
  they were generated in where ids differ in case or length.

## 7 Abstractions, and what is not modelled

- A message is an id and a user; ids are ordered, since the archive is paged by
  `msg_id`. Payload, timestamps and expiry of archived messages are left out.
- Offline events are not in the log of `PushDelivery`: their handler does nothing,
  and marking them only moves the offset.
- Cleanup closes the clients in one step. Map iteration and a pump's `StopClient`
  interleave in the code; a client missed by the iteration is one whose process
  ends before its StopClient, which `Crash` covers.
- An insert of several rows is one step: gorm runs it in a transaction. Updates of
  statuses are one step per row, as in the code.
- Partitions are not rebalanced between two live consumers: a partition has one
  consumer, which may die and be replaced (`Crash`).
- `Discover` never removes a node, as in the code; replacing the gRPC connection of
  a known node is left out.
- In `PushDelivery` a node's queue is not modelled: accepted means that
  `SendToUser` found the client. What happens to the message then is
  `ConnManager`'s matter (`QueuesDrain`, `SendDropped`). In turn `ConnManager`
  has single messages and not requests.
- In `PushDelivery` connections of a user overlap and replace each other as
  `AccessView` has it; which of them a message reaches is `ConnManager`'s matter.
- What becomes of a report, or a state event, inside the asynchronous Kafka producer
  is only logged by the code and is left out: handed over means accepted by it.
- In `AuthSessions` tokens are names, and time is only the expiry of cached tokens.
  A refused first step (wrong password, unknown token) is a stuttering step.
  `UserRepo.Update` is called by nobody.
- In `ReplayCache` requests are correctly signed; a wrong signature ends a check before
  it touches the cache. Entries of the memory cache have their expiry in `expires`,
  since items and expirations are always written together.
- Upstream messages and the duplicate filter of push have no caller; the system push
  of logic keeps no state, and its call is a call of `PushDelivery`; ids, passwords,
  codes, observability, configuration and wiring hold no state of the system. The
  code protoc generated, which is more than half of the Go of the repository, is
  serialisation and stubs. `PROJECT.json` lists every component with its reason.

## 8 Plan

Done, in this order:

1. `ConnManager`: the client map and the session, on which everything else relies.
2. `ConnManager_proofs`: types, `NoGhostClient`, `NobodyIsStuck`, and what holds of
   patient users.
3. `PushDelivery`: the two routes of a message and the handler.
4. `PushDelivery_proofs`: the safety properties of `PushDelivery` that hold.
5. `AccessView` and `ConnRefinement_proofs`: the two models joined at an interface that
   one implements and the other is built on, in place of one large composition, for
   connections that overlap as for those that do not.
6. `LogicConsumer`, `AuthAccounts`, `AuthSessions`, `ReplayCache`, and their proofs.
7. `Mailbox` and `PushMailbox_proofs`: what push and offline promise of a message, and
   that they keep it.

Left:

1. A second node under `PushDelivery`: that the session names the node that has the user,
   for patient users, stated and proved on `AccessView` itself.
2. Delivery at most once where it holds: one partition, no fault.
3. The filters and the dispatch of upstream messages, when they get a caller.

----------------------------- MODULE ReplayCache -----------------------------
(***************************************************************************)
(* The replay checker: ValidateRequest lets a signed request through when  *)
(* it is not too old and its id is not in the cache, which then keeps the  *)
(* id for a while.  Looking the id up and storing it are two calls, checks *)
(* run concurrently, and the memory cache drops entries when it is full    *)
(* and removes expired ones later, in a goroutine of its own.              *)
(*                                                                         *)
(* Nothing says that an id is kept for as long as its request is let       *)
(* through: the memory checker uses one duration for both, and the time in *)
(* a request is the client's, which may be any time ahead.                 *)
(*                                                                         *)
(* Requests are correctly signed ones: a wrong signature ends a check      *)
(* before it looks at anything here.                                       *)
(***************************************************************************)
EXTENDS Naturals, Sequences, FiniteSets

CONSTANTS
  Requests,    \* signed requests, each of which may be received repeatedly
  Ids,         \* request ids
  IdOf,        \* request -> its RequestID
  Timestamp,   \* request -> its Timestamp, past or future
  Checks,      \* calls of ValidateRequest
  Backends,    \* the caches to consider: "memory", "redis"
  MaxSize,     \* of the memory cache
  TimeWindow,  \* backend -> how long a request is recent
  ExpireTime,  \* backend -> how long an id is kept, 0 for ever
  Delay,       \* bound on how long a check takes
  MaxTime,     \* bound on the clock
  Faults,      \* what may go wrong: "redis", "crash"
  None

ASSUME RequestsAssumption ==
  /\ IdOf \in [Requests -> Ids]
  /\ Timestamp \in [Requests -> Nat]
  /\ Backends \subseteq {"memory", "redis"}
  /\ None \notin Requests \cup Nat
ASSUME SizeAssumption == MaxSize \in Nat \ {0}
ASSUME TimeAssumption ==
  /\ TimeWindow \in [Backends -> Nat] /\ ExpireTime \in [Backends -> Nat]
  /\ Delay \in Nat /\ MaxTime \in Nat

VARIABLES
  backend,    \* the cache the checker was built with
  now,        \* the clock
  expires,    \* id -> MemoryCache.expiration, or the end of the Redis key; None: no item
  keys,       \* MemoryCache.keys
  removals,   \* id -> goroutines that are going to remove it
  pc,         \* check -> where ValidateRequest is
  request,    \* check -> what it was given
  since,      \* running check -> when it looked at the clock
  overlapped, \* history: pairs of checks that ran at once for one request
  forgotten,  \* history: accepted checks whose id was evicted or lost in a restart
  outlived    \* history: requests whose id was stored to end before they do

cacheVars == <<backend, expires, keys, removals>>
checkVars == <<pc, request, since>>
historyVars == <<overlapped, forgotten, outlived>>
vars == <<now, cacheVars, checkVars, historyVars>>

Items == {k \in Ids : expires[k] # None}

\* The order of insertion lists each item once, and there is room for all.
CacheShape ==
  backend = "memory" =>
    /\ \A k \in Ids : k \in Items <=> \E i \in DOMAIN keys : keys[i] = k
    /\ \A i, j \in DOMAIN keys : keys[i] = keys[j] => i = j
    /\ Len(keys) <= MaxSize

TypeOK ==
  /\ backend \in Backends
  /\ now \in 0 .. MaxTime
  /\ expires \in [Ids -> Nat \cup {None}]
  /\ keys \in Seq(Ids)
  /\ removals \in [Ids -> Nat]
  /\ pc \in [Checks -> {"idle", "exists", "set", "accepted", "repeat", "expired", "failed"}]
  /\ request \in [Checks -> Requests \cup {None}]
  /\ since \in [Checks -> Nat]
  /\ overlapped \subseteq SUBSET Checks
  /\ forgotten \subseteq Checks
  /\ outlived \subseteq Requests
  /\ CacheShape

Init ==
  /\ backend \in Backends
  /\ now = 0
  /\ expires = [k \in Ids |-> None]
  /\ keys = <<>>
  /\ removals = [k \in Ids |-> 0]
  /\ pc = [c \in Checks |-> "idle"]
  /\ request = [c \in Checks |-> None]
  /\ since = [c \in Checks |-> 0]
  /\ overlapped = {}
  /\ forgotten = {}
  /\ outlived = {}

Running(c) == pc[c] \in {"exists", "set"}
Key(c) == IdOf[request[c]]

\* When the id of a request stored now ends; the clock never passes MaxTime.
Deadline == IF ExpireTime[backend] = 0 THEN MaxTime ELSE now + ExpireTime[backend]

\* A check of r that begins in time can still look r up after that.
Outlives(r) ==
  ExpireTime[backend] # 0 /\ Timestamp[r] + TimeWindow[backend] + Delay > Deadline

\* History: check c stores the id of its request.
NoteStore(c) ==
  outlived' = outlived \cup {r \in Requests : r = request[c] /\ Outlives(r)}

\* History: the ids in K are gone before their time.
NoteLoss(K) ==
  forgotten' = forgotten \cup {c \in Checks : pc[c] = "accepted" /\ Key(c) \in K}

\* Check c goes on to store the id.
Goto(c) == pc' = [pc EXCEPT ![c] = "set"] /\ UNCHANGED <<request, since>>

\* ValidateRequest returns.
Return(c, l) ==
  /\ pc' = [pc EXCEPT ![c] = l]
  /\ since' = [since EXCEPT ![c] = 0]
  /\ UNCHANGED request

-----------------------------------------------------------------------------
\* Time passes, but not while a check is over its time.
Tick ==
  /\ now < MaxTime
  /\ \A c \in Checks : Running(c) => now < since[c] + Delay
  /\ now' = now + 1
  /\ UNCHANGED <<cacheVars, checkVars, historyVars>>

\* Faulty variant: a request is recent whatever its age.
AlwaysRecent(r) == TRUE

\* ErrRequestExpired is for requests older than the window, however far ahead
\* others are.
Recent(r) == now <= Timestamp[r] + TimeWindow[backend]

\* ValidateRequest is given request r and looks at the clock.
ValidateRequest(c) ==
  /\ pc[c] = "idle"
  /\ \E r \in Requests :
       /\ request' = [request EXCEPT ![c] = r]
       /\ \/ /\ Recent(r)
             /\ pc' = [pc EXCEPT ![c] = "exists"]
             /\ since' = [since EXCEPT ![c] = now]
             /\ overlapped' = overlapped \cup
                  {{c, d} : d \in {d \in Checks : Running(d) /\ request[d] = r}}
          \/ /\ ~ Recent(r)
             /\ pc' = [pc EXCEPT ![c] = "expired"]
             /\ UNCHANGED <<since, overlapped>>
  /\ UNCHANGED <<now, cacheVars, forgotten, outlived>>

Present(k) == k \in Items /\ now <= expires[k]

\* Faulty variant: the goroutine is started whether or not the entry expired.
SweepFound(k) == backend = "memory" /\ k \in Items

\* MemoryCache.Exists leaves the removal of an expired entry to a goroutine.
SweepExpired(k) == backend = "memory" /\ k \in Items /\ now > expires[k]

Sweep(k) ==
  removals' = IF SweepExpired(k) THEN [removals EXCEPT ![k] = @ + 1] ELSE removals

\* Faulty variant: the id is stored as soon as it is looked up.
ExistsMarks(c) ==
  /\ pc[c] = "exists"
  /\ \/ Present(Key(c)) /\ Return(c, "repeat")
     \/ ~ Present(Key(c)) /\ Goto(c)
  /\ expires' = [expires EXCEPT ![Key(c)] = Deadline]
  /\ UNCHANGED <<now, backend, keys, removals, historyVars>>

\* Cache.Exists, in either cache.
Exists(c) ==
  /\ pc[c] = "exists"
  /\ \/ Present(Key(c)) /\ Return(c, "repeat")
     \/ ~ Present(Key(c)) /\ Goto(c)
  /\ Sweep(Key(c))
  /\ UNCHANGED <<now, backend, expires, keys, historyVars>>

\* Redis gives no answer: ValidateRequest returns its error.
ExistsFails(c) ==
  /\ pc[c] = "exists"
  /\ backend = "redis" /\ "redis" \in Faults
  /\ Return(c, "failed")
  /\ UNCHANGED <<now, cacheVars, historyVars>>

\* Set of a key the memory cache has, expired or not: its place in the order
\* of insertion is kept.
SetAgain(c) ==
  /\ pc[c] = "set"
  /\ backend = "memory"
  /\ Key(c) \in Items
  /\ expires' = [expires EXCEPT ![Key(c)] = Deadline]
  /\ NoteStore(c)
  /\ Return(c, "accepted")
  /\ UNCHANGED <<now, backend, keys, removals, overlapped, forgotten>>

\* Set of a key it does not have, with room for it.
SetNew(c) ==
  /\ pc[c] = "set"
  /\ backend = "memory"
  /\ Key(c) \notin Items
  /\ Cardinality(Items) < MaxSize
  /\ expires' = [expires EXCEPT ![Key(c)] = Deadline]
  /\ keys' = Append(keys, Key(c))
  /\ NoteStore(c)
  /\ Return(c, "accepted")
  /\ UNCHANGED <<now, backend, removals, overlapped, forgotten>>

\* Faulty variant: the evicted key stays in the order of insertion.
EvictItem(c) ==
  /\ pc[c] = "set"
  /\ backend = "memory"
  /\ Key(c) \notin Items
  /\ Cardinality(Items) >= MaxSize
  /\ expires' = [expires EXCEPT ![Head(keys)] = None, ![Key(c)] = Deadline]
  /\ keys' = Append(keys, Key(c))
  /\ NoteStore(c)
  /\ NoteLoss({Head(keys)})
  /\ Return(c, "accepted")
  /\ UNCHANGED <<now, backend, removals, overlapped>>

\* Set of a key it does not have, in place of the one inserted first.
SetEvicting(c) ==
  /\ pc[c] = "set"
  /\ backend = "memory"
  /\ Key(c) \notin Items
  /\ Cardinality(Items) >= MaxSize
  /\ keys # <<>>
  /\ expires' = [expires EXCEPT ![Head(keys)] = None, ![Key(c)] = Deadline]
  /\ keys' = Append(Tail(keys), Key(c))
  /\ NoteStore(c)
  /\ NoteLoss({Head(keys)})
  /\ Return(c, "accepted")
  /\ UNCHANGED <<now, backend, removals, overlapped>>

\* SET in Redis.  When it fails, or only its answer is lost, ValidateRequest
\* returns the error.
SetInRedis(c) ==
  /\ pc[c] = "set"
  /\ backend = "redis"
  /\ \/ /\ Return(c, "accepted")
        /\ expires' = [expires EXCEPT ![Key(c)] = Deadline]
        /\ NoteStore(c)
     \/ /\ "redis" \in Faults
        /\ Return(c, "failed")
        /\ \/ expires' = [expires EXCEPT ![Key(c)] = Deadline] /\ NoteStore(c)
           \/ UNCHANGED <<expires, outlived>>
  /\ UNCHANGED <<now, backend, keys, removals, overlapped, forgotten>>

\* The goroutine that Exists started removes the key, whatever it holds now,
\* and its first place in the order of insertion.
RemoveKey(k) ==
  /\ removals[k] > 0
  /\ removals' = [removals EXCEPT ![k] = @ - 1]
  /\ expires' = [expires EXCEPT ![k] = None]
  /\ \/ \E i \in DOMAIN keys :
          /\ keys[i] = k
          /\ \A j \in 1 .. i - 1 : keys[j] # k
          /\ keys' = SubSeq(keys, 1, i - 1) \o SubSeq(keys, i + 1, Len(keys))
     \/ (\A i \in DOMAIN keys : keys[i] # k) /\ UNCHANGED keys
  /\ UNCHANGED <<now, backend, checkVars, historyVars>>

\* The process ends, and with it its checks and its memory cache.
Restart ==
  /\ "crash" \in Faults
  /\ pc' = [c \in Checks |-> IF Running(c) THEN "failed" ELSE pc[c]]
  /\ since' = [c \in Checks |-> 0]
  /\ removals' = [k \in Ids |-> 0]
  /\ \/ backend = "redis" /\ UNCHANGED <<expires, keys, forgotten>>
     \/ /\ backend = "memory"
        /\ expires' = [k \in Ids |-> None]
        /\ keys' = <<>>
        /\ NoteLoss(Items)
  /\ UNCHANGED <<now, backend, request, overlapped, outlived>>

Check(c) ==
  \/ ValidateRequest(c) \/ Exists(c) \/ ExistsFails(c)
  \/ SetAgain(c) \/ SetNew(c) \/ SetEvicting(c) \/ SetInRedis(c)

Next ==
  \/ Tick
  \/ \E c \in Checks : Check(c)
  \/ \E k \in Ids : RemoveKey(k)
  \/ Restart

Spec == Init /\ [][Next]_vars

-----------------------------------------------------------------------------
(* Correctness                                                             *)

\* SignParam asks that a request id be used for one request.
UniqueId(r) == \A q \in Requests : IdOf[q] = IdOf[r] => q = r

\* A request is let through twice, by any two checks, only if those two ran at
\* once (CheckReplay looks and then stores), if the id that one of them stored
\* was evicted by a full cache or lost in a restart, or if the id was stored at
\* a time from which it is kept for less than the request stays recent.
AcceptedOnce ==
  \A c, d \in Checks :
    /\ c # d /\ pc[c] = "accepted" /\ pc[d] = "accepted"
    /\ request[c] = request[d] /\ UniqueId(request[c])
    => {c, d} \in overlapped \/ {c, d} \cap forgotten # {} \/ request[c] \in outlived

\* A request is called repeated only if it was let through before, or a check
\* of it failed after Redis had stored its id.
RepeatsWereAccepted ==
  \A c \in Checks : pc[c] = "repeat" =>
    \E d \in Checks :
      /\ request[d] # None /\ Key(d) = Key(c)
      /\ pc[d] = "accepted" \/ (pc[d] = "failed" /\ backend = "redis")

\* An entry that has not expired is not removed by a goroutine that Exists
\* started for an earlier entry of the same id: that takes an id used for a
\* second request, or one kept for less than its request stays recent.
LiveEntriesStay ==
  [][\A r \in Requests \ outlived :
       UniqueId(r) /\ Present(IdOf[r]) => ~ RemoveKey(IdOf[r])]_vars
=============================================================================

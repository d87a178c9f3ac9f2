-------------------------- MODULE ReplayCache_proofs --------------------------
(***************************************************************************)
(* Proofs about ReplayCache, for any requests, checks, clocks and cache    *)
(* size: the order of insertion always matches the items of the memory     *)
(* cache, a request is let through once, a repetition is only reported of  *)
(* what was let through, and no entry is removed while it is alive.        *)
(*                                                                         *)
(* Nothing is assumed of the windows, expiry times and timestamps: for a   *)
(* request whose id was never stored to end too soon, a check that is      *)
(* still running finds the id alive, and nothing else is used.             *)
(***************************************************************************)
EXTENDS ReplayCache, FiniteSetTheorems, SequenceTheorems, TLAPS

-----------------------------------------------------------------------------
(* The memory cache                                                        *)

\* Keys ks are the items X, each listed once.
Lists(ks, X) ==
  /\ \A k \in Ids : k \in X <=> \E i \in DOMAIN ks : ks[i] = k
  /\ \A i, j \in DOMAIN ks : ks[i] = ks[j] => i = j

\* There are as many items as keys.
LEMMA ListedCardinality ==
  ASSUME NEW ks \in Seq(Ids), NEW X \in SUBSET Ids, Lists(ks, X)
  PROVE  Cardinality(X) = Len(ks)
<1>1. Len(ks) \in Nat /\ DOMAIN ks = 1 .. Len(ks)
  OBVIOUS
<1>2. ks \in [1 .. Len(ks) -> X]
  BY <1>1 DEF Lists
<1>3. \A x \in X : \E i \in 1 .. Len(ks) : ks[i] = x
  BY <1>1 DEF Lists
<1>4. ks \in Bijection(1 .. Len(ks), X)
  BY <1>1, <1>2, <1>3 DEF Lists, Bijection, Injection, Surjection, IsInjective
<1>5. ExistsBijection(1 .. Len(ks), X)
  BY <1>4 DEF ExistsBijection
<1> QED BY <1>1, <1>5, FS_CountingElements

LEMMA AppendLists ==
  ASSUME NEW ks \in Seq(Ids), NEW X \in SUBSET Ids, Lists(ks, X),
         NEW k \in Ids, k \notin X
  PROVE  /\ Append(ks, k) \in Seq(Ids) /\ Len(Append(ks, k)) = Len(ks) + 1
         /\ Lists(Append(ks, k), X \cup {k})
<1> DEFINE n == Len(ks)
           ls == Append(ks, k)
<1>1. n \in Nat /\ DOMAIN ks = 1 .. n /\ ls \in Seq(Ids) /\ Len(ls) = n + 1
      /\ DOMAIN ls = 1 .. n + 1
  OBVIOUS
<1>2. ls[n + 1] = k /\ \A i \in 1 .. n : ls[i] = ks[i]
  OBVIOUS
<1>3. \A i \in 1 .. n : ks[i] # k
  BY <1>1 DEF Lists
<1>4. \A i, j \in DOMAIN ls : ls[i] = ls[j] => i = j
  <2> SUFFICES ASSUME NEW i \in 1 .. n + 1, NEW j \in 1 .. n + 1, ls[i] = ls[j]
               PROVE  i = j
    BY <1>1
  <2>1. CASE i = n + 1 \/ j = n + 1
    BY <1>1, <1>2, <1>3, <2>1
  <2>2. CASE i \in 1 .. n /\ j \in 1 .. n
    BY <1>1, <1>2, <2>2 DEF Lists
  <2> QED BY <1>1, <2>1, <2>2
<1>5. ASSUME NEW m \in Ids
      PROVE  m \in X \cup {k} <=> \E i \in DOMAIN ls : ls[i] = m
  <2>1. m \in X <=> \E i \in 1 .. n : ks[i] = m
    BY <1>1 DEF Lists
  <2>2. (\E i \in 1 .. n + 1 : ls[i] = m) <=> (\E i \in 1 .. n : ks[i] = m) \/ m = k
    BY <1>1, <1>2
  <2> QED BY <1>1, <2>1, <2>2
<1> QED BY <1>1, <1>4, <1>5 DEF Lists

\* Leaving a place out of the order takes its item out of the set.
LEMMA SkipLists ==
  ASSUME NEW ks \in Seq(Ids), NEW X \in SUBSET Ids, Lists(ks, X),
         NEW i \in 1 .. Len(ks),
         NEW ls \in Seq(Ids), Len(ls) = Len(ks) - 1,
         \A j \in 1 .. Len(ls) : ls[j] = IF j < i THEN ks[j] ELSE ks[j + 1]
  PROVE  ks[i] \in X /\ Lists(ls, X \ {ks[i]})
<1> DEFINE n == Len(ks)
           Old(j) == IF j < i THEN j ELSE j + 1
<1>1. /\ n \in Nat /\ DOMAIN ks = 1 .. n
      /\ DOMAIN ls = 1 .. n - 1 /\ Len(ls) = n - 1
  OBVIOUS
<1> HIDE DEF n
<1>2. ASSUME NEW j \in 1 .. n - 1
      PROVE  Old(j) \in 1 .. n /\ Old(j) # i /\ ls[j] = ks[Old(j)]
  BY <1>1
<1>3. \A j, k \in 1 .. n - 1 : Old(j) = Old(k) => j = k
  BY <1>1
<1>4. \A j \in 1 .. n : j # i => \E k \in 1 .. n - 1 : Old(k) = j
  <2> SUFFICES ASSUME NEW j \in 1 .. n, j # i
               PROVE  \E k \in 1 .. n - 1 : Old(k) = j
    OBVIOUS
  <2>1. i \in 1 .. n
    BY <1>1 DEF n
  <2>2. CASE j < i
    <3>1. j \in 1 .. n - 1 /\ Old(j) = j
      BY <1>1, <2>1, <2>2
    <3> QED BY <3>1
  <2>3. CASE j > i
    <3>1. j - 1 \in 1 .. n - 1 /\ Old(j - 1) = j
      BY <1>1, <2>1, <2>3
    <3> QED BY <3>1
  <2> QED BY <1>1, <2>1, <2>2, <2>3
<1> HIDE DEF Old
<1>5. i \in DOMAIN ks
  BY <1>1 DEF n
<1>6. \A j, k \in DOMAIN ls : ls[j] = ls[k] => j = k
  <2> SUFFICES ASSUME NEW j \in 1 .. n - 1, NEW k \in 1 .. n - 1, ls[j] = ls[k]
               PROVE  j = k
    BY <1>1
  <2>1. Old(j) = Old(k)
    BY <1>1, <1>2 DEF Lists
  <2> QED BY <1>3, <2>1
<1>7. ASSUME NEW m \in Ids
      PROVE  m \in X \ {ks[i]} <=> \E j \in DOMAIN ls : ls[j] = m
  <2>1. ASSUME m \in X \ {ks[i]} PROVE \E j \in DOMAIN ls : ls[j] = m
    <3>1. PICK j \in 1 .. n : ks[j] = m
      BY <1>1, <2>1 DEF Lists
    <3>2. PICK k \in 1 .. n - 1 : Old(k) = j
      BY <1>4, <2>1, <3>1
    <3> QED BY <1>1, <1>2, <3>1, <3>2
  <2>2. ASSUME NEW j \in DOMAIN ls, ls[j] = m PROVE m \in X \ {ks[i]}
    <3>1. Old(j) \in DOMAIN ks /\ Old(j) # i /\ ks[Old(j)] = m
      BY <1>1, <1>2, <2>2
    <3> QED BY <1>5, <3>1 DEF Lists
  <2> QED BY <2>1, <2>2
<1> QED BY <1>5, <1>6, <1>7 DEF Lists

LEMMA TailLists ==
  ASSUME NEW ks \in Seq(Ids), NEW X \in SUBSET Ids, Lists(ks, X), ks # <<>>
  PROVE  /\ Head(ks) \in X
         /\ Tail(ks) \in Seq(Ids) /\ Len(Tail(ks)) = Len(ks) - 1
         /\ Lists(Tail(ks), X \ {Head(ks)})
<1>1. Len(ks) \in Nat /\ Len(ks) > 0 /\ 1 \in 1 .. Len(ks) /\ Head(ks) = ks[1]
  OBVIOUS
<1>2. Tail(ks) \in Seq(Ids) /\ Len(Tail(ks)) = Len(ks) - 1
  OBVIOUS
<1>3. \A j \in 1 .. Len(Tail(ks)) : Tail(ks)[j] = IF j < 1 THEN ks[j] ELSE ks[j + 1]
  OBVIOUS
<1>4. ks[1] \in X /\ Lists(Tail(ks), X \ {ks[1]})
  BY <1>1, <1>2, <1>3, SkipLists
<1> QED BY <1>1, <1>2, <1>4

\* ls is what is before place i in ks, joined with what is behind it.
Joins(ls, ks, i) ==
  \E as, bs \in Seq(Ids) :
    /\ ls = as \o bs
    /\ Len(as) = i - 1 /\ \A j \in 1 .. i - 1 : as[j] = ks[j]
    /\ Len(bs) = Len(ks) - i /\ \A j \in 1 .. Len(ks) - i : bs[j] = ks[i + j]

LEMMA JoinLists ==
  ASSUME NEW ks \in Seq(Ids), NEW X \in SUBSET Ids, Lists(ks, X),
         NEW i \in 1 .. Len(ks), NEW ls, Joins(ls, ks, i)
  PROVE  ls \in Seq(Ids) /\ Len(ls) = Len(ks) - 1 /\ Lists(ls, X \ {ks[i]})
<1>0. PICK as \in Seq(Ids), bs \in Seq(Ids) :
        /\ ls = as \o bs
        /\ Len(as) = i - 1 /\ \A j \in 1 .. i - 1 : as[j] = ks[j]
        /\ Len(bs) = Len(ks) - i /\ \A j \in 1 .. Len(ks) - i : bs[j] = ks[i + j]
  BY Zenon DEF Joins
<1>1. Len(ks) \in Nat /\ Len(as) + Len(bs) = Len(ks) - 1
  BY <1>0
<1>2. /\ ls \in Seq(Ids) /\ Len(ls) = Len(as) + Len(bs)
      /\ \A j \in 1 .. Len(as) + Len(bs) :
           ls[j] = IF j <= Len(as) THEN as[j] ELSE bs[j - Len(as)]
  BY <1>0, ConcatProperties
<1>3. Len(ls) = Len(ks) - 1
  BY <1>1, <1>2
<1>4. ASSUME NEW j \in 1 .. Len(ks) - 1
      PROVE  ls[j] = IF j < i THEN ks[j] ELSE ks[j + 1]
  <2>1. CASE j < i
    <3>1. j \in 1 .. i - 1 /\ j <= Len(as) /\ j \in 1 .. Len(as) + Len(bs)
      BY <1>0, <1>1, <2>1
    <3>2. ls[j] = as[j] /\ as[j] = ks[j]
      BY <1>0, <1>2, <3>1
    <3> QED BY <2>1, <3>2
  <2>2. CASE j >= i
    <3>1. /\ j - (i - 1) \in 1 .. Len(ks) - i /\ i + (j - (i - 1)) = j + 1
          /\ Len(as) = i - 1
          /\ ~ (j <= Len(as)) /\ ~ (j < i) /\ j \in 1 .. Len(as) + Len(bs)
      BY <1>0, <1>1, <2>2
    <3>2. ls[j] = bs[j - Len(as)]
      BY <1>2, <3>1
    <3>3. bs[j - (i - 1)] = ks[i + (j - (i - 1))]
      BY <1>0, <3>1
    <3> QED BY <3>1, <3>2, <3>3
  <2>3. j < i \/ j >= i
    BY <1>1
  <2> QED BY <2>1, <2>2, <2>3
<1> QED BY <1>2, <1>3, <1>4, SkipLists

LEMMA SubSeqJoins ==
  ASSUME NEW ks \in Seq(Ids), NEW i \in 1 .. Len(ks)
  PROVE  Joins(SubSeq(ks, 1, i - 1) \o SubSeq(ks, i + 1, Len(ks)), ks, i)
<1> DEFINE as == SubSeq(ks, 1, i - 1)
           bs == SubSeq(ks, i + 1, Len(ks))
<1>1. Len(ks) \in Nat
  OBVIOUS
<1>2. as \in Seq(Ids) /\ Len(as) = i - 1 /\ \A j \in 1 .. i - 1 : as[j] = ks[j]
  BY <1>1
<1>3. bs \in Seq(Ids) /\ Len(bs) = Len(ks) - i /\ \A j \in 1 .. Len(ks) - i : bs[j] = ks[i + j]
  BY <1>1
<1> HIDE DEF as, bs
<1>4. Joins(as \o bs, ks, i)
  BY <1>2, <1>3, Zenon DEF Joins
<1> QED BY <1>4, Zenon DEF as, bs

\* The same for removing a place by joining what is before and what is behind.
LEMMA RemoveLists ==
  ASSUME NEW ks \in Seq(Ids), NEW X \in SUBSET Ids, Lists(ks, X),
         NEW i \in 1 .. Len(ks),
         NEW ls, ls = SubSeq(ks, 1, i - 1) \o SubSeq(ks, i + 1, Len(ks))
  PROVE  ls \in Seq(Ids) /\ Len(ls) = Len(ks) - 1 /\ Lists(ls, X \ {ks[i]})
<1>1. Joins(ls, ks, i)
  BY SubSeqJoins, Zenon
<1> QED BY <1>1, JoinLists, Zenon

-----------------------------------------------------------------------------
(* Types                                                                   *)

\* The order of insertion after each of the ways to change it.
CacheMoves ==
  \/ UNCHANGED keys /\ Items' = Items
  \/ \E k \in Ids \ Items :
       Cardinality(Items) < MaxSize /\ keys' = Append(keys, k) /\ Items' = Items \cup {k}
  \/ \E k \in Ids \ Items :
       /\ keys # <<>>
       /\ keys' = Append(Tail(keys), k)
       /\ Items' = (Items \ {Head(keys)}) \cup {k}
  \/ \E i \in 1 .. Len(keys) :
       /\ keys' = SubSeq(keys, 1, i - 1) \o SubSeq(keys, i + 1, Len(keys))
       /\ Items' = Items \ {keys[i]}
  \/ keys' = <<>> /\ Items' = {}

LEMMA CacheShapeStep ==
  ASSUME TypeOK, CacheMoves, backend = "memory"
  PROVE  /\ keys' \in Seq(Ids) /\ Len(keys') <= MaxSize /\ Lists(keys', Items')
<1> DEFINE X == Items
<1>1. /\ keys \in Seq(Ids) /\ Lists(keys, X) /\ Len(keys) \in Nat /\ Len(keys) <= MaxSize
      /\ X \in SUBSET Ids /\ MaxSize \in Nat /\ MaxSize > 0
  BY SizeAssumption DEF TypeOK, CacheShape, Lists, Items
<1> HIDE DEF X
<1>2. CASE UNCHANGED keys /\ Items' = X
  BY <1>1, <1>2
<1>3. ASSUME NEW k \in Ids \ X, Cardinality(X) < MaxSize,
             keys' = Append(keys, k), Items' = X \cup {k}
      PROVE  keys' \in Seq(Ids) /\ Len(keys') <= MaxSize /\ Lists(keys', Items')
  <2>1. Len(keys) < MaxSize
    BY <1>1, <1>3, ListedCardinality
  <2> QED BY <1>1, <1>3, <2>1, AppendLists
<1>4. ASSUME NEW k \in Ids \ X, keys # <<>>,
             keys' = Append(Tail(keys), k), Items' = (X \ {Head(keys)}) \cup {k}
      PROVE  keys' \in Seq(Ids) /\ Len(keys') <= MaxSize /\ Lists(keys', Items')
  <2>1. PICK ts \in Seq(Ids) : ts = Tail(keys) /\ Len(ts) = Len(keys) - 1 /\ Lists(ts, X \ {Head(keys)})
    BY <1>1, <1>4, TailLists
  <2>2. X \ {Head(keys)} \in SUBSET Ids /\ k \notin X \ {Head(keys)}
    BY <1>1
  <2>3. Len(Append(ts, k)) = Len(ts) + 1 /\ Append(ts, k) \in Seq(Ids)
        /\ Lists(Append(ts, k), (X \ {Head(keys)}) \cup {k})
    BY <2>1, <2>2, AppendLists
  <2> QED BY <1>1, <1>4, <2>1, <2>3
<1>5. ASSUME NEW i \in 1 .. Len(keys),
             keys' = SubSeq(keys, 1, i - 1) \o SubSeq(keys, i + 1, Len(keys)),
             Items' = X \ {keys[i]}
      PROVE  keys' \in Seq(Ids) /\ Len(keys') <= MaxSize /\ Lists(keys', Items')
  <2>1. keys' \in Seq(Ids) /\ Len(keys') = Len(keys) - 1 /\ Lists(keys', X \ {keys[i]})
    BY <1>1, <1>5, RemoveLists
  <2>2. Len(keys') <= MaxSize
    BY <1>1, <2>1
  <2> QED BY <1>5, <2>1, <2>2
<1>6. CASE keys' = <<>> /\ Items' = {}
  BY <1>1, <1>6 DEF Lists
<1> QED BY <1>2, <1>3, <1>4, <1>5, <1>6 DEF CacheMoves, X

PC == {"idle", "exists", "set", "accepted", "repeat", "expired", "failed"}

\* A check that has begun was given a request.
Given == \A c \in Checks : pc[c] # "idle" => request[c] \in Requests

TypeInv == TypeOK /\ Given

LEMMA KeyTyped ==
  ASSUME TypeInv, NEW c \in Checks, pc[c] # "idle"
  PROVE  request[c] \in Requests /\ Key(c) \in Ids
BY RequestsAssumption DEF TypeInv, Given, Key

LEMMA GotoTyped ==
  ASSUME TypeInv, NEW c \in Checks, Goto(c), pc[c] # "idle"
  PROVE  /\ pc' \in [Checks -> PC] /\ request' \in [Checks -> Requests \cup {None}]
         /\ since' \in [Checks -> Nat] /\ Given'
BY DEF TypeInv, TypeOK, Goto, Given, PC

LEMMA ReturnTyped ==
  ASSUME TypeInv, NEW c \in Checks, NEW l \in PC, Return(c, l), pc[c] # "idle"
  PROVE  /\ pc' \in [Checks -> PC] /\ request' \in [Checks -> Requests \cup {None}]
         /\ since' \in [Checks -> Nat] /\ Given'
BY DEF TypeInv, TypeOK, Return, Given, PC

\* An id is stored with a time that is not None.
LEMMA DeadlineTyped ==
  ASSUME TypeOK
  PROVE  Deadline \in Nat /\ Deadline # None
<1>1. ExpireTime[backend] \in Nat /\ now \in Nat /\ MaxTime \in Nat
  BY TimeAssumption DEF TypeOK
<1>2. Deadline \in Nat
  BY <1>1 DEF Deadline
<1> QED BY <1>2, RequestsAssumption

LEMMA StoreItems ==
  ASSUME TypeOK, NEW k \in Ids, expires' = [expires EXCEPT ![k] = Deadline]
  PROVE  expires' \in [Ids -> Nat \cup {None}] /\ Items' = Items \cup {k}
BY DeadlineTyped DEF TypeOK, Items

LEMMA NotesTyped ==
  ASSUME TypeOK
  PROVE  /\ \A c \in Checks : NoteStore(c) => outlived' \subseteq Requests
         /\ \A K : NoteLoss(K) => forgotten' \subseteq Checks
BY DEF NoteStore, NoteLoss, TypeOK

\* The steps that leave the cache alone.
LEMMA QuietTyped ==
  ASSUME TypeOK, UNCHANGED <<backend, expires, keys>>
  PROVE  /\ backend' \in Backends /\ expires' \in [Ids -> Nat \cup {None}]
         /\ keys' \in Seq(Ids) /\ CacheShape'
BY DEF TypeOK, CacheShape, Items

LEMMA MovesTyped ==
  ASSUME TypeOK, CacheMoves, UNCHANGED backend, backend = "memory"
  PROVE  keys' \in Seq(Ids) /\ CacheShape'
BY CacheShapeStep DEF CacheShape, Lists

LEMMA TypeStep ==
  ASSUME TypeInv, [Next]_vars
  PROVE  TypeInv'
<1> USE DEF TypeInv
<1>1. CASE UNCHANGED vars
  <2>1. UNCHANGED <<backend, expires, keys>>
    BY <1>1 DEF vars, cacheVars
  <2> QED BY <1>1, <2>1, QuietTyped DEF vars, cacheVars, checkVars, historyVars, TypeOK, Given
<1>2. CASE Tick
  <2>1. UNCHANGED <<backend, expires, keys>> /\ now' \in 0 .. MaxTime
    BY <1>2, TimeAssumption DEF Tick, cacheVars, TypeOK
  <2> QED BY <1>2, <2>1, QuietTyped DEF Tick, cacheVars, checkVars, historyVars, TypeOK, Given
<1>3. ASSUME NEW c \in Checks, ValidateRequest(c)
      PROVE  TypeInv'
  <2>1. UNCHANGED <<backend, expires, keys, removals, now, forgotten, outlived>>
    BY <1>3 DEF ValidateRequest, cacheVars
  <2>2. PICK r \in Requests :
          /\ request' = [request EXCEPT ![c] = r]
          /\ \/ pc' = [pc EXCEPT ![c] = "exists"] /\ since' = [since EXCEPT ![c] = now]
             \/ pc' = [pc EXCEPT ![c] = "expired"] /\ UNCHANGED since
    BY <1>3 DEF ValidateRequest
  <2>3. now \in Nat
    BY TimeAssumption DEF TypeOK
  <2>4. overlapped' \subseteq SUBSET Checks
    <3>1. PICK r2 \in Requests :
            \/ overlapped' = overlapped \cup
                 {{c, d} : d \in {d \in Checks : Running(d) /\ request[d] = r2}}
            \/ UNCHANGED overlapped
      BY <1>3 DEF ValidateRequest
    <3>2. overlapped \subseteq SUBSET Checks
      BY DEF TypeOK
    <3>3. {{c, d} : d \in {d \in Checks : Running(d) /\ request[d] = r2}} \subseteq SUBSET Checks
      BY Zenon
    <3> QED BY <3>1, <3>2, <3>3
  <2>5. backend' \in Backends /\ expires' \in [Ids -> Nat \cup {None}]
        /\ keys' \in Seq(Ids) /\ CacheShape'
    BY <2>1, QuietTyped
  <2>6. /\ pc' \in [Checks -> PC] /\ request' \in [Checks -> Requests \cup {None}]
        /\ since' \in [Checks -> Nat]
    <3>1. /\ pc \in [Checks -> PC] /\ request \in [Checks -> Requests \cup {None}]
          /\ since \in [Checks -> Nat]
      BY DEF TypeOK, PC
    <3>2. "exists" \in PC /\ "expired" \in PC
      BY DEF PC
    <3> QED BY <2>2, <2>3, <3>1, <3>2
  <2>7. Given'
    BY <2>2 DEF TypeOK, Given
  <2> QED BY <2>1, <2>4, <2>5, <2>6, <2>7 DEF TypeOK, PC
<1>4. ASSUME NEW c \in Checks, Exists(c)
      PROVE  TypeInv'
  <2>1. UNCHANGED <<backend, expires, keys, now, overlapped, forgotten, outlived>>
    BY <1>4 DEF Exists, historyVars
  <2>2. Key(c) \in Ids
    BY <1>4, KeyTyped DEF Exists
  <2>3. removals' \in [Ids -> Nat]
    BY <1>4, <2>2 DEF Exists, Sweep, TypeOK
  <2>4. /\ pc' \in [Checks -> PC] /\ request' \in [Checks -> Requests \cup {None}]
        /\ since' \in [Checks -> Nat] /\ Given'
    BY <1>4, GotoTyped, ReturnTyped DEF Exists, PC
  <2> QED BY <2>1, <2>3, <2>4, QuietTyped DEF TypeOK, PC
<1>5. ASSUME NEW c \in Checks, ExistsFails(c)
      PROVE  TypeInv'
  <2>1. UNCHANGED <<backend, expires, keys, removals, now, overlapped, forgotten, outlived>>
    BY <1>5 DEF ExistsFails, cacheVars, historyVars
  <2>2. /\ pc' \in [Checks -> PC] /\ request' \in [Checks -> Requests \cup {None}]
        /\ since' \in [Checks -> Nat] /\ Given'
    BY <1>5, ReturnTyped DEF ExistsFails, PC
  <2> QED BY <2>1, <2>2, QuietTyped DEF TypeOK, PC
<1>6. ASSUME NEW c \in Checks, SetAgain(c)
      PROVE  TypeInv'
  <2>1. UNCHANGED <<backend, keys, removals, now, overlapped, forgotten>> /\ backend = "memory"
        /\ Key(c) \in Items /\ Return(c, "accepted") /\ pc[c] = "set"
        /\ outlived' \subseteq Requests
    BY <1>6, NotesTyped DEF SetAgain
  <2>2. expires' \in [Ids -> Nat \cup {None}] /\ Items' = Items \cup {Key(c)}
    BY <1>6, <2>1, KeyTyped, StoreItems DEF SetAgain
  <2>3. CacheMoves
    BY <2>1, <2>2 DEF CacheMoves
  <2> QED BY <2>1, <2>2, <2>3, MovesTyped, ReturnTyped DEF TypeOK, PC
<1>7. ASSUME NEW c \in Checks, SetNew(c)
      PROVE  TypeInv'
  <2>1. UNCHANGED <<backend, removals, now, overlapped, forgotten>> /\ backend = "memory"
        /\ Key(c) \notin Items /\ Return(c, "accepted") /\ pc[c] = "set"
        /\ outlived' \subseteq Requests
    BY <1>7, NotesTyped DEF SetNew
  <2>2. Key(c) \in Ids /\ expires' \in [Ids -> Nat \cup {None}] /\ Items' = Items \cup {Key(c)}
    BY <1>7, <2>1, KeyTyped, StoreItems DEF SetNew
  <2>3. CacheMoves
    BY <1>7, <2>1, <2>2 DEF CacheMoves, SetNew
  <2> QED BY <2>1, <2>2, <2>3, MovesTyped, ReturnTyped DEF TypeOK, PC
<1>8. ASSUME NEW c \in Checks, SetEvicting(c)
      PROVE  TypeInv'
  <2>1. UNCHANGED <<backend, removals, now, overlapped>> /\ backend = "memory"
        /\ Key(c) \notin Items /\ Return(c, "accepted") /\ pc[c] = "set"
        /\ Key(c) \in Ids /\ outlived' \subseteq Requests /\ forgotten' \subseteq Checks
    BY <1>8, KeyTyped, NotesTyped DEF SetEvicting
  <2>2. Head(keys) \in Ids /\ Head(keys) \in Items /\ keys # <<>>
    BY <1>8, <2>1, TailLists DEF SetEvicting, TypeOK, CacheShape, Lists, Items
  <2>3. Deadline \in Nat /\ Deadline # None
    BY DeadlineTyped
  <2>4. expires' \in [Ids -> Nat \cup {None}]
        /\ Items' = (Items \ {Head(keys)}) \cup {Key(c)}
    BY <1>8, <2>1, <2>2, <2>3 DEF SetEvicting, TypeOK, Items
  <2>5. CacheMoves
    BY <1>8, <2>1, <2>2, <2>4 DEF CacheMoves, SetEvicting
  <2> QED BY <2>1, <2>4, <2>5, MovesTyped, ReturnTyped DEF TypeOK, PC
<1>9. ASSUME NEW c \in Checks, SetInRedis(c)
      PROVE  TypeInv'
  <2>1. UNCHANGED <<backend, keys, removals, now, overlapped, forgotten>> /\ backend = "redis"
        /\ pc[c] = "set" /\ Key(c) \in Ids /\ outlived' \subseteq Requests
    BY <1>9, KeyTyped, NotesTyped DEF SetInRedis, TypeOK
  <2>2. expires' \in [Ids -> Nat \cup {None}]
    BY <1>9, <2>1, StoreItems DEF SetInRedis, TypeOK
  <2>3. /\ pc' \in [Checks -> PC] /\ request' \in [Checks -> Requests \cup {None}]
        /\ since' \in [Checks -> Nat] /\ Given'
    BY <1>9, <2>1, ReturnTyped DEF SetInRedis, PC
  <2>4. CacheShape'
    BY <2>1 DEF CacheShape
  <2> QED BY <2>1, <2>2, <2>3, <2>4 DEF TypeOK, PC
<1>10. ASSUME NEW k \in Ids, RemoveKey(k)
       PROVE  TypeInv'
  <2>1. UNCHANGED <<backend, now, overlapped, forgotten, outlived, pc, request, since>>
    BY <1>10 DEF RemoveKey, checkVars, historyVars
  <2>2. removals' \in [Ids -> Nat]
    BY <1>10 DEF RemoveKey, TypeOK
  <2>3. expires' \in [Ids -> Nat \cup {None}] /\ Items' = Items \ {k}
    BY <1>10 DEF RemoveKey, TypeOK, Items
  <2>4. keys' \in Seq(Ids)
    <3>1. ASSUME NEW i \in DOMAIN keys
          PROVE  SubSeq(keys, 1, i - 1) \o SubSeq(keys, i + 1, Len(keys)) \in Seq(Ids)
      <4>1. keys \in Seq(Ids) /\ i \in 1 .. Len(keys) /\ Len(keys) \in Nat
        BY DEF TypeOK
      <4>2. SubSeq(keys, 1, i - 1) \in Seq(Ids) /\ SubSeq(keys, i + 1, Len(keys)) \in Seq(Ids)
        BY <4>1
      <4> QED BY <4>2, ConcatProperties
    <3> QED BY <1>10, <3>1 DEF RemoveKey, TypeOK
  <2>5. CASE backend = "memory"
    <3>1. CacheMoves
      <4>1. keys \in Seq(Ids) /\ (k \in Items <=> \E i \in DOMAIN keys : keys[i] = k)
        BY <2>5 DEF TypeOK, CacheShape
      <4>2. CASE \A i \in DOMAIN keys : keys[i] # k
        BY <1>10, <2>3, <4>1, <4>2 DEF RemoveKey, CacheMoves
      <4>3. ASSUME NEW i \in DOMAIN keys, keys[i] = k,
                   keys' = SubSeq(keys, 1, i - 1) \o SubSeq(keys, i + 1, Len(keys))
            PROVE  CacheMoves
        <5>1. i \in 1 .. Len(keys)
          BY <4>1
        <5> QED BY <2>3, <4>3, <5>1 DEF CacheMoves
      <4> QED BY <1>10, <4>2, <4>3 DEF RemoveKey
    <3> QED BY <2>1, <2>2, <2>3, <2>5, <3>1, MovesTyped DEF TypeOK, Given
  <2>6. CASE backend # "memory"
    BY <2>1, <2>2, <2>3, <2>4, <2>6 DEF TypeOK, Given, CacheShape
  <2> QED BY <2>5, <2>6
<1>11. CASE Restart
  <2>1. /\ UNCHANGED <<now, backend, request, overlapped, outlived>>
        /\ pc' \in [Checks -> PC] /\ since' \in [Checks -> Nat] /\ removals' \in [Ids -> Nat]
        /\ \A c \in Checks : pc'[c] # "idle" => pc[c] # "idle"
    BY <1>11 DEF Restart, TypeOK, PC, Running
  <2>2. CASE UNCHANGED <<expires, keys, forgotten>>
    BY <2>1, <2>2, QuietTyped DEF TypeOK, Given, PC
  <2>3. CASE /\ backend = "memory" /\ expires' = [k \in Ids |-> None] /\ keys' = <<>>
             /\ NoteLoss(Items)
    <3>1. Items' = {} /\ expires' \in [Ids -> Nat \cup {None}]
      BY <2>3 DEF Items
    <3>2. CacheMoves
      BY <2>3, <3>1 DEF CacheMoves
    <3>3. forgotten' \subseteq Checks
      BY <2>3, NotesTyped
    <3> QED BY <2>1, <2>3, <3>1, <3>2, <3>3, MovesTyped DEF TypeOK, Given, PC
  <2> QED BY <1>11, <2>2, <2>3 DEF Restart
<1> QED
  BY <1>1, <1>2, <1>3, <1>4, <1>5, <1>6, <1>7, <1>8, <1>9, <1>10, <1>11 DEF Next, Check

LEMMA TypeInit == Init => TypeInv
<1> SUFFICES ASSUME Init PROVE TypeInv
  OBVIOUS
<1>1. keys = <<>> /\ keys \in Seq(Ids) /\ DOMAIN keys = {} /\ Len(keys) = 0 /\ Items = {}
  BY DEF Init, Items
<1>2. CacheShape
  BY <1>1, SizeAssumption DEF CacheShape
<1>3. now \in 0 .. MaxTime
  BY TimeAssumption DEF Init
<1> QED BY <1>1, <1>2, <1>3 DEF Init, TypeInv, TypeOK, Given

LEMMA Typed == Spec => []TypeInv
BY TypeInit, TypeStep, PTL DEF Spec

\* Every variable keeps its type; the memory cache lists each of its items once
\* in the order of insertion and never holds more than MaxSize of them (Set,
\* its eviction, and removeKey).
THEOREM TypeCorrect == Spec => []TypeOK
<1>1. TypeInv => TypeOK
  BY DEF TypeInv
<1> QED BY <1>1, Typed, PTL

-----------------------------------------------------------------------------
(* What a step does to a check, to an entry and to the clock               *)

Stores(c) ==
  /\ pc[c] = "set"
  /\ expires'[Key(c)] = Deadline
  /\ Outlives(request[c]) => request[c] \in outlived'
  /\ pc'[c] = "accepted" \/ (pc'[c] = "failed" /\ backend = "redis")

\* Whatever was accepted for the id k counts as forgotten.
Lost(k) == \A c \in Checks : pc[c] = "accepted" /\ Key(c) = k => c \in forgotten'

EntryMoves(k) ==
  \/ expires'[k] = expires[k]
  \/ \E c \in Checks : Key(c) = k /\ Stores(c)
  \/ expires'[k] = None /\ (Lost(k) \/ removals[k] > 0)

Swept(k) ==
  /\ k \in Items /\ now > expires[k]
  /\ \E c \in Checks : pc[c] = "exists" /\ Key(c) = k

SweepMoves(k) == removals'[k] <= removals[k] \/ Swept(k)

Begins(c) ==
  /\ pc[c] = "idle" /\ pc'[c] \in {"exists", "expired"}
  /\ request'[c] \in Requests
  /\ pc'[c] = "exists" => Recent(request'[c]) /\ since'[c] = now
  /\ \A d \in Checks \ {c} :
       /\ pc'[d] = pc[d] /\ request'[d] = request[d]
       /\ pc'[c] = "exists" /\ Running(d) /\ request[d] = request'[c]
            => {c, d} \in overlapped'

Answered(c) ==
  /\ request'[c] = request[c]
  /\ \/ pc[c] = "exists" /\ pc'[c] = "set" /\ ~ Present(Key(c)) /\ since'[c] = since[c]
     \/ pc[c] = "exists" /\ pc'[c] = "repeat" /\ Present(Key(c))
     \/ Running(c) /\ pc'[c] = "failed"
     \/ Stores(c) /\ pc'[c] = "accepted"

Rests(c) ==
  pc'[c] = pc[c] /\ request'[c] = request[c] /\ (Running(c) => since'[c] = since[c])

ClockMoves ==
  \/ now' = now
  \/ now' = now + 1 /\ \A c \in Checks : Rests(c) /\ (Running(c) => now < since[c] + Delay)

StepShape ==
  /\ ClockMoves
  /\ \A c \in Checks : Rests(c) \/ Begins(c) \/ Answered(c)
  /\ \A k \in Ids : EntryMoves(k) /\ SweepMoves(k)
  /\ backend' = backend /\ overlapped \subseteq overlapped'
  /\ forgotten \subseteq forgotten' /\ outlived \subseteq outlived'

\* Only check c moves, and it moves so.
LEMMA GotoShape ==
  ASSUME TypeInv, NEW c \in Checks, Goto(c)
  PROVE  /\ pc'[c] = "set" /\ request' = request /\ since' = since
         /\ \A d \in Checks : d # c => Rests(d)
BY DEF TypeInv, TypeOK, Goto, Rests

LEMMA ReturnShape ==
  ASSUME TypeInv, NEW c \in Checks, NEW l, Return(c, l)
  PROVE  /\ pc'[c] = l /\ request' = request
         /\ \A d \in Checks : d # c => Rests(d)
BY DEF TypeInv, TypeOK, Return, Rests

LEMMA NotesGrow ==
  ASSUME TypeInv
  PROVE  /\ \A c \in Checks : NoteStore(c) /\ pc[c] = "set" =>
              /\ outlived \subseteq outlived'
              /\ Outlives(request[c]) => request[c] \in outlived'
         /\ \A K : NoteLoss(K) => /\ forgotten \subseteq forgotten'
                                  /\ \A k \in K : Lost(k)
BY KeyTyped DEF NoteStore, NoteLoss, Lost

LEMMA StepHasShape ==
  ASSUME TypeInv, [Next]_vars
  PROVE  StepShape
<1> USE DEF EntryMoves, SweepMoves
<1>0. \A k \in Ids : removals[k] \in Nat
  BY DEF TypeInv, TypeOK
<1>1. CASE UNCHANGED vars
  BY <1>0, <1>1 DEF vars, cacheVars, checkVars, historyVars, StepShape, ClockMoves, Rests
<1>2. CASE Tick
  BY <1>0, <1>2 DEF Tick, cacheVars, checkVars, historyVars, StepShape, ClockMoves, Rests
<1>3. ASSUME NEW c \in Checks, ValidateRequest(c)
      PROVE  StepShape
  <2>1. UNCHANGED <<now, backend, expires, removals, forgotten, outlived>>
    BY <1>3 DEF ValidateRequest, cacheVars
  <2>2. overlapped \subseteq overlapped'
    BY <1>3 DEF ValidateRequest
  <2>3. \A d \in Checks \ {c} : Rests(d) /\ pc'[d] = pc[d] /\ request'[d] = request[d]
    BY <1>3 DEF ValidateRequest, Rests, TypeInv, TypeOK
  <2>4. Begins(c)
    BY <1>3, <2>3 DEF ValidateRequest, Begins, TypeInv, TypeOK
  <2> QED BY <1>0, <2>1, <2>2, <2>3, <2>4 DEF StepShape, ClockMoves
<1>4. ASSUME NEW c \in Checks, Exists(c)
      PROVE  StepShape
  <2>1. UNCHANGED <<now, backend, expires, overlapped, forgotten, outlived>>
    BY <1>4 DEF Exists, historyVars
  <2>2. pc[c] = "exists" /\ Key(c) \in Ids
    BY <1>4, KeyTyped DEF Exists
  <2>3. \A k \in Ids : SweepMoves(k)
    BY <1>0, <1>4, <2>2 DEF Exists, Sweep, SweepExpired, Swept, TypeInv, TypeOK
  <2>4. Answered(c) /\ \A d \in Checks : d # c => Rests(d)
    BY <1>4, <2>2, GotoShape, ReturnShape DEF Exists, Answered
  <2> QED BY <2>1, <2>3, <2>4 DEF StepShape, ClockMoves
<1>5. ASSUME NEW c \in Checks, ExistsFails(c)
      PROVE  StepShape
  <2>1. UNCHANGED <<now, backend, expires, removals, overlapped, forgotten, outlived>>
    BY <1>5 DEF ExistsFails, cacheVars, historyVars
  <2>2. Answered(c) /\ \A d \in Checks : d # c => Rests(d)
    BY <1>5, ReturnShape DEF ExistsFails, Answered, Running
  <2> QED BY <1>0, <2>1, <2>2 DEF StepShape, ClockMoves
<1>6. ASSUME NEW c \in Checks, SetAgain(c) \/ SetNew(c)
      PROVE  StepShape
  <2>1. /\ UNCHANGED <<now, backend, removals, overlapped, forgotten>>
        /\ pc[c] = "set" /\ Return(c, "accepted")
        /\ expires' = [expires EXCEPT ![Key(c)] = Deadline]
        /\ outlived \subseteq outlived' /\ (Outlives(request[c]) => request[c] \in outlived')
    BY <1>6, NotesGrow DEF SetAgain, SetNew
  <2>2. Key(c) \in Ids
    BY <2>1, KeyTyped
  <2>3. Stores(c) /\ \A d \in Checks : d # c => Rests(d)
    BY <2>1, <2>2, ReturnShape DEF Stores, TypeInv, TypeOK
  <2>4. Answered(c)
    BY <2>1, <2>3, ReturnShape DEF Answered
  <2>5. \A k \in Ids : EntryMoves(k)
    BY <2>1, <2>3 DEF TypeInv, TypeOK
  <2> QED BY <1>0, <2>1, <2>3, <2>4, <2>5 DEF StepShape, ClockMoves
<1>7. ASSUME NEW c \in Checks, SetEvicting(c)
      PROVE  StepShape
  <2>1. /\ UNCHANGED <<now, backend, removals, overlapped>>
        /\ pc[c] = "set" /\ Return(c, "accepted") /\ Key(c) \notin Items
        /\ forgotten \subseteq forgotten' /\ Lost(Head(keys))
        /\ expires' = [expires EXCEPT ![Head(keys)] = None, ![Key(c)] = Deadline]
        /\ outlived \subseteq outlived' /\ (Outlives(request[c]) => request[c] \in outlived')
    BY <1>7, NotesGrow DEF SetEvicting
  <2>2. Key(c) \in Ids
    BY <2>1, KeyTyped
  <2>3. Stores(c) /\ \A d \in Checks : d # c => Rests(d)
    BY <2>1, <2>2, ReturnShape DEF Stores, TypeInv, TypeOK
  <2>4. Answered(c)
    BY <2>1, <2>3, ReturnShape DEF Answered
  <2>5. \A k \in Ids : EntryMoves(k)
    BY <2>1, <2>3 DEF TypeInv, TypeOK
  <2>6. forgotten \subseteq forgotten' /\ \A k \in Ids : SweepMoves(k)
    BY <1>0, <2>1
  <2> HIDE DEF EntryMoves, SweepMoves
  <2> QED BY <2>1, <2>3, <2>4, <2>5, <2>6 DEF StepShape, ClockMoves
<1>8. ASSUME NEW c \in Checks, SetInRedis(c)
      PROVE  StepShape
  <2>1. /\ UNCHANGED <<now, backend, removals, overlapped, forgotten>>
        /\ pc[c] = "set" /\ backend = "redis" /\ outlived \subseteq outlived'
    BY <1>8, NotesGrow DEF SetInRedis
  <2>2. Key(c) \in Ids
    BY <2>1, KeyTyped
  <2>3. \A d \in Checks : d # c => Rests(d)
    BY <1>8, ReturnShape DEF SetInRedis
  <2>4. UNCHANGED expires \/ Stores(c)
    BY <1>8, <2>1, <2>2, ReturnShape, NotesGrow DEF SetInRedis, Stores, TypeInv, TypeOK
  <2>5. Answered(c)
    BY <1>8, <2>1, <2>2, ReturnShape, NotesGrow
       DEF SetInRedis, Answered, Stores, Running, TypeInv, TypeOK
  <2>6. \A k \in Ids : EntryMoves(k)
    BY <1>8, <2>1, <2>4 DEF SetInRedis, TypeInv, TypeOK
  <2> QED BY <1>0, <2>1, <2>3, <2>5, <2>6 DEF StepShape, ClockMoves
<1>9. ASSUME NEW k \in Ids, RemoveKey(k)
      PROVE  StepShape
  <2>1. /\ UNCHANGED <<now, backend, pc, request, since, overlapped, forgotten, outlived>>
        /\ removals[k] > 0 /\ expires' = [expires EXCEPT ![k] = None]
        /\ removals' = [removals EXCEPT ![k] = @ - 1]
    BY <1>9 DEF RemoveKey, checkVars, historyVars
  <2>2. \A j \in Ids : EntryMoves(j) /\ SweepMoves(j)
    BY <1>0, <2>1 DEF TypeInv, TypeOK
  <2> QED BY <2>1, <2>2 DEF StepShape, ClockMoves, Rests
<1>10. CASE Restart
  <2>1. UNCHANGED <<now, backend, request, overlapped, outlived>> /\ forgotten \subseteq forgotten'
    BY <1>10, NotesGrow DEF Restart
  <2>2. \A c \in Checks : Rests(c) \/ Answered(c)
    BY <1>10 DEF Restart, Rests, Answered, Running
  <2>3. \A k \in Ids : EntryMoves(k) /\ SweepMoves(k)
    BY <1>0, <1>10, NotesGrow DEF Restart, Items, TypeInv, TypeOK
  <2> QED BY <2>1, <2>2, <2>3 DEF StepShape, ClockMoves
<1> QED
  BY <1>1, <1>2, <1>3, <1>4, <1>5, <1>6, <1>7, <1>8, <1>9, <1>10 DEF Next, Check

-----------------------------------------------------------------------------
(* The invariant                                                           *)

\* A running check has not used up its time, and its request was recent.
Timely ==
  \A c \in Checks : Running(c) =>
    /\ since[c] <= now /\ now <= since[c] + Delay
    /\ since[c] <= Timestamp[request[c]] + TimeWindow[backend]

OverlapsKnown ==
  \A c, d \in Checks :
    c # d /\ Running(c) /\ Running(d) /\ request[c] = request[d] => {c, d} \in overlapped

\* A request with an id of its own that was never stored for too short a time.
Safe(r) == UniqueId(r) /\ r \notin outlived

\* Its id is kept until no check of it can be running any more.
KeptLongEnough ==
  \A r \in Requests : Safe(r) /\ IdOf[r] \in Items =>
    \/ Timestamp[r] + TimeWindow[backend] + Delay <= expires[IdOf[r]]
    \/ MaxTime <= expires[IdOf[r]]

NeverSwept == \A r \in Requests : Safe(r) => removals[IdOf[r]] = 0

Remembered ==
  \A c \in Checks :
    pc[c] = "accepted" /\ Safe(request[c]) => Key(c) \in Items \/ c \in forgotten

PassesKnown ==
  \A c, d \in Checks :
    /\ c # d /\ pc[c] = "accepted" /\ pc[d] \in {"set", "accepted"}
    /\ request[c] = request[d] /\ UniqueId(request[c])
    => {c, d} \in overlapped \/ {c, d} \cap forgotten # {} \/ request[c] \in outlived

\* Check d has stored the id k.
SourceOf(d, k) ==
  /\ Key(d) = k
  /\ pc[d] = "accepted" \/ (pc[d] = "failed" /\ backend = "redis")

EntriesHaveSources == \A k \in Items : \E d \in Checks : SourceOf(d, k)
RepeatsHaveSources == \A c \in Checks : pc[c] = "repeat" => \E d \in Checks : SourceOf(d, Key(c))

Inv ==
  /\ TypeInv /\ Timely /\ OverlapsKnown
  /\ KeptLongEnough /\ NeverSwept /\ Remembered /\ PassesKnown
  /\ EntriesHaveSources /\ RepeatsHaveSources

LEMMA ClockTyped ==
  ASSUME TypeInv
  PROVE  /\ now \in Nat /\ MaxTime \in Nat /\ now <= MaxTime
         /\ TimeWindow[backend] \in Nat /\ ExpireTime[backend] \in Nat /\ Delay \in Nat
         /\ \A r \in Requests : Timestamp[r] \in Nat /\ IdOf[r] \in Ids
         /\ \A c \in Checks : since[c] \in Nat
         /\ \A k \in Ids : removals[k] \in Nat
         /\ \A k \in Items : k \in Ids /\ expires[k] \in Nat
BY TimeAssumption, RequestsAssumption DEF TypeInv, TypeOK, Items

\* While a check of a safe request runs, the id of the request does not expire.
LEMMA AliveWhileChecked ==
  ASSUME Inv, NEW c \in Checks, Running(c), Safe(request[c]), Key(c) \in Items
  PROVE  now <= expires[Key(c)] /\ Present(Key(c))
<1>1. request[c] \in Requests
  BY KeyTyped DEF Inv, Running
<1>2. /\ now <= since[c] + Delay /\ since[c] <= Timestamp[request[c]] + TimeWindow[backend]
      /\ \/ Timestamp[request[c]] + TimeWindow[backend] + Delay <= expires[Key(c)]
         \/ MaxTime <= expires[Key(c)]
  BY <1>1 DEF Inv, Timely, KeptLongEnough, Key
<1>3. /\ now \in Nat /\ since[c] \in Nat /\ Timestamp[request[c]] \in Nat /\ expires[Key(c)] \in Nat
      /\ TimeWindow[backend] \in Nat /\ Delay \in Nat /\ MaxTime \in Nat /\ now <= MaxTime
  BY <1>1, ClockTyped DEF Inv
<1>4. now <= expires[Key(c)]
  BY <1>2, <1>3
<1> QED BY <1>4 DEF Present

\* A check that runs after a step ran before it, or begins.
LEMMA RunningBefore ==
  ASSUME TypeInv, StepShape, NEW c \in Checks, Running(c)'
  PROVE  \/ Running(c) /\ request'[c] = request[c] /\ since'[c] = since[c]
         \/ Begins(c)
BY DEF StepShape, Rests, Answered, Running, Stores

LEMMA TimelyStep == ASSUME Inv, StepShape PROVE Timely'
<1>1. backend' = backend
  BY DEF StepShape
<1>2. ASSUME NEW c \in Checks, Running(c)'
      PROVE  /\ since'[c] <= now' /\ now' <= since'[c] + Delay
             /\ since'[c] <= Timestamp[request'[c]] + TimeWindow[backend']
  <2>1. CASE Begins(c)
    <3>1. now' = now
      <4>1. ~ Rests(c)
        BY <2>1 DEF Begins, Rests
      <4> QED BY <4>1 DEF StepShape, ClockMoves
    <3>2. since'[c] = now /\ Recent(request'[c]) /\ request'[c] \in Requests
      BY <1>2, <2>1 DEF Begins, Running
    <3> QED BY <1>1, <3>1, <3>2, ClockTyped DEF Inv, Recent
  <2>2. CASE Running(c) /\ request'[c] = request[c] /\ since'[c] = since[c]
    <3>1. /\ since[c] <= now /\ now <= since[c] + Delay
          /\ since[c] <= Timestamp[request[c]] + TimeWindow[backend]
      BY <2>2 DEF Inv, Timely
    <3>2. now' = now \/ (now' = now + 1 /\ now < since[c] + Delay)
      BY <2>2 DEF StepShape, ClockMoves
    <3>3. now \in Nat /\ since[c] \in Nat /\ Delay \in Nat
      BY ClockTyped DEF Inv
    <3> QED BY <1>1, <2>2, <3>1, <3>2, <3>3
  <2> QED BY <1>2, <2>1, <2>2, RunningBefore DEF Inv
<1> QED BY <1>2 DEF Timely, Running

LEMMA OverlapsStep == ASSUME Inv, StepShape PROVE OverlapsKnown'
<1> SUFFICES ASSUME NEW c \in Checks, NEW d \in Checks, c # d, Running(c)', Running(d)',
                    request'[c] = request'[d]
             PROVE  {c, d} \in overlapped'
  BY DEF OverlapsKnown, Running
<1>1. CASE Begins(c)
  <2>1. Running(d) /\ request'[d] = request[d]
    BY <1>1 DEF Begins, Running
  <2> QED BY <1>1, <2>1 DEF Begins, Running
<1>2. CASE Begins(d)
  <2>1. Running(c) /\ request'[c] = request[c]
    BY <1>2 DEF Begins, Running
  <2>2. {d, c} \in overlapped'
    BY <1>2, <2>1 DEF Begins, Running
  <2>3. {d, c} = {c, d}
    OBVIOUS
  <2> QED BY <2>2, <2>3
<1>3. CASE Running(c) /\ request'[c] = request[c] /\ Running(d) /\ request'[d] = request[d]
  BY <1>3 DEF Inv, OverlapsKnown, StepShape
<1> QED BY <1>1, <1>2, <1>3, RunningBefore DEF Inv

\* A request that is safe after a step was safe before it.
LEMMA SafeBefore ==
  ASSUME StepShape, NEW r, Safe(r)'
  PROVE  UniqueId(r) /\ r \notin outlived' /\ Safe(r)
BY DEF StepShape, Safe, UniqueId

LEMMA KeptStep == ASSUME Inv, TypeInv', StepShape PROVE KeptLongEnough'
<1> SUFFICES ASSUME NEW r \in Requests, Safe(r)', IdOf[r] \in Items'
             PROVE  \/ Timestamp[r] + TimeWindow[backend'] + Delay <= expires'[IdOf[r]]
                    \/ MaxTime <= expires'[IdOf[r]]
  BY DEF KeptLongEnough, Safe, UniqueId
<1>1. /\ IdOf[r] \in Ids /\ expires'[IdOf[r]] # None /\ backend' = backend
      /\ UniqueId(r) /\ r \notin outlived' /\ Safe(r)
  BY SafeBefore DEF Items, StepShape
<1>2. CASE expires'[IdOf[r]] = expires[IdOf[r]]
  BY <1>1, <1>2 DEF Inv, KeptLongEnough, Items
<1>3. ASSUME NEW c \in Checks, Key(c) = IdOf[r], Stores(c)
      PROVE  \/ Timestamp[r] + TimeWindow[backend'] + Delay <= expires'[IdOf[r]]
             \/ MaxTime <= expires'[IdOf[r]]
  <2>1. request[c] = r
    BY <1>1, <1>3, KeyTyped DEF Inv, Stores, Key, UniqueId
  <2>2. ~ Outlives(r) /\ expires'[IdOf[r]] = Deadline
    BY <1>1, <1>3, <2>1 DEF Stores
  <2>3. Deadline \in Nat
    BY DeadlineTyped DEF Inv, TypeInv
  <2>4. CASE ExpireTime[backend] = 0
    BY <2>2, <2>4, ClockTyped DEF Deadline, Inv
  <2>5. CASE ExpireTime[backend] # 0
    BY <1>1, <2>2, <2>3, <2>5, ClockTyped DEF Outlives, Inv
  <2> QED BY <2>4, <2>5
<1> QED BY <1>1, <1>2, <1>3 DEF StepShape, EntryMoves

LEMMA SweptStep == ASSUME Inv, TypeInv', StepShape PROVE NeverSwept'
<1> SUFFICES ASSUME NEW r \in Requests, Safe(r)'
             PROVE  removals'[IdOf[r]] = 0
  BY DEF NeverSwept, Safe, UniqueId
<1>0. Safe(r) /\ UniqueId(r)
  BY SafeBefore
<1>1. IdOf[r] \in Ids /\ removals[IdOf[r]] = 0 /\ removals'[IdOf[r]] \in Nat
  BY <1>0, ClockTyped DEF Inv, NeverSwept, TypeInv, TypeOK
<1>2. ~ Swept(IdOf[r])
  <2> SUFFICES ASSUME IdOf[r] \in Items, now > expires[IdOf[r]],
                      NEW c \in Checks, pc[c] = "exists", Key(c) = IdOf[r]
               PROVE  FALSE
    BY DEF Swept
  <2>1. request[c] = r /\ Running(c)
    BY <1>0, KeyTyped DEF Inv, Key, UniqueId, Running
  <2>2. now <= expires[IdOf[r]]
    BY <1>0, <2>1, AliveWhileChecked
  <2> QED BY <2>2, ClockTyped DEF Inv
<1> QED BY <1>1, <1>2 DEF StepShape, SweepMoves

LEMMA RememberedStep == ASSUME Inv, TypeInv', StepShape PROVE Remembered'
<1> SUFFICES ASSUME NEW c \in Checks, pc'[c] = "accepted", Safe(request[c])'
             PROVE  Key(c)' \in Items' \/ c \in forgotten'
  BY DEF Remembered
<1>1. /\ request'[c] = request[c] /\ Key(c)' = Key(c) /\ pc[c] # "idle"
      /\ pc[c] = "accepted" \/ Stores(c)
  <2>1. Rests(c) \/ Answered(c)
    BY DEF StepShape, Begins
  <2>2. CASE Rests(c)
    BY <2>2 DEF Rests, Key
  <2>3. CASE Answered(c)
    <3>1. request'[c] = request[c] /\ Stores(c)
      BY <2>3 DEF Answered
    <3> QED BY <3>1 DEF Stores, Key
  <2> QED BY <2>1, <2>2, <2>3
<1>2. Key(c) \in Ids /\ request[c] \in Requests /\ Safe(request[c])
  <2>1. Safe(request'[c])
    BY DEF StepShape, Safe, UniqueId
  <2> QED BY <1>1, <2>1, KeyTyped DEF Inv
<1>3. \A d \in Checks : Stores(d) /\ Key(d) = Key(c) => Key(c) \in Items'
  <2>1. Deadline # None
    BY DeadlineTyped DEF Inv, TypeInv
  <2> QED BY <1>2, <2>1 DEF Stores, Items
<1>4. CASE pc[c] = "accepted"
  <2>1. Key(c) \in Items \/ c \in forgotten
    BY <1>2, <1>4 DEF Inv, Remembered
  <2>2. removals[Key(c)] = 0
    BY <1>2 DEF Inv, NeverSwept, Key
  <2>3. EntryMoves(Key(c)) /\ forgotten \subseteq forgotten'
    BY <1>2 DEF StepShape
  <2>4. CASE expires'[Key(c)] = expires[Key(c)]
    BY <1>1, <1>2, <2>1, <2>3, <2>4 DEF Items
  <2> QED BY <1>1, <1>3, <1>4, <2>2, <2>3, <2>4 DEF EntryMoves, Lost
<1> QED BY <1>1, <1>3, <1>4

LEMMA PassesStep == ASSUME Inv, StepShape PROVE PassesKnown'
<1> SUFFICES ASSUME NEW c \in Checks, NEW d \in Checks, c # d, pc'[c] = "accepted",
                    pc'[d] \in {"set", "accepted"}, request'[c] = request'[d],
                    UniqueId(request'[c])
             PROVE  {c, d} \in overlapped' \/ {c, d} \cap forgotten' # {}
                      \/ request'[c] \in outlived'
  BY DEF PassesKnown, UniqueId
<1>1. request'[c] = request[c] /\ Key(c)' = Key(c) /\ (pc[c] = "accepted" \/ pc[c] = "set")
  BY DEF StepShape, Rests, Begins, Answered, Key, Stores
<1>2. request'[d] = request[d] /\ Key(d) = Key(c)
      /\ \/ pc[d] \in {"set", "accepted"}
         \/ pc[d] = "exists" /\ ~ Present(Key(d))
  BY <1>1 DEF StepShape, Rests, Begins, Answered, Key, Stores
<1>3. /\ overlapped \subseteq overlapped' /\ forgotten \subseteq forgotten'
      /\ outlived \subseteq outlived' /\ request[d] = request[c] /\ {d, c} = {c, d}
  BY <1>1, <1>2 DEF StepShape
<1>4. CASE Running(c) /\ Running(d)
  BY <1>1, <1>2, <1>3, <1>4 DEF Inv, OverlapsKnown
<1>5. CASE pc[c] = "accepted" /\ pc[d] \in {"set", "accepted"}
  <2>1. {c, d} \in overlapped \/ {c, d} \cap forgotten # {} \/ request[c] \in outlived
    BY <1>1, <1>3, <1>5 DEF Inv, PassesKnown
  <2> QED BY <1>1, <1>3, <2>1
<1>6. CASE pc[c] = "set" /\ pc[d] = "accepted"
  <2>1. {d, c} \in overlapped \/ {d, c} \cap forgotten # {} \/ request[d] \in outlived
    BY <1>1, <1>3, <1>6 DEF Inv, PassesKnown
  <2> QED BY <1>1, <1>3, <2>1
<1>7. CASE pc[c] = "accepted" /\ pc[d] = "exists" /\ ~ Present(Key(d))
  <2>1. CASE request[c] \in outlived
    BY <1>1, <1>3, <2>1
  <2>2. CASE request[c] \notin outlived
    <3>1. Safe(request[c])
      BY <1>1, <2>2 DEF Safe
    <3>2. Key(d) \notin Items
      BY <1>3, <1>7, <3>1, AliveWhileChecked DEF Running
    <3>3. c \in forgotten
      BY <1>2, <1>7, <3>1, <3>2 DEF Inv, Remembered
    <3> QED BY <1>3, <3>3
  <2> QED BY <2>1, <2>2
<1> QED BY <1>1, <1>2, <1>4, <1>5, <1>6, <1>7 DEF Running

LEMMA SourcesStep ==
  ASSUME Inv, TypeInv', StepShape
  PROVE  EntriesHaveSources' /\ RepeatsHaveSources'
<1>1. ASSUME NEW d \in Checks, NEW k, SourceOf(d, k)
      PROVE  SourceOf(d, k)'
  BY <1>1 DEF StepShape, Rests, Begins, Answered, Running, Stores, SourceOf, Key
<1>2. ASSUME NEW d \in Checks, Stores(d)
      PROVE  SourceOf(d, Key(d))'
  <2>1. request'[d] = request[d]
    BY <1>2 DEF StepShape, Rests, Begins, Answered, Stores
  <2> QED BY <1>2, <2>1 DEF Stores, SourceOf, Key, StepShape
<1>3. ASSUME NEW k \in Items'
      PROVE  \E d \in Checks : SourceOf(d, k)'
  <2>1. k \in Ids /\ expires'[k] # None
    BY <1>3 DEF Items
  <2>2. CASE expires'[k] = expires[k]
    <3>1. k \in Items
      BY <2>1, <2>2 DEF Items
    <3> QED BY <1>1, <3>1 DEF Inv, EntriesHaveSources
  <2>3. ASSUME NEW d \in Checks, Key(d) = k, Stores(d)
        PROVE  SourceOf(d, k)'
    <3>1. Key(d)' = k
      BY <2>3 DEF StepShape, Rests, Begins, Answered, Stores, Key
    <3> QED BY <1>2, <2>3, <3>1 DEF SourceOf
  <2> QED BY <2>1, <2>2, <2>3 DEF StepShape, EntryMoves
<1>4. ASSUME NEW c \in Checks, pc'[c] = "repeat"
      PROVE  \E d \in Checks : SourceOf(d, Key(c))'
  <2>1. Rests(c) \/ Answered(c)
    BY <1>4 DEF StepShape, Begins
  <2>2. Key(c)' = Key(c)
    BY <2>1 DEF Rests, Answered, Key
  <2>3. pc[c] = "repeat" \/ Present(Key(c))
    BY <1>4, <2>1 DEF Rests, Answered
  <2>4. PICK d \in Checks : SourceOf(d, Key(c))
    BY <2>3 DEF Inv, EntriesHaveSources, RepeatsHaveSources, Present
  <2>5. PICK k : k = Key(c)
    OBVIOUS
  <2>6. SourceOf(d, k)'
    BY <1>1, <2>4, <2>5
  <2>7. Key(d)' = Key(c)'
    BY <2>2, <2>5, <2>6 DEF SourceOf
  <2> QED BY <2>6, <2>7 DEF SourceOf
<1> QED BY <1>3, <1>4 DEF EntriesHaveSources, RepeatsHaveSources

LEMMA Invariant == Spec => []Inv
<1>1. Init => Inv
  <2> SUFFICES ASSUME Init PROVE Inv
    OBVIOUS
  <2>1. Items = {} /\ \A c \in Checks : pc[c] = "idle"
    BY DEF Init, Items
  <2>2. NeverSwept
    BY RequestsAssumption DEF Init, NeverSwept
  <2> QED BY <2>1, <2>2, TypeInit DEF Inv, Timely, OverlapsKnown, KeptLongEnough,
          Remembered, PassesKnown, EntriesHaveSources, RepeatsHaveSources, Running
<1>2. Inv /\ [Next]_vars => Inv'
  <2> SUFFICES ASSUME Inv, [Next]_vars PROVE Inv'
    OBVIOUS
  <2>1. TypeInv' /\ StepShape
    BY TypeStep, StepHasShape DEF Inv
  <2> QED BY <2>1, TimelyStep, OverlapsStep, KeptStep, SweptStep, RememberedStep, PassesStep,
             SourcesStep DEF Inv
<1> QED BY <1>1, <1>2, PTL DEF Spec

-----------------------------------------------------------------------------
\* A request is let through once, in either cache, for any windows, expiry times
\* and timestamps and with any failures, unless the two checks ran at once, the
\* id of one was evicted or lost in a restart, or the id was stored for less
\* time than its request had left (ValidateRequest's look and store).
THEOREM OnceAccepted == Spec => []AcceptedOnce
<1>1. Inv => AcceptedOnce
  BY DEF Inv, PassesKnown, AcceptedOnce
<1> QED BY <1>1, Invariant, PTL

\* ErrRequestRepeat is returned only for an id that some check has stored.
THEOREM RepeatsAccepted == Spec => []RepeatsWereAccepted
<1>1. Inv => RepeatsWereAccepted
  <2> SUFFICES ASSUME Inv, NEW c \in Checks, pc[c] = "repeat"
               PROVE  \E d \in Checks :
                        /\ request[d] # None /\ Key(d) = Key(c)
                        /\ pc[d] = "accepted" \/ (pc[d] = "failed" /\ backend = "redis")
    BY DEF RepeatsWereAccepted
  <2>1. PICK d \in Checks : SourceOf(d, Key(c))
    BY DEF Inv, RepeatsHaveSources
  <2>2. request[d] \in Requests
    BY <2>1, KeyTyped DEF Inv, SourceOf
  <2> QED BY <2>1, <2>2, RequestsAssumption DEF SourceOf
<1> QED BY <1>1, Invariant, PTL

\* The goroutine that Exists starts for an expired entry never removes a live
\* one, unless the id was used for two requests or once stored for less time
\* than its request had left: no check can find any other id expired.
THEOREM EntriesStay == Spec => LiveEntriesStay
<1>1. Inv => \A r \in Requests \ outlived : UniqueId(r) => removals[IdOf[r]] = 0
  BY DEF Inv, NeverSwept, Safe
<1>2. Inv /\ [Next]_vars =>
        [\A r \in Requests \ outlived :
           UniqueId(r) /\ Present(IdOf[r]) => ~ RemoveKey(IdOf[r])]_vars
  BY <1>1 DEF RemoveKey
<1> QED BY <1>2, Invariant, PTL DEF Spec, LiveEntriesStay
=============================================================================

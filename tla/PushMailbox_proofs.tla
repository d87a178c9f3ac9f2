--------------------------- MODULE PushMailbox_proofs ---------------------------
(***************************************************************************)
(* Push and the offline store implement Mailbox, for every set of users,   *)
(* nodes, messages, calls and partitions, every page size and every set of *)
(* faults.                                                                 *)
(***************************************************************************)
EXTENDS PushDelivery_proofs

Archived(m) == store[m] # "none"

\* What handlers read, send, leave behind and had accepted came out of the
\* archive.
HandlersSendArchived ==
  /\ \A p \in Partitions : \A m \in page[p] : Archived(m)
  /\ \A p \in Partitions : call.by = p => \A m \in call.rest : Archived(m)
  /\ \A r \in late : r[1] \in Partitions => Archived(r[3])
  /\ \A m \in drained : Archived(m)

MailInv ==
  /\ TypeOK
  /\ CallersWait
  /\ RecordedInv
  /\ RoutesInv
  /\ SentRowsAreSettled
  /\ HandlersSendArchived

-----------------------------------------------------------------------------
(* Handlers send what is archived                                          *)

LEMMA InitHandlersSendArchived == Init => HandlersSendArchived
BY DEF Init, HandlersSendArchived, NoRequest

LEMMA ArchivedStays ==
  ASSUME TypeOK, [Next]_vars, NEW m \in Msgs, Archived(m)
  PROVE  Archived(m)'
BY StoreGrows DEF Archived

\* Whatever keeps each list within what it was keeps the invariant.
LEMMA SentArchivedStays ==
  ASSUME TypeOK, HandlersSendArchived, [Next]_vars,
         \A p \in Partitions : \A m \in page'[p] : m \in page[p] \/ (m \in Msgs /\ Archived(m)),
         \A p \in Partitions : call'.by = p =>
           \A m \in call'.rest : m \in page[p] \/ (call.by = p /\ m \in call.rest),
         \A r \in late' : \/ r \in late
                          \/ r[1] = call.by /\ r[3] \in call.rest,
         \A m \in drained' : \/ m \in drained
                             \/ call.by \in Partitions /\ m \in call.rest
                             \/ \E r \in late : r[1] \in Partitions /\ r[3] = m
  PROVE  HandlersSendArchived'
<1>1. /\ \A p \in Partitions : page[p] \subseteq Msgs
      /\ call.rest \subseteq Msgs
      /\ \A r \in late : r[3] \in Msgs
      /\ drained \subseteq Msgs
  BY RequestFacts DEF TypeOK, DrainType, RpcType
<1>2. \A p \in Partitions : \A m \in page'[p] : Archived(m)'
  BY <1>1, ArchivedStays DEF HandlersSendArchived
<1>3. \A p \in Partitions : call'.by = p => \A m \in call'.rest : Archived(m)'
  BY <1>1, ArchivedStays DEF HandlersSendArchived
<1>4. \A r \in late' : r[1] \in Partitions => Archived(r[3])'
  BY <1>1, ArchivedStays DEF HandlersSendArchived
<1>5. \A m \in drained' : Archived(m)'
  BY <1>1, ArchivedStays DEF HandlersSendArchived
<1> QED BY <1>2, <1>3, <1>4, <1>5 DEF HandlersSendArchived, Archived

\* A request given up on leaves its own messages behind.
LEMMA GiveUpLeaves ==
  ASSUME GiveUp, NEW r \in late'
  PROVE  r \in late \/ (r[1] = call.by /\ r[3] \in call.rest)
BY DEF GiveUp

LEMMA HandlersSendArchivedStep ==
  ASSUME TypeOK, CallersWait, HandlersSendArchived, [Next]_vars
  PROVE  HandlersSendArchived'
<1> USE TasksAssumption, NoneAssumption
<1>1. CASE UNCHANGED <<page, call, late, drained>>
  BY <1>1, SentArchivedStays
<1>2. CASE Deliver
  <2>1. PICK k \in Msgs :
          /\ k \in call.rest
          /\ call.by # None
          /\ \/ call' = [call EXCEPT !.rest = @ \ {k}, !.ok = @ \cup {k}]
             \/ call' = [call EXCEPT !.rest = @ \ {k}, !.refused = @ \cup {k}]
          /\ Accept(call.by, k) \/ UNCHANGED drained
          /\ UNCHANGED <<page, late>>
    BY <1>2 DEF Deliver, IsLeast, drainVars
  <2>2. call'.by = call.by /\ call'.rest \subseteq call.rest
    BY <2>1, RequestFacts DEF Requests
  <2>3. \A m \in drained' : m \in drained \/ (call.by \in Partitions /\ m \in call.rest)
    BY <2>1 DEF Accept
  <2> QED BY <2>1, <2>2, <2>3, SentArchivedStays
<1>3. CASE DeliverLate
  <2>1. PICK r \in late :
          /\ late' = late \ {r}
          /\ Accept(r[1], r[3]) \/ UNCHANGED drained
          /\ UNCHANGED <<page, call>>
    BY <1>3 DEF DeliverLate, drainVars
  <2>2. \A m \in drained' : m \in drained \/ (r[1] \in Partitions /\ r[3] = m)
    BY <2>1 DEF Accept
  <2> QED BY <2>1, <2>2, SentArchivedStays
<1>4. ASSUME NEW t \in Tasks, PushToUser(t) PROVE HandlersSendArchived'
  <2>1. UNCHANGED <<page, drained>>
    BY <1>4, PushToUserFrame DEF drainVars
  <2>2. \A r \in late' : r \in late \/ (r[1] = call.by /\ r[3] \in call.rest)
    BY <1>4, GiveUpLeaves
       DEF PushToUser, TooMany, Save, SaveFails, Lookup, Grouped, SendGroup, SendSucceeds,
           SendFails, CallFails, SendPanics, Archive, ArchiveFails, UpdateRow, UpdateRowFails,
           Return, rpcVars
  <2>3. call' = call \/ call'.by \in {None, t}
    <3>1. CASE \E n \in Nodes : SendGroup(t, n)
      BY <3>1 DEF SendGroup, Request
    <3>2. CASE SendSucceeds(t) \/ SendFails(t) \/ SendPanics(t)
      BY <3>2 DEF SendSucceeds, SendFails, SendPanics, NoRequest
    <3>3. CASE UNCHANGED rpcVars
      BY <3>3 DEF rpcVars
    <3> QED BY <1>4, <3>1, <3>2, <3>3 DEF PushToUser, TooMany, Save, SaveFails, Lookup, Grouped,
           Archive, ArchiveFails, UpdateRow, UpdateRowFails, Return
  <2> QED BY <2>1, <2>2, <2>3, SentArchivedStays
<1>5. ASSUME NEW p \in Partitions, Handler(p), ~ PagePanics(p) PROVE HandlersSendArchived'
  <2>1. page \in [Partitions -> SUBSET Msgs]
    BY DEF TypeOK, DrainType
  <2>2. UNCHANGED drained
    BY <1>5 DEF Handler, UserOnline, Retrieve, RetrieveFails, SendPage, PageAccepted, PageFails,
       Acknowledge, AcknowledgeFails, MarkMessage, rpcVars
  <2>3. \A q \in Partitions : \A m \in page'[q] : m \in page[q] \/ (m \in Msgs /\ Archived(m))
    <3>1. CASE Retrieve(p) BY <2>1, <3>1 DEF Retrieve, Pending, Archived
    <3>2. CASE MarkMessage(p) BY <2>1, <3>2 DEF MarkMessage
    <3>3. CASE UNCHANGED page BY <3>3
    <3> QED BY <1>5, <3>1, <3>2, <3>3 DEF Handler, UserOnline, RetrieveFails, SendPage,
           PageAccepted, PageFails, Acknowledge, AcknowledgeFails, drainVars
  <2>4. \A q \in Partitions : call'.by = q =>
          \A m \in call'.rest : m \in page[q] \/ (call.by = q /\ m \in call.rest)
    <3>1. CASE SendPage(p) BY <3>1 DEF SendPage, Request
    <3>2. CASE UNCHANGED call \/ call' = NoRequest BY <3>2 DEF NoRequest
    <3> QED BY <1>5, <3>1, <3>2 DEF Handler, UserOnline, Retrieve, RetrieveFails, PageAccepted,
           PageFails, Acknowledge, AcknowledgeFails, MarkMessage, rpcVars
  <2>5. \A r \in late' : r \in late \/ (r[1] = call.by /\ r[3] \in call.rest)
    BY <1>5, GiveUpLeaves
       DEF Handler, UserOnline, Retrieve, RetrieveFails, SendPage, PageAccepted, PageFails,
           CallFails, Acknowledge, AcknowledgeFails, MarkMessage, rpcVars
  <2> QED BY <2>2, <2>3, <2>4, <2>5, SentArchivedStays
<1>6. CASE Restart /\ GiveUp
  <2>1. page' = [q \in Partitions |-> {}] /\ call' = NoRequest /\ UNCHANGED drained
    BY <1>6 DEF Restart
  <2> QED BY <1>6, <2>1, GiveUpLeaves, SentArchivedStays DEF NoRequest
<1> QED BY <1>1, <1>2, <1>3, <1>4, <1>5, <1>6, OneActor DEF drainVars

LEMMA MailInvStep ==
  ASSUME MailInv, [Next]_vars
  PROVE  MailInv'
<1>1. TypeOK' /\ CallersWait'
  BY NextTypeOK, NextCallersWait DEF MailInv
<1>2. RecordedInv'
  BY RecordedIsAcceptedStep, OutcomesAreTrueStep, AcksAreTrueStep, AnswersAreTrueStep
     DEF MailInv, RecordedInv
<1>3. RoutesInv' /\ SentRowsAreSettled'
  BY RoutesInvStep, SentRowsAreSettledStep DEF MailInv, RoutesInv
<1>4. HandlersSendArchived'
  BY HandlersSendArchivedStep DEF MailInv
<1> QED BY <1>1, <1>2, <1>3, <1>4 DEF MailInv

LEMMA InitMailInv == Init => MailInv
BY InitTypeOK, InitCallersWait, InitRecordedInv, InitRoutesInv, InitSentRowsAreSettled,
   InitHandlersSendArchived DEF MailInv

-----------------------------------------------------------------------------
(* The life of a message                                                   *)

LEMMA OnceIsConstant == Once' = Once
BY DEF Once, Unrepeated, Fits

\* The lives the invariant leaves a message that one call carries, and what
\* each tells of it.
LivesAreRegular ==
  \A m \in Once :
    /\ m \in pushed => Life(m) = "taken" /\ store[m] = "none" /\ m \notin drained
    /\ m \notin pushed /\ store[m] = "none" => Life(m) = "absent" /\ m \notin drained
    /\ store[m] = "pending" /\ m \notin drained => Life(m) = "stored" /\ m \notin pushed
    /\ store[m] = "pending" /\ m \in drained => Life(m) = "fetched" /\ m \notin pushed
    /\ store[m] = "delivered" => Life(m) = "delivered" /\ m \notin pushed /\ m \in drained

LEMMA RegularLives == MailInv => LivesAreRegular
<1> SUFFICES ASSUME MailInv, NEW m \in Once
             PROVE  /\ m \in pushed => store[m] = "none"
                    /\ m \in drained => store[m] # "none"
                    /\ store[m] = "delivered" => m \in drained
  BY DEF LivesAreRegular, Life
<1>1. m \in Msgs /\ Unrepeated(m)
  BY DEF Once
<1>2. m \in pushed => store[m] = "none"
  BY <1>1 DEF MailInv, RoutesInv, RoutesExclude
<1>3. m \in drained => store[m] # "none"
  BY DEF MailInv, HandlersSendArchived, Archived
<1>4. store[m] = "delivered" => m \in drained
  BY <1>1 DEF MailInv, RecordedInv, RecordedIsAccepted
<1> QED BY <1>2, <1>3, <1>4

LEMMA RegularLivesStay == MailInv' => LivesAreRegular'
BY RegularLives, PTL

\* What moves a set of messages from one stage to the next.
LEMMA MovesLife ==
  ASSUME NEW S \in SUBSET Once, NEW from, NEW to,
         \A m \in S : Life(m) = from /\ Life(m)' = to,
         \A m \in Once \ S : Life(m)' = Life(m),
         rows' = rows
  PROVE  Box!Moves(S, from, to)
BY OnceIsConstant DEF Box!Moves

LEMMA StutterLife ==
  ASSUME \A m \in Once : Life(m)' = Life(m),
         \A m \in Once : rows'[m] = {"sent"} <=> rows[m] = {"sent"}
  PROVE  UNCHANGED Box!mailVars
BY OnceIsConstant DEF Box!mailVars

LEMMA SameLife ==
  ASSUME NEW m, (m \in pushed') = (m \in pushed), (m \in drained') = (m \in drained),
         store'[m] = store[m]
  PROVE  Life(m)' = Life(m)
BY DEF Life

-----------------------------------------------------------------------------
(* Every step is one of Mailbox or changes nothing there                   *)

\* A node accepts a message: push's are taken, a handler's come out of the
\* archive, and one it has accepted before stays where it is.
LEMMA AcceptIsBox ==
  ASSUME MailInv, MailInv', NEW x \in Callers, NEW m \in Msgs, Accept(x, m),
         UNCHANGED dataVars
  PROVE  [Box!MailNext]_(Box!mailVars)
<1>0. LivesAreRegular /\ LivesAreRegular'
  BY RegularLives, RegularLivesStay
<1>1. UNCHANGED <<rows, store>>
  BY DEF dataVars
<1>2. \A k \in Once : k # m => Life(k)' = Life(k)
  BY <1>1, SameLife DEF Accept
<1>3. CASE m \notin Once \/ Life(m)' = Life(m)
  BY <1>1, <1>2, <1>3, StutterLife
<1>4. CASE m \in Once /\ x \in Tasks
  <2>1. m \in pushed' /\ m \in Once'
    BY <1>4, OnceIsConstant DEF Accept
  <2>2. Life(m)' = "taken" /\ store[m] = "none"
    BY <1>1, <2>1, <1>0 DEF LivesAreRegular
  <2>3. Life(m) \in {"absent", "taken"}
    BY <1>4, <2>2, <1>0 DEF LivesAreRegular
  <2>4. Life(m) = "absent" => Box!Take(m)
    BY <1>1, <1>2, <1>4, <2>2, MovesLife DEF Box!Take
  <2> QED BY <1>3, <1>4, <2>2, <2>3, <2>4 DEF Box!MailNext
<1>5. CASE m \in Once /\ x \in Partitions
  <2>1. m \in drained' /\ m \in Once'
    BY <1>5, OnceIsConstant DEF Accept
  <2>2. store[m] \in {"pending", "delivered"}
    BY <1>1, <1>5, <2>1, <1>0 DEF LivesAreRegular, MailInv, TypeOK, DataType, Once
  <2>3. Life(m)' = IF store[m] = "pending" THEN "fetched" ELSE "delivered"
    BY <1>1, <2>1, <2>2, <1>0 DEF LivesAreRegular
  <2>4. Life(m) = (IF store[m] = "pending" /\ m \notin drained THEN "stored" ELSE Life(m)')
    BY <1>5, <2>2, <2>3, <1>0 DEF LivesAreRegular
  <2>5. Life(m) = "stored" /\ Life(m)' = "fetched" => Box!Fetch(m)
    BY <1>1, <1>2, <1>5, MovesLife DEF Box!Fetch
  <2> QED BY <1>3, <1>5, <2>2, <2>3, <2>4, <2>5 DEF Box!MailNext
<1> QED BY <1>3, <1>4, <1>5 DEF Callers

\* A call archives the messages without a session, and nobody has them yet.
LEMMA ArchiveIsBox ==
  ASSUME MailInv, MailInv', NEW t \in Tasks, Insertable(Offline(t)), Insert(Offline(t)),
         UNCHANGED <<pushed, drained, rows>>
  PROVE  [Box!MailNext]_(Box!mailVars)
<1>0. LivesAreRegular /\ LivesAreRegular'
  BY RegularLives, RegularLivesStay
<1> DEFINE S == Offline(t) \cap Once
<1>1. ASSUME NEW m \in S PROVE Life(m) = "absent" /\ Life(m)' = "stored"
  <2>1. m \in Msgs /\ m \in Once' /\ store[m] = "none" /\ store'[m] = "pending"
    BY <1>1, OnceIsConstant DEF Insert, Insertable, Once
  <2>2. m \notin pushed'
    BY <2>1, <1>0 DEF LivesAreRegular
  <2> QED BY <1>1, <2>1, <2>2, <1>0 DEF LivesAreRegular
<1>2. ASSUME NEW m \in Once \ S PROVE Life(m)' = Life(m)
  <2>1. m \in Msgs
    BY <1>2 DEF Once
  <2> QED BY <1>2, <2>1, SameLife DEF Insert
<1>3. Box!Store(S)
  BY <1>1, <1>2, MovesLife DEF Box!Store
<1> QED BY <1>3 DEF Box!MailNext

\* A handler confirms what a node accepted from it.
LEMMA AcknowledgeIsBox ==
  ASSUME MailInv, MailInv', NEW p \in Partitions, MarkDelivered(acks[p]),
         UNCHANGED <<pushed, drained, rows>>
  PROVE  [Box!MailNext]_(Box!mailVars)
<1>0. LivesAreRegular /\ LivesAreRegular'
  BY RegularLives, RegularLivesStay
<1> DEFINE S == {m \in Once : m \in acks[p] /\ store[m] = "pending"}
<1>1. ASSUME NEW m \in S PROVE Life(m) = "fetched" /\ Life(m)' = "delivered"
  <2>1. m \in Msgs /\ m \in Once' /\ m \in drained
    BY <1>1, OnceIsConstant DEF Once, MailInv, RecordedInv, AcksAreTrue
  <2>2. store'[m] = "delivered"
    BY <1>1, <2>1 DEF MarkDelivered
  <2> QED BY <1>1, <2>1, <2>2, <1>0 DEF LivesAreRegular
<1>2. ASSUME NEW m \in Once \ S PROVE Life(m)' = Life(m)
  <2>1. m \in Msgs /\ store[m] \in {"none", "pending", "delivered"}
    BY <1>2 DEF Once, MailInv, TypeOK, DataType
  <2> QED BY <1>2, <2>1, SameLife DEF MarkDelivered
<1>3. Box!Confirm(S)
  BY <1>1, <1>2, MovesLife DEF Box!Confirm
<1> QED BY <1>3 DEF Box!MailNext

\* A call that starts records nothing; a statement that says "sent" is about a
\* message a node accepted, and no other one takes that back.
LEMMA RowsAreBox ==
  ASSUME MailInv, [Next]_vars, UNCHANGED <<pushed, drained, store>>
  PROVE  [Box!MailNext]_(Box!mailVars)
<1>0. LivesAreRegular
  BY RegularLives
<1>1. \A m \in Once : Life(m)' = Life(m)
  BY SameLife
<1>2. CallsAreRegular
  BY DEF MailInv, RoutesInv
<1>3. CASE \A m \in Once : rows'[m] = {"sent"} <=> rows[m] = {"sent"}
  BY <1>1, <1>3, StutterLife
<1>4. ASSUME NEW m \in Once, ~ (rows'[m] = {"sent"} <=> rows[m] = {"sent"})
      PROVE  Box!Record(m)
  <2>1. m \in Msgs /\ Unrepeated(m) /\ rows[m] \subseteq {"pending", "sent"}
    BY DEF Once, MailInv, TypeOK, DataType
  <2>2. PICK t \in Tasks :
          /\ m \in TaskMsgs[t] /\ Fits(t)
          /\ (tpc[t] = "idle" /\ rows'[m] = rows[m] \cup {"pending"}) \/ UpdateRow(t, m)
    BY <1>2, <1>4, <2>1, RowsStep DEF MailInv
  <2>3. "sent" \notin rows[m]
    <3>1. "sent" \in rows[m] => Settled(t, m)
      BY <2>1, <2>2 DEF MailInv, SentRowsAreSettled
    <3>2. tpc[t] = "idle" => ~ Settled(t, m)
      BY DEF Settled
    <3>3. UpdateRow(t, m) => ~ Settled(t, m)
      BY DEF Settled, UpdateRow
    <3> QED BY <2>2, <3>1, <3>2, <3>3
  <2>4. rows'[m] = {"sent"} /\ UpdateRow(t, m)
    BY <1>4, <2>2, <2>3
  <2>5. rows' = [rows EXCEPT ![m] = {Status(mask[t][m])}]
    BY <2>4 DEF UpdateRow
  <2>6. Status(mask[t][m]) = "sent"
    BY <2>1, <2>4, <2>5 DEF MailInv, TypeOK, DataType
  <2>7. m \in pushed
    BY <2>1, <2>6 DEF Status, MailInv, RecordedInv, OutcomesAreTrue
  <2>8. Life(m) = "taken"
    BY <2>7, <1>0 DEF LivesAreRegular
  <2>9. \A k \in Once : rows'[k] = {"sent"} <=> k = m \/ rows[k] = {"sent"}
    BY <2>4, <2>5 DEF Once, MailInv, TypeOK, DataType
  <2> QED BY <1>1, <2>8, <2>9, OnceIsConstant DEF Box!Record
<1> QED BY <1>3, <1>4 DEF Box!MailNext

LEMMA NextIsBox ==
  ASSUME MailInv, [Next]_vars
  PROVE  [Box!MailNext]_(Box!mailVars)
<1> USE NoneAssumption
<1>1. MailInv'
  BY MailInvStep
<1>2. CASE UNCHANGED <<pushed, drained, store>>
  BY <1>2, RowsAreBox
<1>3. CASE Deliver
  <2>1. PICK m \in Msgs : /\ call.by # None
                          /\ Accept(call.by, m) \/ UNCHANGED <<pushed, drained>>
                          /\ UNCHANGED dataVars
    BY <1>3 DEF Deliver
  <2>2. call.by \in Callers
    BY <2>1, RequestFacts DEF MailInv, Requests
  <2> QED BY <1>1, <1>2, <2>1, <2>2, AcceptIsBox DEF dataVars
<1>4. CASE DeliverLate
  <2>1. PICK r \in late : /\ Accept(r[1], r[3]) \/ UNCHANGED <<pushed, drained>>
                          /\ UNCHANGED dataVars
    BY <1>4 DEF DeliverLate
  <2>2. r[1] \in Callers /\ r[3] \in Msgs
    BY <2>1 DEF MailInv, TypeOK, RpcType
  <2> QED BY <1>1, <1>2, <2>1, <2>2, AcceptIsBox DEF dataVars
<1>5. ASSUME NEW t \in Tasks, PushToUser(t) PROVE [Box!MailNext]_(Box!mailVars)
  <2>1. UNCHANGED <<pushed, drained>>
    BY <1>5, PushToUserFrame
  <2>2. CASE Archive(t) \/ ArchiveFails(t)
    <3>1. rows' = rows /\ (UNCHANGED store \/ (Insertable(Offline(t)) /\ Insert(Offline(t))))
      BY <2>2 DEF Archive, ArchiveFails
    <3> QED BY <1>1, <1>2, <2>1, <3>1, ArchiveIsBox
  <2>3. CASE UNCHANGED store
    BY <1>2, <2>1, <2>3
  <2> QED
    BY <1>5, <2>2, <2>3 DEF PushToUser, TooMany, Save, SaveFails, Lookup, Grouped, SendGroup,
       SendSucceeds, SendFails, SendPanics, UpdateRow, UpdateRowFails, Return, dataVars
<1>6. ASSUME NEW p \in Partitions, Handler(p), ~ PagePanics(p)
      PROVE  [Box!MailNext]_(Box!mailVars)
  <2>1. UNCHANGED <<pushed, drained>>
    BY <1>6 DEF Handler, UserOnline, Retrieve, RetrieveFails, SendPage, PageAccepted, PageFails,
       Acknowledge, AcknowledgeFails, MarkMessage, rpcVars
  <2>2. CASE Acknowledge(p) \/ AcknowledgeFails(p)
    <3>1. rows' = rows /\ (UNCHANGED store \/ MarkDelivered(acks[p]))
      BY <2>2 DEF Acknowledge, AcknowledgeFails
    <3> QED BY <1>1, <1>2, <2>1, <3>1, AcknowledgeIsBox
  <2>3. CASE UNCHANGED store
    BY <1>2, <2>1, <2>3
  <2> QED
    BY <1>6, <2>2, <2>3 DEF Handler, UserOnline, Retrieve, RetrieveFails, SendPage, PageAccepted,
       PageFails, MarkMessage, dataVars
<1>7. CASE Restart
  BY <1>2, <1>7 DEF Restart, dataVars
<1> QED BY <1>2, <1>3, <1>4, <1>5, <1>6, <1>7, OneActor DEF dataVars

LEMMA InitIsBox == Init => Box!MailInit
<1> SUFFICES ASSUME Init PROVE Box!MailInit
  OBVIOUS
<1>1. \A m \in Once : Life(m) = "absent" /\ rows[m] # {"sent"}
  BY DEF Init, Life, Once
<1> QED BY <1>1 DEF Box!MailInit

\* Push and the offline store treat every message that one call carries as
\* Mailbox says: it is taken from push or stored, fetched and confirmed, never
\* both, and recorded as sent only when taken (PushToUser, UserOnline, the
\* offline repository).
THEOREM MailboxPromise == Spec => LooksLikeMailbox
<1>1. MailInv /\ [Next]_vars => MailInv'
  BY MailInvStep
<1>2. MailInv /\ [Next]_vars => [Box!MailNext]_(Box!mailVars)
  BY NextIsBox
<1> QED BY <1>1, <1>2, InitMailInv, InitIsBox, PTL DEF Spec, LooksLikeMailbox, Box!MailSpec
=============================================================================

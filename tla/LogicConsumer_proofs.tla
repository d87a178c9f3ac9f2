------------------------ MODULE LogicConsumer_proofs ------------------------
(***************************************************************************)
(* Proofs about LogicConsumer: the types of its variables, that a report   *)
(* is handed over once for each pass of the filter, and that one that is   *)
(* consumed and was not handed over has a reason.                          *)
(***************************************************************************)
EXTENDS LogicConsumer, FiniteSetTheorems, TLAPS

-----------------------------------------------------------------------------
(* Types                                                                   *)

\* A running handler has an event, which carries a message.
LEMMA EventTyped ==
  ASSUME TypeOK, NEW p \in Partitions, hpc[p] # "idle"
  PROVE  /\ marked[p] \in Nat /\ marked[p] < Len(log[p])
         /\ marked[p] + 1 \in DOMAIN log[p]
         /\ Event(p) \in Msgs
<1>1. log[p] \in Seq(Msgs) /\ marked[p] \in Nat /\ marked[p] < Len(log[p])
  BY DEF TypeOK, OffsetsType
<1>2. marked[p] + 1 \in 1 .. Len(log[p])
  BY <1>1
<1> QED BY <1>1, <1>2 DEF Event

\* A handler takes one step along its program.
LEMMA GotoTyped ==
  ASSUME TypeOK, NEW p \in Partitions,
         NEW l \in {"idle", "filter", "expire", "process", "handled"}, Goto(p, l)
  PROVE  /\ hpc' \in [Partitions -> {"idle", "filter", "expire", "process", "handled"}]
         /\ hpc'[p] = l
         /\ \A q \in Partitions : q # p => hpc'[q] = hpc[q]
BY DEF TypeOK, Goto

\* The steps of a handler that only change its place and the stores.
HandlerMoves(p) ==
  \/ FilterNew(p) \/ FilterDuplicate(p) \/ FilterRepeated(p) \/ FilterFails(p)
  \/ SetExpire(p) \/ Report(p) \/ ReportFails(p) \/ ProcessOther(p)

LEMMA HandlerMovesShape ==
  ASSUME TypeOK, NEW p \in Partitions, HandlerMoves(p)
  PROVE  /\ hpc[p] \in {"filter", "expire", "process"}
         /\ \E l \in {"expire", "process", "handled"} : Goto(p, l)
         /\ UNCHANGED <<kafkaVars, crashes>>
BY DEF HandlerMoves, FilterNew, FilterDuplicate, FilterRepeated, FilterFails,
       SetExpire, Report, ReportFails, ProcessOther, historyVars

LEMMA HandlerMovesTyped ==
  ASSUME TypeOK, NEW p \in Partitions, HandlerMoves(p)
  PROVE  TypeOK'
<1>1. /\ hpc[p] \in {"filter", "expire", "process"}
      /\ UNCHANGED <<log, published, marked, committed, crashes>>
  BY HandlerMovesShape DEF kafkaVars
<1>2. PICK l \in {"expire", "process", "handled"} : Goto(p, l)
  BY HandlerMovesShape
<1>3. /\ hpc' \in [Partitions -> {"idle", "filter", "expire", "process", "handled"}]
      /\ hpc'[p] # "idle"
      /\ \A q \in Partitions : q # p => hpc'[q] = hpc[q]
  BY <1>2, GotoTyped
<1>4. OffsetsType'
  BY <1>1, <1>3 DEF TypeOK, OffsetsType
<1>5. Event(p) \in Msgs
  BY <1>1, EventTyped
<1>6. marks' \in [Msgs -> {"none", "endless", "timed"}]
  <2>1. \/ marks' = marks
        \/ \E v \in {"none", "endless", "timed"} : marks' = [marks EXCEPT ![Event(p)] = v]
    BY DEF HandlerMoves, FilterNew, FilterDuplicate, FilterRepeated, FilterFails,
           SetExpire, Report, ReportFails, ProcessOther
  <2> QED BY <1>5, <2>1 DEF TypeOK
<1>7. handed' \in [Msgs -> Nat]
  <2>1. handed' = handed \/ handed' = [handed EXCEPT ![Event(p)] = @ + 1]
    BY DEF HandlerMoves, FilterNew, FilterDuplicate, FilterRepeated, FilterFails,
           SetExpire, Report, ReportFails, ProcessOther
  <2>2. handed \in [Msgs -> Nat]
    BY DEF TypeOK
  <2> QED BY <1>5, <2>1, <2>2
<1>8. lapses' \in [Msgs -> Nat]
  <2>1. lapses' = lapses \/ lapses' = [lapses EXCEPT ![Event(p)] = @ + 1]
    BY DEF HandlerMoves, FilterNew, FilterDuplicate, FilterRepeated, FilterFails,
           SetExpire, Report, ReportFails, ProcessOther, historyVars
  <2>2. lapses \in [Msgs -> Nat]
    BY DEF TypeOK
  <2> QED BY <1>5, <2>1, <2>2
<1>9. excused' \in SUBSET Msgs
  <2>1. excused' = excused \/ excused' = excused \cup {Event(p)}
    BY DEF HandlerMoves, FilterNew, FilterDuplicate, FilterRepeated, FilterFails,
           SetExpire, Report, ReportFails, ProcessOther, historyVars
  <2> QED BY <1>5, <2>1 DEF TypeOK
<1> QED BY <1>1, <1>3, <1>4, <1>6, <1>7, <1>8, <1>9 DEF TypeOK

LEMMA TypeStep ==
  ASSUME TypeOK, [Next]_vars
  PROVE  TypeOK'
<1>1. CASE UNCHANGED vars
  BY <1>1 DEF vars, kafkaVars, historyVars, TypeOK, OffsetsType
<1>2. ASSUME NEW p \in Partitions, NEW m \in Msgs, Publish(p, m)
      PROVE  TypeOK'
  <2>1. /\ log' = [log EXCEPT ![p] = Append(@, m)]
        /\ published < MaxEvents /\ published' = published + 1
        /\ UNCHANGED <<marked, committed, hpc, marks, handed, crashes, lapses, excused>>
    BY <1>2 DEF Publish, historyVars
  <2>2. /\ log' \in [Partitions -> Seq(Msgs)]
        /\ \A q \in Partitions : Len(log'[q]) >= Len(log[q])
    BY <2>1 DEF TypeOK
  <2>3. OffsetsType'
    BY <2>1, <2>2 DEF TypeOK, OffsetsType
  <2>4. published' \in 0 .. MaxEvents
    BY <2>1, BoundsAssumption DEF TypeOK
  <2> QED BY <2>1, <2>2, <2>3, <2>4 DEF TypeOK
<1>3. ASSUME NEW p \in Partitions, Handle(p)
      PROVE  TypeOK'
  <2>1. PICK l \in {"process", "filter"} : Goto(p, l)
    BY <1>3 DEF Handle
  <2>2. /\ hpc' \in [Partitions -> {"idle", "filter", "expire", "process", "handled"}]
        /\ \A q \in Partitions : q # p => hpc'[q] = hpc[q]
    BY <2>1, GotoTyped
  <2>3. OffsetsType'
    BY <1>3, <2>2 DEF TypeOK, OffsetsType, Handle, kafkaVars
  <2> QED BY <1>3, <2>2, <2>3 DEF TypeOK, Handle, kafkaVars, historyVars
<1>4. ASSUME NEW p \in Partitions, MarkMessage(p)
      PROVE  TypeOK'
  <2>1. /\ hpc' \in [Partitions -> {"idle", "filter", "expire", "process", "handled"}]
        /\ hpc'[p] = "idle"
        /\ \A q \in Partitions : q # p => hpc'[q] = hpc[q]
    BY <1>4, GotoTyped DEF MarkMessage
  <2>2. marked[p] \in Nat /\ marked[p] < Len(log[p])
    BY <1>4, EventTyped DEF MarkMessage
  <2>3. /\ marked' \in [Partitions -> Nat] /\ marked'[p] = marked[p] + 1
        /\ \A q \in Partitions : q # p => marked'[q] = marked[q]
    BY <1>4, <2>2 DEF TypeOK, MarkMessage
  <2>4. log' = log /\ committed' = committed /\ log[p] \in Seq(Msgs)
    BY <1>4 DEF MarkMessage, TypeOK
  <2>5. OffsetsType'
    <3>1. committed[p] <= marked[p] + 1 /\ marked[p] + 1 <= Len(log[p])
      BY <2>2, <2>4 DEF TypeOK, OffsetsType
    <3> QED BY <2>1, <2>3, <2>4, <3>1 DEF TypeOK, OffsetsType
  <2> QED BY <1>4, <2>1, <2>3, <2>4, <2>5 DEF TypeOK, MarkMessage, historyVars
<1>5. ASSUME NEW p \in Partitions, CommitOffset(p)
      PROVE  TypeOK'
  BY <1>5 DEF TypeOK, OffsetsType, CommitOffset, historyVars
<1>6. ASSUME NEW m \in Msgs, MarkExpire(m)
      PROVE  TypeOK'
  BY <1>6 DEF TypeOK, OffsetsType, MarkExpire, kafkaVars
<1>7. ASSUME NEW S \in SUBSET Partitions, Crash(S)
      PROVE  TypeOK'
  <2>1. \A p \in Partitions : Begun(p) => Event(p) \in Msgs
    BY EventTyped DEF Begun
  <2>2. excused' \in SUBSET Msgs
    BY <1>7, <2>1 DEF Crash, TypeOK
  <2>3. crashes' \in 0 .. MaxCrashes
    BY <1>7, BoundsAssumption DEF Crash, TypeOK
  <2>4. /\ hpc' \in [Partitions -> {"idle", "filter", "expire", "process", "handled"}]
        /\ marked' \in [Partitions -> Nat]
    BY <1>7 DEF Crash, TypeOK
  <2>5. OffsetsType'
    BY <1>7 DEF Crash, TypeOK, OffsetsType
  <2> QED BY <1>7, <2>2, <2>3, <2>4, <2>5 DEF Crash, TypeOK
<1> QED
  BY <1>1, <1>2, <1>3, <1>4, <1>5, <1>6, <1>7, HandlerMovesTyped DEF Next, Handler, HandlerMoves

\* Every variable of the consumer keeps its type, and offsets are in order: what
\* is committed was marked, and a handler that runs has an event to handle
\* (ConsumeClaim, Handle).
THEOREM TypeCorrect == Spec => []TypeOK
<1>1. Init => TypeOK
  BY BoundsAssumption DEF Init, TypeOK, OffsetsType
<1>2. TypeOK /\ [Next]_vars => TypeOK'
  BY TypeStep
<1> QED BY <1>1, <1>2, PTL DEF Spec

-----------------------------------------------------------------------------
(* One handing over for each pass of the filter                            *)

\* The handlers that have message m behind the filter and have not processed it.
Passing(m) == {p \in Partitions : hpc[p] \in {"expire", "process"} /\ Event(p) = m}

\* Message m has a mark, which lets nobody else pass.
MarkCount(m) == IF marks[m] = "none" THEN 0 ELSE 1

\* What was handed over and what is about to be is covered by the passes there
\* were: one that set the mark, and the lapses.
PassesAreCounted ==
  \A m \in Msgs \ Anonymous :
    handed[m] + Cardinality(Passing(m)) <= lapses[m] + MarkCount(m)

LEMMA PassingFinite ==
  ASSUME NEW m
  PROVE  IsFiniteSet(Passing(m)) /\ Cardinality(Passing(m)) \in Nat
BY PartitionsAssumption, FS_Subset, FS_CardinalityType DEF Passing

\* Fewer handlers count for less.
LEMMA PassingShrinks ==
  ASSUME NEW m, Passing(m)' \subseteq Passing(m)
  PROVE  Cardinality(Passing(m)') \in Nat /\ Cardinality(Passing(m)') <= Cardinality(Passing(m))
BY PassingFinite, FS_Subset, FS_CardinalityType

\* The handler of p goes on: it passes with its own message only.
LEMMA PassingOf ==
  ASSUME TypeOK, NEW p \in Partitions, NEW m,
         NEW l \in {"idle", "filter", "expire", "process", "handled"}, Goto(p, l),
         log' = log, marked' = marked
  PROVE  Passing(m)' = IF l \in {"expire", "process"} /\ Event(p) = m
                       THEN Passing(m) \cup {p} ELSE Passing(m) \ {p}
<1>1. hpc'[p] = l /\ \A q \in Partitions : q # p => hpc'[q] = hpc[q]
  BY GotoTyped
<1>2. \A q \in Partitions : Event(q)' = Event(q)
  BY DEF Event
<1> QED BY <1>1, <1>2 DEF Passing

LEMMA PassesAreCountedStep ==
  ASSUME TypeOK, PassesAreCounted, [Next]_vars
  PROVE  PassesAreCounted'
<1> SUFFICES ASSUME NEW m \in Msgs \ Anonymous
             PROVE  handed'[m] + Cardinality(Passing(m)') <= lapses'[m] + MarkCount(m)'
  BY DEF PassesAreCounted
<1>1. /\ IsFiniteSet(Passing(m)) /\ Cardinality(Passing(m)) \in Nat
      /\ handed[m] \in Nat /\ lapses[m] \in Nat
      /\ handed[m] + Cardinality(Passing(m)) <= lapses[m] + MarkCount(m)
  BY PassingFinite DEF PassesAreCounted, TypeOK
<1>2. /\ marks \in [Msgs -> {"none", "endless", "timed"}]
      /\ handed \in [Msgs -> Nat] /\ lapses \in [Msgs -> Nat]
  BY DEF TypeOK
<1>3. ASSUME Passing(m)' \subseteq Passing(m), handed' = handed, lapses'[m] = lapses[m],
             marks[m] # "none" => marks'[m] # "none"
      PROVE  handed'[m] + Cardinality(Passing(m)') <= lapses'[m] + MarkCount(m)'
  BY <1>1, <1>3, PassingShrinks DEF MarkCount
<1>4. CASE UNCHANGED vars
  BY <1>3, <1>4 DEF vars, kafkaVars, historyVars, Passing, Event
<1>5. ASSUME NEW p \in Partitions, NEW n \in Msgs, Publish(p, n)
      PROVE  Passing(m)' \subseteq Passing(m)
  <2>1. \A q \in Partitions : hpc[q] # "idle" => Event(q)' = Event(q)
    <3> SUFFICES ASSUME NEW q \in Partitions, hpc[q] # "idle" PROVE Event(q)' = Event(q)
      OBVIOUS
    <3>0. log[q] \in Seq(Msgs)
      BY DEF TypeOK
    <3>1. marked[q] + 1 \in 1 .. Len(log[q])
      BY <3>0, EventTyped
    <3>2. log'[q] = log[q] \/ log'[q] = Append(log[q], n)
      BY <1>5 DEF Publish, TypeOK
    <3>3. log'[q][marked[q] + 1] = log[q][marked[q] + 1]
      BY <3>0, <3>1, <3>2
    <3> QED BY <1>5, <3>3 DEF Publish, Event
  <2> QED BY <1>5, <2>1 DEF Publish, Passing
<1>6. ASSUME NEW p \in Partitions, Handle(p)
      PROVE  Passing(m)' \subseteq Passing(m)
  <2>1. log' = log /\ marked' = marked
    BY <1>6 DEF Handle, kafkaVars
  <2>2. CASE Event(p) \in Anonymous
    <3>1. Goto(p, "process")
      BY <1>6, <2>2 DEF Handle
    <3> QED BY <2>1, <2>2, <3>1, PassingOf
  <2>3. CASE Event(p) \notin Anonymous
    <3>1. Goto(p, "filter")
      BY <1>6, <2>3 DEF Handle
    <3> QED BY <2>1, <3>1, PassingOf
  <2> QED BY <2>2, <2>3
<1>7. ASSUME NEW p \in Partitions, MarkMessage(p)
      PROVE  Passing(m)' \subseteq Passing(m)
  <2>1. hpc'[p] = "idle" /\ \A q \in Partitions : q # p => hpc'[q] = hpc[q]
    BY <1>7, GotoTyped DEF MarkMessage
  <2>2. log' = log /\ \A q \in Partitions : q # p => marked'[q] = marked[q]
    BY <1>7 DEF MarkMessage, TypeOK
  <2> QED BY <2>1, <2>2 DEF Passing, Event
<1>8. ASSUME NEW S \in SUBSET Partitions, Crash(S)
      PROVE  Passing(m)' \subseteq Passing(m)
  BY <1>8 DEF Crash, Passing, Event
<1>9. ASSUME NEW p \in Partitions, HandlerMoves(p)
      PROVE  handed'[m] + Cardinality(Passing(m)') <= lapses'[m] + MarkCount(m)'
  <2>1. log' = log /\ marked' = marked /\ Event(p) \in Msgs
    BY <1>9, HandlerMovesShape, EventTyped DEF kafkaVars
  <2>2. ASSUME NEW l \in {"expire", "process", "handled"}, Goto(p, l)
        PROVE  /\ Passing(m)' = IF l \in {"expire", "process"} /\ Event(p) = m
                                THEN Passing(m) \cup {p} ELSE Passing(m) \ {p}
               /\ Cardinality(Passing(m) \ {p}) \in Nat
               /\ Cardinality(Passing(m) \cup {p}) \in Nat
               /\ Cardinality(Passing(m) \ {p}) <= Cardinality(Passing(m))
               /\ p \in Passing(m) => Cardinality(Passing(m) \ {p}) = Cardinality(Passing(m)) - 1
               /\ Cardinality(Passing(m) \cup {p}) <= Cardinality(Passing(m)) + 1
    <3>1. Passing(m)' = IF l \in {"expire", "process"} /\ Event(p) = m
                        THEN Passing(m) \cup {p} ELSE Passing(m) \ {p}
      BY <2>1, <2>2, PassingOf
    <3>2. Cardinality(Passing(m) \ {p}) = IF p \in Passing(m) THEN Cardinality(Passing(m)) - 1
                                          ELSE Cardinality(Passing(m))
      BY <1>1, FS_RemoveElement
    <3>3. Cardinality(Passing(m) \cup {p}) = IF p \in Passing(m) THEN Cardinality(Passing(m))
                                             ELSE Cardinality(Passing(m)) + 1
      BY <1>1, FS_AddElement
    <3>4. Cardinality(Passing(m) \ {p}) \in Nat
      BY <1>1, FS_RemoveElement, FS_CardinalityType
    <3> QED BY <1>1, <3>1, <3>2, <3>3, <3>4
  <2>3. CASE FilterNew(p)
    <3>1. /\ Goto(p, "expire") /\ handed' = handed /\ lapses' = lapses
          /\ marks[Event(p)] = "none" /\ marks' = [marks EXCEPT ![Event(p)] = "endless"]
      BY <2>3 DEF FilterNew, historyVars
    <3>2. CASE Event(p) = m
      <4>1. MarkCount(m) = 0 /\ MarkCount(m)' = 1
        BY <1>2, <3>1, <3>2 DEF MarkCount
      <4>2. Passing(m)' = Passing(m) \cup {p}
        BY <2>2, <3>1, <3>2
      <4>3. /\ Cardinality(Passing(m)') \in Nat
            /\ Cardinality(Passing(m)') <= Cardinality(Passing(m)) + 1
        BY <2>2, <3>1, <4>2
      <4> QED BY <1>1, <3>1, <4>1, <4>3
    <3>3. CASE Event(p) # m
      <4>1. marks'[m] = marks[m]
        BY <1>2, <3>1, <3>3
      <4>2. Passing(m)' \subseteq Passing(m)
        BY <2>2, <3>1, <3>3
      <4> QED BY <1>3, <3>1, <4>1, <4>2
    <3> QED BY <3>2, <3>3
  <2>4. CASE FilterFails(p)
    <3>1. /\ Goto(p, "process") /\ handed' = handed
          /\ lapses' = [lapses EXCEPT ![Event(p)] = @ + 1]
          /\ \/ marks' = marks
             \/ marks[Event(p)] = "none" /\ marks' = [marks EXCEPT ![Event(p)] = "endless"]
      BY <2>4 DEF FilterFails
    <3>2. marks[m] # "none" => marks'[m] # "none"
      BY <1>2, <2>1, <3>1
    <3>3. CASE Event(p) = m
      <4>1. lapses'[m] = lapses[m] + 1
        BY <1>2, <3>1, <3>3
      <4>2. MarkCount(m) \in Nat /\ MarkCount(m)' \in Nat /\ MarkCount(m) <= MarkCount(m)'
        BY <3>2 DEF MarkCount
      <4>3. Passing(m)' = Passing(m) \cup {p}
        BY <2>2, <3>1, <3>3
      <4> QED BY <1>1, <2>2, <3>1, <4>1, <4>2, <4>3
    <3>4. CASE Event(p) # m
      <4>1. lapses'[m] = lapses[m]
        BY <1>2, <3>1, <3>4
      <4>2. Passing(m)' \subseteq Passing(m)
        BY <2>2, <3>1, <3>4
      <4> QED BY <1>3, <3>1, <3>2, <4>1, <4>2
    <3> QED BY <3>3, <3>4
  <2>5. CASE Report(p)
    <3>1. /\ Goto(p, "handled") /\ lapses' = lapses /\ marks' = marks
          /\ handed' = [handed EXCEPT ![Event(p)] = @ + 1] /\ hpc[p] = "process"
      BY <2>5 DEF Report, historyVars
    <3>2. Passing(m)' = Passing(m) \ {p} /\ MarkCount(m)' = MarkCount(m)
      BY <2>2, <3>1 DEF MarkCount
    <3>3. CASE Event(p) = m
      <4>1. p \in Passing(m) /\ handed'[m] = handed[m] + 1
        BY <1>2, <3>1, <3>3 DEF Passing
      <4>2. Cardinality(Passing(m)') = Cardinality(Passing(m)) - 1
        BY <2>2, <3>1, <3>2, <4>1
      <4>3. MarkCount(m) \in Nat
        BY DEF MarkCount
      <4> QED BY <1>1, <3>1, <3>2, <4>1, <4>2, <4>3
    <3>4. CASE Event(p) # m
      <4>1. handed'[m] = handed[m] /\ MarkCount(m) \in Nat
        BY <1>2, <3>1, <3>4 DEF MarkCount
      <4>2. Cardinality(Passing(m)') \in Nat /\ Cardinality(Passing(m)') <= Cardinality(Passing(m))
        BY <3>2, PassingShrinks
      <4> QED BY <1>1, <3>1, <3>2, <4>1, <4>2
    <3> QED BY <3>3, <3>4
  <2>6. CASE SetExpire(p)
    <3>1. /\ Goto(p, "process") /\ handed' = handed /\ lapses' = lapses
          /\ hpc[p] = "expire"
      BY <2>6 DEF SetExpire, historyVars
    <3>2. marks[m] # "none" => marks'[m] # "none"
      BY <1>2, <2>1, <2>6 DEF SetExpire
    <3>3. Passing(m)' \subseteq Passing(m)
      BY <2>2, <3>1 DEF Passing
    <3> QED BY <1>3, <3>1, <3>2, <3>3
  <2>7. CASE FilterDuplicate(p) \/ FilterRepeated(p) \/ ReportFails(p) \/ ProcessOther(p)
    <3>1. /\ Goto(p, "handled") /\ handed' = handed /\ lapses' = lapses
          /\ marks' = marks \/ marks' = [marks EXCEPT ![Event(p)] = "endless"]
      BY <2>7 DEF FilterDuplicate, FilterRepeated, ReportFails, ProcessOther, historyVars
    <3>2. marks[m] # "none" => marks'[m] # "none"
      BY <1>2, <2>1, <3>1
    <3>3. Passing(m)' \subseteq Passing(m)
      BY <2>2, <3>1
    <3> QED BY <1>3, <3>1, <3>2, <3>3
  <2> QED BY <1>9, <2>3, <2>4, <2>5, <2>6, <2>7 DEF HandlerMoves
<1>10. ASSUME NEW n \in Msgs, MarkExpire(n)
       PROVE  handed'[m] + Cardinality(Passing(m)') <= lapses'[m] + MarkCount(m)'
  <2>1. Passing(m)' = Passing(m) /\ handed' = handed
    BY <1>10 DEF MarkExpire, kafkaVars, Passing, Event
  <2>2. CASE n = m
    <3>1. lapses'[m] = lapses[m] + 1 /\ MarkCount(m) = 1 /\ MarkCount(m)' = 0
      BY <1>2, <1>10, <2>2 DEF MarkExpire, MarkCount
    <3> QED BY <1>1, <2>1, <3>1
  <2>3. CASE n # m
    <3>1. lapses'[m] = lapses[m] /\ marks'[m] = marks[m]
      BY <1>2, <1>10, <2>3 DEF MarkExpire
    <3> QED BY <1>3, <2>1, <3>1
  <2> QED BY <2>2, <2>3
<1>11. ASSUME NEW p \in Partitions, CommitOffset(p)
       PROVE  handed'[m] + Cardinality(Passing(m)') <= lapses'[m] + MarkCount(m)'
  BY <1>3, <1>11 DEF CommitOffset, historyVars, Passing, Event
<1>12. ASSUME NEW p \in Partitions, NEW n \in Msgs, Publish(p, n)
       PROVE  handed'[m] + Cardinality(Passing(m)') <= lapses'[m] + MarkCount(m)'
  BY <1>3, <1>5, <1>12 DEF Publish, historyVars
<1>13. ASSUME NEW p \in Partitions, Handle(p) \/ MarkMessage(p)
       PROVE  handed'[m] + Cardinality(Passing(m)') <= lapses'[m] + MarkCount(m)'
  BY <1>3, <1>6, <1>7, <1>13 DEF Handle, MarkMessage, historyVars
<1>14. ASSUME NEW S \in SUBSET Partitions, Crash(S)
       PROVE  handed'[m] + Cardinality(Passing(m)') <= lapses'[m] + MarkCount(m)'
  BY <1>3, <1>8, <1>14 DEF Crash
<1> QED
  BY <1>4, <1>9, <1>10, <1>11, <1>12, <1>13, <1>14 DEF Next, Handler, HandlerMoves

\* A report is handed over once, plus once for each time the filter failed open
\* or a mark came to its end, however often its message is published or
\* consumed again (CheckAndSetDedup before the processing, in Handle).
THEOREM OnceReported == Spec => []ReportedOnce
<1>1. Init => PassesAreCounted
  <2> SUFFICES ASSUME Init, NEW m \in Msgs \ Anonymous
               PROVE  handed[m] + Cardinality(Passing(m)) <= lapses[m] + MarkCount(m)
    BY DEF PassesAreCounted
  <2>1. Passing(m) = {}
    BY DEF Init, Passing
  <2>2. Cardinality(Passing(m)) = 0
    BY <2>1, FS_EmptySet
  <2> QED BY <2>2 DEF Init, MarkCount
<1>2. TypeOK /\ PassesAreCounted /\ [Next]_vars => PassesAreCounted'
  BY PassesAreCountedStep
<1>3. TypeOK /\ PassesAreCounted => ReportedOnce
  <2> SUFFICES ASSUME TypeOK, PassesAreCounted, NEW m \in Msgs \ Anonymous
               PROVE  handed[m] <= 1 + lapses[m]
    BY DEF ReportedOnce
  <2>1. handed[m] \in Nat /\ lapses[m] \in Nat /\ Cardinality(Passing(m)) \in Nat
    BY PassingFinite DEF TypeOK
  <2>2. handed[m] + Cardinality(Passing(m)) <= lapses[m] + MarkCount(m)
    BY DEF PassesAreCounted
  <2> QED BY <2>1, <2>2 DEF MarkCount
<1> QED BY <1>1, <1>2, <1>3, TypeCorrect, PTL DEF Spec

-----------------------------------------------------------------------------
(* Every loss has a cause                                                  *)

\* The event at position i of partition p carries message m; its handler is
\* through with it.
Carries(p, i, m) == i \in DOMAIN log[p] /\ log[p][i] = m
Past(p, i) == i <= marked[p] \/ (hpc[p] = "handled" /\ i = marked[p] + 1)

Served(m) == \E p \in Partitions, i \in Nat : Carries(p, i, m) /\ Past(p, i)
Awaiting(m) == \E p \in Partitions, i \in Nat : Carries(p, i, m) /\ ~ Past(p, i)

Settled(m) == handed[m] > 0 \/ m \in excused

\* A mark is no claim of its own: who set it is about to process the message,
\* or has, or has an excuse ...
MarksAreMeant == \A m \in Reports : marks[m] # "none" => Settled(m) \/ Passing(m) # {}

\* ... so that while a report is not settled, one of its events is still to come.
ServedOrAwaiting == \A m \in Reports : Served(m) => Settled(m) \/ Awaiting(m)

LossInv == MarksAreMeant /\ ServedOrAwaiting

\* Settled is for good.
LEMMA SettledStays ==
  ASSUME TypeOK, [Next]_vars, NEW m \in Msgs, Settled(m)
  PROVE  Settled(m)'
<1>1. handed \in [Msgs -> Nat]
  BY DEF TypeOK
<1>2. excused \subseteq excused'
  BY DEF Next, vars, Publish, Handler, Handle, FilterNew, FilterDuplicate, FilterRepeated, FilterFails,
         SetExpire, Report, ReportFails, ProcessOther, MarkMessage, CommitOffset, MarkExpire, Crash,
         historyVars
<1>3. handed' = handed \/ \E k : handed' = [handed EXCEPT ![k] = @ + 1]
  BY DEF Next, vars, Publish, Handler, Handle, FilterNew, FilterDuplicate, FilterRepeated, FilterFails,
         SetExpire, Report, ReportFails, ProcessOther, MarkMessage, CommitOffset, MarkExpire, Crash
<1>4. handed'[m] >= handed[m]
  BY <1>1, <1>3
<1>5. handed[m] \in Nat /\ handed'[m] \in Nat
  BY <1>1, TypeStep DEF TypeOK
<1> QED BY <1>2, <1>4, <1>5 DEF Settled

\* A handler that passes has its event before it.
LEMMA PassingAwaits ==
  ASSUME TypeOK, NEW m, NEW q \in Passing(m)
  PROVE  /\ q \in Partitions /\ marked[q] + 1 \in Nat
         /\ Carries(q, marked[q] + 1, m) /\ ~ Past(q, marked[q] + 1)
<1>1. q \in Partitions /\ hpc[q] \in {"expire", "process"} /\ Event(q) = m
  BY DEF Passing
<1>2. marked[q] \in Nat /\ marked[q] + 1 \in DOMAIN log[q]
  BY <1>1, EventTyped
<1> QED BY <1>1, <1>2 DEF Carries, Past, Event

LEMMA MarksAreMeantStep ==
  ASSUME TypeOK, LossInv, [Next]_vars
  PROVE  MarksAreMeant'
<1> SUFFICES ASSUME NEW m \in Reports, marks'[m] # "none", ~ Settled(m)'
             PROVE  Passing(m)' # {}
  BY DEF MarksAreMeant
<1>1. m \in Msgs /\ ~ Settled(m)
  BY MsgsAssumption, SettledStays
<1>2. marks \in [Msgs -> {"none", "endless", "timed"}]
  BY DEF TypeOK
<1>3. ASSUME NEW q \in Passing(m), hpc'[q] \in {"expire", "process"}, Event(q)' = Event(q)
      PROVE  Passing(m)' # {}
  BY <1>3 DEF Passing
<1>4. ASSUME marks'[m] = marks[m]
      PROVE  \E q \in Passing(m) : hpc[q] \in {"expire", "process"}
  BY <1>1, <1>4 DEF LossInv, MarksAreMeant, Passing
<1>5. CASE UNCHANGED vars
  BY <1>3, <1>4, <1>5 DEF vars, kafkaVars, Event
<1>6. ASSUME NEW p \in Partitions, NEW n \in Msgs, Publish(p, n)
      PROVE  Passing(m)' # {}
  <2>1. PICK q \in Passing(m) : hpc[q] \in {"expire", "process"}
    BY <1>4, <1>6 DEF Publish
  <2>2. q \in Partitions /\ marked[q] + 1 \in DOMAIN log[q] /\ log[q] \in Seq(Msgs)
    BY <2>1, PassingAwaits DEF Carries, TypeOK
  <2>3. log'[q] = log[q] \/ log'[q] = Append(log[q], n)
    BY <1>6, <2>2 DEF Publish, TypeOK
  <2>4. log'[q][marked[q] + 1] = log[q][marked[q] + 1]
    BY <2>2, <2>3
  <2> QED BY <1>3, <1>6, <2>1, <2>4 DEF Publish, Event
<1>7. ASSUME NEW p \in Partitions, Handle(p) \/ MarkMessage(p)
      PROVE  Passing(m)' # {}
  <2>1. PICK q \in Passing(m) : hpc[q] \in {"expire", "process"}
    BY <1>4, <1>7 DEF Handle, MarkMessage
  <2>2. q \in Partitions /\ q # p
    BY <1>7, <2>1 DEF Handle, MarkMessage, Passing
  <2>3. hpc'[q] = hpc[q] /\ Event(q)' = Event(q)
    BY <1>7, <2>2 DEF Handle, MarkMessage, Goto, kafkaVars, Event, TypeOK
  <2> QED BY <1>3, <2>1, <2>3
<1>8. ASSUME NEW p \in Partitions, HandlerMoves(p)
      PROVE  Passing(m)' # {}
  <2>1. log' = log /\ marked' = marked /\ Event(p) \in Msgs
    BY <1>8, HandlerMovesShape, EventTyped DEF kafkaVars
  <2>2. PICK l \in {"expire", "process", "handled"} : Goto(p, l)
    BY <1>8, HandlerMovesShape
  <2>3. Passing(m)' = IF l \in {"expire", "process"} /\ Event(p) = m
                      THEN Passing(m) \cup {p} ELSE Passing(m) \ {p}
    BY <2>1, <2>2, PassingOf
  <2>4. hpc'[p] = l
    BY <2>2, GotoTyped
  <2>5. CASE Event(p) = m
    <3>1. CASE FilterRepeated(p) \/ ReportFails(p)
      <4>1. m \in excused'
        BY <2>5, <3>1 DEF FilterRepeated, ReportFails
      <4> QED BY <4>1 DEF Settled
    <3>2. CASE Report(p)
      <4>1. handed[m] \in Nat /\ handed'[m] = handed[m] + 1
        BY <1>1, <2>5, <3>2 DEF Report, TypeOK
      <4> QED BY <4>1 DEF Settled
    <3>3. CASE ProcessOther(p)
      BY <2>5, <3>3 DEF ProcessOther
    <3>4. CASE FilterDuplicate(p)
      <4>1. marks' = marks /\ hpc[p] = "filter"
        BY <3>4 DEF FilterDuplicate
      <4>2. PICK q \in Passing(m) : hpc[q] \in {"expire", "process"}
        BY <1>4, <4>1
      <4> QED BY <2>3, <4>1, <4>2
    <3>5. CASE FilterNew(p) \/ FilterFails(p) \/ SetExpire(p)
      <4>1. l \in {"expire", "process"}
        BY <2>4, <3>5, GotoTyped DEF FilterNew, FilterFails, SetExpire
      <4> QED BY <2>3, <2>5, <4>1
    <3> QED BY <1>8, <3>1, <3>2, <3>3, <3>4, <3>5 DEF HandlerMoves
  <2>6. CASE Event(p) # m
    <3>1. marks' = marks \/ \E v : marks' = [marks EXCEPT ![Event(p)] = v]
      BY <1>8 DEF HandlerMoves, FilterNew, FilterDuplicate, FilterRepeated, FilterFails,
                  SetExpire, Report, ReportFails, ProcessOther
    <3>3. marks'[m] = marks[m]
      BY <1>1, <1>2, <2>6, <3>1
    <3>2. PICK q \in Passing(m) : hpc[q] \in {"expire", "process"}
      BY <1>4, <3>3
    <3> QED BY <2>3, <2>6, <3>2 DEF Passing
  <2> QED BY <2>5, <2>6
<1>9. ASSUME NEW n \in Msgs, MarkExpire(n)
      PROVE  Passing(m)' # {}
  <2>1. marks'[m] = marks[m]
    BY <1>1, <1>2, <1>9 DEF MarkExpire
  <2> QED BY <1>3, <1>4, <1>9, <2>1 DEF MarkExpire, kafkaVars, Event
<1>10. ASSUME NEW p \in Partitions, CommitOffset(p)
       PROVE  Passing(m)' # {}
  BY <1>3, <1>4, <1>10 DEF CommitOffset, Event
<1>11. ASSUME NEW S \in SUBSET Partitions, Crash(S)
       PROVE  Passing(m)' # {}
  <2>1. PICK q \in Passing(m) : hpc[q] \in {"expire", "process"}
    BY <1>4, <1>11 DEF Crash
  <2>2. q \in Partitions /\ Event(q) = m /\ marks[m] # "none"
    BY <1>11, <2>1 DEF Passing, Crash
  <2>3. CASE q \in S
    <3>1. Begun(q)
      BY <2>1, <2>2 DEF Begun
    <3>2. m \in excused'
      BY <1>11, <2>2, <2>3, <3>1 DEF Crash
    <3> QED BY <3>2 DEF Settled
  <2>4. CASE q \notin S
    BY <1>3, <1>11, <2>1, <2>2, <2>4 DEF Crash, Event
  <2> QED BY <2>3, <2>4
<1> QED
  BY <1>5, <1>6, <1>7, <1>8, <1>9, <1>10, <1>11 DEF Next, Handler, HandlerMoves

LEMMA ServedOrAwaitingStep ==
  ASSUME TypeOK, LossInv, [Next]_vars
  PROVE  ServedOrAwaiting'
<1> SUFFICES ASSUME NEW m \in Reports, Served(m)', ~ Settled(m)'
             PROVE  Awaiting(m)'
  BY DEF ServedOrAwaiting
<1>1. m \in Msgs /\ ~ Settled(m)
  BY MsgsAssumption, SettledStays
<1>2. Served(m) => Awaiting(m)
  BY <1>1 DEF LossInv, ServedOrAwaiting
<1>3. ASSUME \A p \in Partitions, i \in Nat :
               /\ Carries(p, i, m)' /\ Past(p, i)' => Carries(p, i, m) /\ Past(p, i)
               /\ Carries(p, i, m) /\ ~ Past(p, i) => Carries(p, i, m)' /\ ~ Past(p, i)'
      PROVE  Awaiting(m)'
  <2>1. Served(m)
    BY <1>3 DEF Served
  <2>2. PICK p \in Partitions, i \in Nat : Carries(p, i, m) /\ ~ Past(p, i)
    BY <1>2, <2>1 DEF Awaiting
  <2>3. Carries(p, i, m)' /\ ~ Past(p, i)'
    BY <1>3, <2>2
  <2> QED BY <2>3 DEF Awaiting
<1>4. CASE UNCHANGED vars
  BY <1>3, <1>4 DEF vars, kafkaVars, Carries, Past
<1>5. ASSUME NEW p \in Partitions, NEW n \in Msgs, Publish(p, n)
      PROVE  Awaiting(m)'
  <2> SUFFICES ASSUME NEW q \in Partitions, NEW i \in Nat
               PROVE  /\ Carries(q, i, m)' /\ Past(q, i)' => Carries(q, i, m) /\ Past(q, i)
                      /\ Carries(q, i, m) /\ ~ Past(q, i) => Carries(q, i, m)' /\ ~ Past(q, i)'
    BY <1>3
  <2>1. /\ log[q] \in Seq(Msgs) /\ marked[q] \in Nat /\ marked[q] <= Len(log[q])
        /\ hpc[q] = "handled" => marked[q] < Len(log[q])
    BY DEF TypeOK, OffsetsType
  <2>2. log'[q] = log[q] \/ log'[q] = Append(log[q], n)
    BY <1>5 DEF Publish, TypeOK
  <2>3. marked' = marked /\ hpc' = hpc
    BY <1>5 DEF Publish
  <2>4. i \in DOMAIN log[q] => i \in DOMAIN log'[q] /\ log'[q][i] = log[q][i]
    BY <2>1, <2>2
  <2>5. i \in DOMAIN log'[q] /\ i <= Len(log[q]) => i \in DOMAIN log[q]
    BY <2>1, <2>2
  <2>6. Past(q, i)' <=> Past(q, i)
    BY <2>3 DEF Past
  <2>7. Past(q, i) => i <= Len(log[q])
    BY <2>1 DEF Past
  <2> QED BY <2>4, <2>5, <2>6, <2>7 DEF Carries
<1>6. ASSUME NEW p \in Partitions, Handle(p)
      PROVE  Awaiting(m)'
  <2>1. log' = log /\ marked' = marked /\ hpc[p] = "idle" /\ hpc'[p] # "handled"
        /\ \A q \in Partitions : q # p => hpc'[q] = hpc[q]
    BY <1>6 DEF Handle, Goto, kafkaVars, TypeOK
  <2> QED BY <1>3, <2>1 DEF Carries, Past
<1>7. ASSUME NEW p \in Partitions, MarkMessage(p)
      PROVE  Awaiting(m)'
  <2>1. /\ log' = log /\ hpc[p] = "handled" /\ hpc'[p] = "idle"
        /\ marked[p] \in Nat /\ marked'[p] = marked[p] + 1
        /\ \A q \in Partitions : q # p => hpc'[q] = hpc[q] /\ marked'[q] = marked[q]
    BY <1>7 DEF MarkMessage, Goto, TypeOK
  <2>2. ASSUME NEW q \in Partitions, NEW i \in Nat PROVE Past(q, i)' <=> Past(q, i)
    BY <2>1 DEF Past
  <2> QED BY <1>3, <2>1, <2>2 DEF Carries
<1>8. ASSUME NEW p \in Partitions, HandlerMoves(p)
      PROVE  Awaiting(m)'
  <2>1. log' = log /\ marked' = marked /\ hpc[p] \in {"filter", "expire", "process"}
    BY <1>8, HandlerMovesShape DEF kafkaVars
  <2>2. PICK l \in {"expire", "process", "handled"} : Goto(p, l)
    BY <1>8, HandlerMovesShape
  <2>3. hpc'[p] = l /\ \A q \in Partitions : q # p => hpc'[q] = hpc[q]
    BY <2>2, GotoTyped
  <2>4. marked[p] \in Nat /\ marked[p] + 1 \in DOMAIN log[p]
    BY <2>1, EventTyped
  <2>5. CASE l # "handled"
    BY <1>3, <2>1, <2>3, <2>5 DEF Carries, Past
  <2>6. CASE l = "handled" /\ Event(p) # m
    <3>1. ~ Carries(p, marked[p] + 1, m)
      BY <2>6 DEF Carries, Event
    <3>2. ASSUME NEW q \in Partitions, NEW i \in Nat, q # p \/ i # marked[p] + 1
          PROVE  Past(q, i)' <=> Past(q, i)
      BY <2>1, <2>3, <3>2 DEF Past
    <3>3. Carries(p, marked[p] + 1, m)' <=> Carries(p, marked[p] + 1, m)
      BY <2>1 DEF Carries
    <3>4. \A q \in Partitions, i \in Nat : Carries(q, i, m)' <=> Carries(q, i, m)
      BY <2>1 DEF Carries
    <3> QED BY <1>3, <3>1, <3>2, <3>4
  <2>7. CASE l = "handled" /\ Event(p) = m
    <3>1. FilterDuplicate(p)
      <4>1. ~ FilterRepeated(p) /\ ~ ReportFails(p)
        <5>1. m \notin excused'
          BY DEF Settled
        <5> QED BY <2>7, <5>1 DEF FilterRepeated, ReportFails
      <4>2. ~ Report(p)
        <5>1. SUFFICES ASSUME Report(p) PROVE FALSE
          OBVIOUS
        <5>2. handed[m] \in Nat /\ handed'[m] = handed[m] + 1
          BY <1>1, <2>7, <5>1 DEF Report, TypeOK
        <5> QED BY <5>2 DEF Settled
      <4>3. ~ ProcessOther(p)
        BY <2>7 DEF ProcessOther
      <4>4. ~ FilterNew(p) /\ ~ FilterFails(p) /\ ~ SetExpire(p)
        BY <2>3, <2>7, GotoTyped DEF FilterNew, FilterFails, SetExpire
      <4> QED BY <1>8, <4>1, <4>2, <4>3, <4>4 DEF HandlerMoves
    <3>2. marks[m] # "none" /\ hpc[p] = "filter"
      BY <2>7, <3>1 DEF FilterDuplicate
    <3>3. PICK q \in Passing(m) : TRUE
      BY <1>1, <3>2 DEF LossInv, MarksAreMeant
    <3>4. q \in Partitions /\ q # p
      BY <3>2, <3>3 DEF Passing
    <3>5. PICK j \in Nat : Carries(q, j, m) /\ ~ Past(q, j)
      BY <3>3, PassingAwaits
    <3>6. Carries(q, j, m)' /\ ~ Past(q, j)'
      BY <2>1, <2>3, <3>4, <3>5 DEF Carries, Past
    <3> QED BY <3>4, <3>5, <3>6 DEF Awaiting
  <2> QED BY <2>5, <2>6, <2>7
<1>9. ASSUME NEW n \in Msgs, MarkExpire(n)
      PROVE  Awaiting(m)'
  BY <1>3, <1>9 DEF MarkExpire, kafkaVars, Carries, Past
<1>10. ASSUME NEW p \in Partitions, CommitOffset(p)
       PROVE  Awaiting(m)'
  BY <1>3, <1>10 DEF CommitOffset, Carries, Past
<1>11. ASSUME NEW S \in SUBSET Partitions, Crash(S)
       PROVE  Awaiting(m)'
  <2> SUFFICES ASSUME NEW q \in Partitions, NEW i \in Nat
               PROVE  Past(q, i)' => Past(q, i)
    BY <1>3, <1>11 DEF Crash, Carries
  <2>1. marked[q] \in Nat /\ committed[q] \in Nat /\ committed[q] <= marked[q]
    BY DEF TypeOK, OffsetsType
  <2>2. marked'[q] \in {marked[q], committed[q]} /\ hpc'[q] \in {hpc[q], "idle"}
        /\ (hpc'[q] = "handled" => marked'[q] = marked[q])
    BY <1>11 DEF Crash
  <2> QED BY <2>1, <2>2 DEF Past
<1> QED
  BY <1>4, <1>5, <1>6, <1>7, <1>8, <1>9, <1>10, <1>11 DEF Next, Handler, HandlerMoves

\* A report all of whose events were consumed was handed over, unless a process
\* ended between the mark and the processing, an answer of Redis was lost or
\* the producer refused it (the order of the steps of Handle, and offsets
\* marked after it).
THEOREM LossExcused == Spec => []LossIsExcused
<1>1. Init => LossInv
  <2> SUFFICES ASSUME Init PROVE LossInv
    OBVIOUS
  <2>1. MarksAreMeant
    BY MsgsAssumption DEF Init, MarksAreMeant
  <2>2. \A p \in Partitions : DOMAIN log[p] = {}
    BY DEF Init
  <2>3. ServedOrAwaiting
    BY <2>2 DEF ServedOrAwaiting, Served, Carries
  <2> QED BY <2>1, <2>3 DEF LossInv
<1>2. TypeOK /\ LossInv /\ [Next]_vars => LossInv'
  BY MarksAreMeantStep, ServedOrAwaitingStep DEF LossInv
<1>3. TypeOK /\ LossInv => LossIsExcused
  <2> SUFFICES ASSUME TypeOK, LossInv, NEW m \in Reports, Consumed(m)
               PROVE  Settled(m)
    BY DEF LossIsExcused, Settled
  <2>1. PICK p \in Partitions : m \in {log[p][i] : i \in 1 .. marked[p]}
    BY DEF Consumed
  <2>2. PICK i \in 1 .. marked[p] : log[p][i] = m
    BY <2>1
  <2>3. log[p] \in Seq(Msgs) /\ marked[p] \in Nat /\ marked[p] <= Len(log[p])
    BY DEF TypeOK, OffsetsType
  <2>4. i \in Nat /\ i \in DOMAIN log[p] /\ i <= marked[p]
    BY <2>2, <2>3
  <2>5. Served(m)
    BY <2>2, <2>4 DEF Served, Carries, Past
  <2>6. ~ Awaiting(m)
    BY DEF Awaiting, Carries, Past, Consumed
  <2> QED BY <2>5, <2>6 DEF LossInv, ServedOrAwaiting
<1> QED BY <1>1, <1>2, <1>3, TypeCorrect, PTL DEF Spec
=============================================================================

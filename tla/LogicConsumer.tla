---------------------------- MODULE LogicConsumer ----------------------------
(***************************************************************************)
(* The logic service's consumer of the user_message topic: for each event  *)
(* it marks the message id as consumed in Redis, processes the message,    *)
(* which for a data report means handing it to the Kafka producer, and     *)
(* marks the offset, which is committed once a second.  A producer may     *)
(* publish a message more than once; partitions are consumed concurrently, *)
(* by one process or several, and a process that ends leaves its           *)
(* partitions to be taken up at the committed offsets.                     *)
(***************************************************************************)
EXTENDS Naturals, Sequences, FiniteSets

CONSTANTS
  Msgs,        \* messages, each with an id of its own
  Anonymous,   \* messages whose msg_id is empty
  Reports,     \* messages that are data reports with valid content
  Partitions,  \* of the user_message topic
  MaxEvents,   \* bound on the events published
  MaxCrashes,  \* bound on the ends of processes
  Faults       \* what may go wrong: "redis", "kafka"

ASSUME MsgsAssumption == Anonymous \subseteq Msgs /\ Reports \subseteq Msgs
ASSUME PartitionsAssumption == IsFiniteSet(Partitions)
ASSUME BoundsAssumption == MaxEvents \in Nat /\ MaxCrashes \in Nat

VARIABLES
  log,        \* partition -> messages published, in order
  published,  \* number of them
  marked,     \* partition -> events marked as consumed
  committed,  \* partition -> events a restarted consumer does not see again
  hpc,        \* partition -> where the handler is
  marks,      \* message -> its set in Redis: "none", with no time to live, or with one
  handed,     \* message -> times it was handed to the producer
  crashes,    \* processes that have ended
  lapses,     \* history: message -> times the filter let it pass once more
  excused     \* history: messages with a reason to be lost

kafkaVars == <<log, published, marked, committed>>
historyVars == <<crashes, lapses, excused>>
vars == <<kafkaVars, hpc, marks, handed, historyVars>>

Event(p) == log[p][marked[p] + 1]

OffsetsType ==
  \A p \in Partitions :
    /\ committed[p] <= marked[p] /\ marked[p] <= Len(log[p])
    /\ hpc[p] # "idle" => marked[p] < Len(log[p])

TypeOK ==
  /\ log \in [Partitions -> Seq(Msgs)]
  /\ published \in 0 .. MaxEvents
  /\ marked \in [Partitions -> Nat]
  /\ committed \in [Partitions -> Nat]
  /\ hpc \in [Partitions -> {"idle", "filter", "expire", "process", "handled"}]
  /\ marks \in [Msgs -> {"none", "endless", "timed"}]
  /\ handed \in [Msgs -> Nat]
  /\ crashes \in 0 .. MaxCrashes
  /\ lapses \in [Msgs -> Nat]
  /\ excused \in SUBSET Msgs
  /\ OffsetsType

Init ==
  /\ log = [p \in Partitions |-> <<>>]
  /\ published = 0
  /\ marked = [p \in Partitions |-> 0]
  /\ committed = [p \in Partitions |-> 0]
  /\ hpc = [p \in Partitions |-> "idle"]
  /\ marks = [m \in Msgs |-> "none"]
  /\ handed = [m \in Msgs |-> 0]
  /\ crashes = 0
  /\ lapses = [m \in Msgs |-> 0]
  /\ excused = {}

Goto(p, l) == hpc' = [hpc EXCEPT ![p] = l]

-----------------------------------------------------------------------------
\* A message is published, for the first time or again.
Publish(p, m) ==
  /\ published < MaxEvents
  /\ published' = published + 1
  /\ log' = [log EXCEPT ![p] = Append(@, m)]
  /\ UNCHANGED <<marked, committed, hpc, marks, handed, historyVars>>

\* ConsumeClaim takes the next event; without a msg_id there is no filter.
Handle(p) ==
  /\ hpc[p] = "idle"
  /\ marked[p] < Len(log[p])
  /\ Goto(p, IF Event(p) \in Anonymous THEN "process" ELSE "filter")
  /\ UNCHANGED <<kafkaVars, marks, handed, historyVars>>

\* CheckAndSetDedup: SADD adds the message, which is new ...
FilterNew(p) ==
  /\ hpc[p] = "filter"
  /\ marks[Event(p)] = "none"
  /\ marks' = [marks EXCEPT ![Event(p)] = "endless"]
  /\ Goto(p, "expire")
  /\ UNCHANGED <<kafkaVars, handed, historyVars>>

\* Faulty variant: the answer of SADD is not looked at.
FilterIgnored(p) ==
  /\ hpc[p] = "filter"
  /\ marks[Event(p)] # "none"
  /\ Goto(p, "expire")
  /\ UNCHANGED <<kafkaVars, marks, handed, historyVars>>

\* Faulty variant: the offset of a duplicate is not marked.
DuplicateUnmarked(p) ==
  /\ hpc[p] = "filter"
  /\ marks[Event(p)] # "none"
  /\ Goto(p, "idle")
  /\ UNCHANGED <<kafkaVars, marks, handed, historyVars>>

\* ... or finds it there: ErrMessageDuplicate.
FilterDuplicate(p) ==
  /\ hpc[p] = "filter"
  /\ marks[Event(p)] # "none"
  /\ Goto(p, "handled")
  /\ UNCHANGED <<kafkaVars, marks, handed, historyVars>>

\* SADD is carried out and repeated by the client, which has lost the answer:
\* a new message looks like a duplicate.
FilterRepeated(p) ==
  /\ "redis" \in Faults
  /\ hpc[p] = "filter"
  /\ marks[Event(p)] = "none"
  /\ marks' = [marks EXCEPT ![Event(p)] = "endless"]
  /\ excused' = excused \cup {Event(p)}
  /\ Goto(p, "handled")
  /\ UNCHANGED <<kafkaVars, handed, crashes, lapses>>

\* Faulty variant: a message that cannot be filtered is not processed.
FilterFailsClosed(p) ==
  /\ "redis" \in Faults
  /\ hpc[p] = "filter"
  /\ Goto(p, "handled")
  /\ UNCHANGED <<kafkaVars, marks, handed, historyVars>>

\* SADD fails, carried out or not: the message is processed all the same.
FilterFails(p) ==
  /\ "redis" \in Faults
  /\ hpc[p] = "filter"
  /\ \/ UNCHANGED marks
     \/ marks[Event(p)] = "none" /\ marks' = [marks EXCEPT ![Event(p)] = "endless"]
  /\ lapses' = [lapses EXCEPT ![Event(p)] = @ + 1]
  /\ Goto(p, "process")
  /\ UNCHANGED <<kafkaVars, handed, crashes, excused>>

\* EXPIRE, by key: nothing when the key is gone; an error is only logged.
SetExpire(p) ==
  /\ hpc[p] = "expire"
  /\ \/ marks' = [marks EXCEPT ![Event(p)] = IF @ = "none" THEN "none" ELSE "timed"]
     \/ "redis" \in Faults /\ UNCHANGED marks
  /\ Goto(p, "process")
  /\ UNCHANGED <<kafkaVars, handed, historyVars>>

\* dataReport hands the report to the producer ...
Report(p) ==
  /\ hpc[p] = "process"
  /\ Event(p) \in Reports
  /\ handed' = [handed EXCEPT ![Event(p)] = @ + 1]
  /\ Goto(p, "handled")
  /\ UNCHANGED <<kafkaVars, marks, historyVars>>

\* ... which takes nothing for 5 s, or has no id for it.
ReportFails(p) ==
  /\ "kafka" \in Faults
  /\ hpc[p] = "process"
  /\ Event(p) \in Reports
  /\ excused' = excused \cup {Event(p)}
  /\ Goto(p, "handled")
  /\ UNCHANGED <<kafkaVars, marks, handed, crashes, lapses>>

\* Chat and control messages are logged, anything else is an error.
ProcessOther(p) ==
  /\ hpc[p] = "process"
  /\ Event(p) \notin Reports
  /\ Goto(p, "handled")
  /\ UNCHANGED <<kafkaVars, marks, handed, historyVars>>

\* The event is marked, whatever the handler returned.
MarkMessage(p) ==
  /\ hpc[p] = "handled"
  /\ marked' = [marked EXCEPT ![p] = @ + 1]
  /\ Goto(p, "idle")
  /\ UNCHANGED <<log, published, committed, marks, handed, historyVars>>

\* Faulty variant: the event being handled is committed with those before it.
CommitTaken(p) ==
  /\ committed[p] < Len(log[p])
  /\ hpc[p] # "idle"
  /\ committed' = [committed EXCEPT ![p] = marked[p] + 1]
  /\ UNCHANGED <<log, published, marked, hpc, marks, handed, historyVars>>

\* The marked offset is committed every second.
CommitOffset(p) ==
  /\ committed[p] # marked[p]
  /\ committed' = [committed EXCEPT ![p] = marked[p]]
  /\ UNCHANGED <<log, published, marked, hpc, marks, handed, historyVars>>

\* A day is over.
MarkExpire(m) ==
  /\ marks[m] = "timed"
  /\ marks' = [marks EXCEPT ![m] = "none"]
  /\ lapses' = [lapses EXCEPT ![m] = @ + 1]
  /\ UNCHANGED <<kafkaVars, hpc, handed, crashes, excused>>

\* The handler has marked its message in Redis and not processed it.
Begun(p) == hpc[p] \in {"expire", "process"} /\ marks[Event(p)] # "none"

\* The process that consumes partitions S ends.  What it has begun will be
\* taken for a duplicate.
Crash(S) ==
  /\ S # {}
  /\ crashes < MaxCrashes
  /\ crashes' = crashes + 1
  /\ hpc' = [p \in Partitions |-> IF p \in S THEN "idle" ELSE hpc[p]]
  /\ marked' = [p \in Partitions |-> IF p \in S THEN committed[p] ELSE marked[p]]
  /\ excused' = excused \cup {Event(p) : p \in {q \in S : Begun(q)}}
  /\ UNCHANGED <<log, published, committed, marks, handed, lapses>>

Handler(p) ==
  \/ Handle(p)
  \/ FilterNew(p) \/ FilterDuplicate(p) \/ FilterRepeated(p) \/ FilterFails(p)
  \/ SetExpire(p) \/ Report(p) \/ ReportFails(p) \/ ProcessOther(p) \/ MarkMessage(p)

Next ==
  \/ \E p \in Partitions, m \in Msgs : Publish(p, m)
  \/ \E p \in Partitions : Handler(p) \/ CommitOffset(p)
  \/ \E m \in Msgs : MarkExpire(m)
  \/ \E S \in SUBSET Partitions : Crash(S)

Spec == Init /\ [][Next]_vars

\* Every goroutine runs, every call to Redis and Kafka has a timeout, offsets
\* are committed by a timer.
Fairness ==
  \A p \in Partitions : WF_vars(Handler(p)) /\ WF_vars(CommitOffset(p))

FairSpec == Spec /\ Fairness

-----------------------------------------------------------------------------
(* Correctness                                                             *)

\* A report is handed over once, although its message is published again, in
\* any partitions, or consumed again after a crash: each time more takes a
\* filter that failed open or a mark that came to its end.
ReportedOnce == \A m \in Msgs \ Anonymous : handed[m] <= 1 + lapses[m]

\* All events that carry message m have been marked as consumed.
Consumed(m) ==
  /\ \E p \in Partitions : m \in {log[p][i] : i \in 1 .. marked[p]}
  /\ \A p \in Partitions : \A i \in DOMAIN log[p] : log[p][i] = m => i <= marked[p]

\* A report whose events have all been marked was handed over, unless a process
\* ended between the two steps of a handler (the mark in Redis comes before
\* the processing), an answer was lost or the producer refused it.
LossIsExcused == \A m \in Reports : Consumed(m) => handed[m] > 0 \/ m \in excused

\* Every event is consumed for good in the end, whatever its handler returned
\* and however often it was interrupted.
EventsAreCommitted ==
  \A p \in Partitions, k \in 1 .. MaxEvents : Len(log[p]) >= k ~> committed[p] >= k
=============================================================================

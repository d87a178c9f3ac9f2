--------------------------- MODULE MCPushDelivery --------------------------
(* Small instances of PushDelivery for TLC.                                *)
EXTENDS PushDelivery, TLC

CONSTANTS u1, n1, c1, c2, t1, t2, t3, p1, p2

\* One user connects to one node, as often as there are connections.
MCConnUser == [c \in Conns |-> u1]
MCConnNode == [c \in Conns |-> n1]

\* Everything goes to one user: that is where calls and handlers interfere.
MCMsgUser == [m \in Msgs |-> u1]

\* Two calls of one message each, so that a page is full with one message,
\* and a call that is too large.
MCDisjoint == [t \in Tasks |-> CASE t = t1 -> {1} [] t = t2 -> {2} [] t = t3 -> {1, 2}]

\* One call of two messages, which fill a page together.
MCTogether == [t \in Tasks |-> {1, 2}]

\* Two calls that share a message, as when a caller repeats a call that
\* failed; the third message names no user.
MCRepeated == [t \in Tasks |-> IF t = t1 THEN {1, 2} ELSE {2, 3}]
MCInvalid == [m \in Msgs |-> IF m = 3 THEN None ELSE u1]

\* A call is made again when the first one has sent what it could, or has ended.
MCRetry == tpc'[t2] # "idle" => tpc'[t1] \notin {"idle", "lookup", "send"}

\* Crashes that take a call with them, of which there are as many as calls: no
\* event is handled in the end by a process that never lives long enough.  What
\* looks like a crash may also be the end that a refusal in part brings about.
MCFewCrashes ==
  Crash => \/ \E t \in Tasks : tpc[t] \notin {"idle", "done", "failed"}
           \/ \E p \in Partitions : SomeRefused(p)

\* The user's second connection starts when the call is over.
MCSecond == stage'[c2] # "idle" => \A t \in Tasks : tpc'[t] \in {"done", "failed"}

\* What a call or a consumer has to do next is nobody else's concern: to insert
\* its rows, to turn to the sending, to write its statuses; to mark its event, to
\* commit its offset, which only the end of a process would read.
Settling(t) == tpc[t] \in {"idle", "update"} \/ (tpc[t] = "lookup" /\ todo[t] = {})
Marking(p) == hpc[p] \in {"handled", "failed"} \/ committed[p] # marked[p]

\* Such steps are made at once, which leaves out no order of the others.
MCPrompt ==
  (\E t \in Tasks : Settling(t)) \/ (\E p \in Partitions : Marking(p)) =>
    \/ \E t \in Tasks : Settling(t) /\ <<tpc[t], todo[t]>>' # <<tpc[t], todo[t]>>
    \/ \E p \in Partitions :
         Marking(p) /\ <<hpc[p], committed[p]>>' # <<hpc[p], committed[p]>>

\* Partitions are interchangeable, and so are connections.
MCSymmetry == Permutations(Partitions) \cup Permutations(Conns)
=============================================================================

------------------------------- MODULE Mailbox --------------------------------
(***************************************************************************)
(* What push and the offline store promise of messages that are pushed     *)
(* once: a message goes one of two ways, directly to a node or through the *)
(* archive, never back, and a record follows what happened.                *)
(***************************************************************************)
CONSTANT Messages

VARIABLES
  life,     \* message -> how far it has got
  recorded  \* messages recorded as sent

mailVars == <<life, recorded>>

\* "taken": a node accepted it from push; "fetched": from the archive.
Stages == {"absent", "taken", "stored", "fetched", "delivered"}

MailInit ==
  /\ life = [m \in Messages |-> "absent"]
  /\ recorded = {}

\* Messages S go from one stage to the next.
Moves(S, from, to) ==
  /\ \A m \in S : life[m] = from
  /\ life' = [m \in Messages |-> IF m \in S THEN to ELSE life[m]]
  /\ UNCHANGED recorded

Take(m) == Moves({m}, "absent", "taken")
Record(m) == life[m] = "taken" /\ recorded' = recorded \cup {m} /\ UNCHANGED life
Store(S) == Moves(S, "absent", "stored")
Fetch(m) == Moves({m}, "stored", "fetched")
Confirm(S) == Moves(S, "fetched", "delivered")

MailNext ==
  \/ \E m \in Messages : Take(m) \/ Record(m) \/ Fetch(m)
  \/ \E S \in SUBSET Messages : Store(S) \/ Confirm(S)

MailSpec == MailInit /\ [][MailNext]_mailVars
=============================================================================

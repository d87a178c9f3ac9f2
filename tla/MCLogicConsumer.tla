--------------------------- MODULE MCLogicConsumer ---------------------------
(* A small instance of LogicConsumer for TLC: a data report, published up  *)
(* to three times, and a chat message without an id.                       *)
EXTENDS LogicConsumer, TLC

CONSTANTS report, chat, p1, p2

\* Bound: partitions differ in name only, so one of them is always the first.
MCFirst == log[p1] = <<>> => log'[p2] = <<>>
=============================================================================

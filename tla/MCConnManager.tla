--------------------------- MODULE MCConnManager ---------------------------
(* Small instances of ConnManager: up to three connections of one user, the *)
(* first two on the same node.                                              *)
EXTENDS ConnManager

CONSTANTS n1, n2, u1, c1, c2, c3, m1, m2

\* Every connection belongs to the same user: that is where they interfere.
MCConnUser == [c \in Conns |-> u1]

\* The third connection reconnects to the other node.
MCConnNode == [c \in Conns |-> IF c = c3 THEN n2 ELSE n1]

\* Bound: messages differ in name only, so one of them is always the first.
MCInOrder == m2 \in Msgs /\ outcome[m1] = "none" => outcome'[m2] = "none"
=============================================================================

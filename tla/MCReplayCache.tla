---------------------------- MODULE MCReplayCache ----------------------------
(* A small instance of ReplayCache for TLC.                                *)
EXTENDS ReplayCache, TLC

CONSTANTS r1, r2, r3, r4, k1, k2, k3, c1, c2, c3, c4

\* One id is used again for a request made when the first one has expired; r4
\* comes from a client whose clock is ahead.
MCIdOf == [r \in Requests |-> CASE r = r3 -> k2 [] r = r4 -> k3 [] OTHER -> k1]
MCTimestamp == [r \in Requests |-> IF r \in {r1, r3} THEN 0 ELSE 3]

\* NewMemoryReplayChecker takes one duration for both; NewReplayChecker keeps
\* ids for longer by default.
MCTimeWindow == [b \in Backends |-> IF b = "memory" THEN 2 ELSE 1]
MCExpireTime == [b \in Backends |-> IF b = "memory" THEN 2 ELSE 3]

\* Checks are interchangeable.
MCSymmetry == Permutations(Checks)
=============================================================================

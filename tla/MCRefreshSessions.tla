------------------------- MODULE MCRefreshSessions -------------------------
(* Instances of RefreshSessions for TLC. *)
EXTENDS RefreshSessions, TLC

CONSTANTS t1, t2, t3, r1, r2, b1, b2

\* Tokens and requests are interchangeable.
Interchangeable == Permutations(Tokens) \union Permutations(Requests)
=============================================================================

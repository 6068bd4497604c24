------------------------- MODULE MCRefreshSessions -------------------------
(* Small instances of RefreshSessions for TLC. *)
EXTENDS RefreshSessions, TLC

\* No definition tells one id or one slot from another.
Interchangeable == Permutations(SessionIds) \cup Permutations(Requests)
=============================================================================

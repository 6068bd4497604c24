------------------------- MODULE MCConversationRoom ------------------------
(* Small instances of ConversationRoom for TLC. *)
EXTENDS ConversationRoom, TLC

CONSTANTS u1, s1, s2, m1, m2, k1

OneUser == [s \in Sockets |-> u1]

\* With one user, no definition tells one socket or one message from another.
Interchangeable == Permutations(Sockets) \cup Permutations(Messages)
=============================================================================

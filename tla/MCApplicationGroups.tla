------------------------ MODULE MCApplicationGroups ------------------------
(* Small instances of ApplicationGroups for TLC. *)
EXTENDS ApplicationGroups, TLC

CONSTANTS w1

OneLandlord == [l \in Listings |-> w1]

\* Requests and document ids are interchangeable: no definition tells one
\* from another, and every property run with it is a safety property.
Interchangeable ==
    Permutations(Requests) \cup Permutations(AppIds) \cup Permutations(ConvIds)
=============================================================================

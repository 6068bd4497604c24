------------------------ MODULE MCVerificationCodes ------------------------
(* A small instance of VerificationCodes for TLC. *)
EXTENDS VerificationCodes, TLC

\* No definition tells one slot from another.
Interchangeable == Permutations(Requests)
=============================================================================

------------------------ MODULE MCPrivateDocuments ------------------------
(* A small instance of PrivateDocuments for TLC. *)
EXTENDS PrivateDocuments, TLC

CONSTANTS s1, k0, k1

\* One key in the old format, and one issued to the first student.
OneNewKey == [k \in {k0, k1} |-> IF k = k1 THEN s1 ELSE None]

\* No definition tells one slot from another.
Interchangeable == Permutations(Requests)
=============================================================================

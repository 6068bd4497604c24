----------------------------- MODULE MCPresence ----------------------------
(* Small instances of Presence for TLC.  Sockets are model values; no      *)
(* symmetry, the properties being about liveness.                          *)
EXTENDS Presence

CONSTANTS s1, s2, s3
=============================================================================

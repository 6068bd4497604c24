------------------------ MODULE MCListingLifecycle ------------------------
(* A small instance of ListingLifecycle for TLC. *)
EXTENDS ListingLifecycle, TLC
=============================================================================

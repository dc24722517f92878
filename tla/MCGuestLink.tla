---------------------------- MODULE MCGuestLink ----------------------------
(* Small instances of GuestLink for TLC.                                     *)
EXTENDS GuestLink, TLC
\* The requests are interchangeable; used by runs without liveness.
Symmetry == Permutations(Requests)
=============================================================================

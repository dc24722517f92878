---------------------------- MODULE MCRecording ----------------------------
(* Small instances of Recording for TLC.                                     *)
EXTENDS Recording, TLC
\* The requests are interchangeable.
Symmetry == Permutations(Requests)
=============================================================================

------------------------------ MODULE MCStore ------------------------------
(* Small instances of Store for TLC; the cfg files give the constants.       *)
EXTENDS Store
=============================================================================

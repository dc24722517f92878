----------------------------- MODULE MCKeyCache -----------------------------
EXTENDS KeyCache, TLC

CONSTANTS k1, k2, a, b, c

NoKeysDef == << >>
\* One key, the overlap of a rotation, the new key alone, a key without an id.
KeySetsDef == {k1 :> a, (k1 :> a) @@ (k2 :> b), k2 :> b, NoKid :> c}
TokensDef ==
  {[kid |-> k1, key |-> a, good |-> TRUE], [kid |-> k2, key |-> b, good |-> TRUE],
   [kid |-> k2, key |-> c, good |-> TRUE], [kid |-> NoKid, key |-> a, good |-> FALSE]}
=============================================================================

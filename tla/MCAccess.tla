------------------------------ MODULE MCAccess ------------------------------
EXTENDS Access, TLC

\* A head of division, a colleague, a director, somebody of another division
\* without a username, and an account without roles.
UsersDef ==
  {[id |-> "u1", username |-> "budi", super |-> FALSE, roles |-> [teknik |-> "kadep"]],
   [id |-> "u2", username |-> "sari", super |-> FALSE, roles |-> [sales |-> "staff"]],
   [id |-> "u3", username |-> "rani", super |-> FALSE, roles |-> [teknik |-> "dirops"]],
   [id |-> "u4", username |-> "", super |-> FALSE, roles |-> [sales |-> "kadep"]],
   [id |-> "", username |-> "tono", super |-> FALSE, roles |-> << >>]}

Inv(id, username, role) == [id |-> id, username |-> username, role |-> role]
InputsDef ==
  {<< >>, [open |-> TRUE], [open |-> FALSE, kind |-> "stream"], [divisions |-> {"sales"}],
   [divisions |-> {}, division |-> "sales"],
   [invitees |-> << >>],
   [invitees |-> <<Inv("u2", "sari", "viewer"), Inv("u2", "", "host")>>],
   [invitees |-> <<Inv("", "", "host"), Inv("u1", "budi", "viewer"),
                   Inv("", "tono", "moderator")>>],
   [invitees |-> <<Inv("", "tono", "host"), Inv("u3", "", "agent")>>]}

FoldedDef == [A |-> "a", a |-> "a", b |-> "b", r |-> "r"] @@ ("1" :> "1") @@ ("2" :> "2")
               @@ ("-" :> "-") @@ (" " :> "-") @@ ("!" :> "-")
IdsDef      == {<<"1">>, <<"2">>}
ShortIdsDef == {<<"1">>, <<"a">>}
TextsDef ==
  {<<"a", "b">>, <<" ", "A", "!", " ", "b">>,
   <<"a", "b", "-", "b">>, <<"a", "b", "a", "b", " ", "a">>, <<"!">>}
MinutesDef  == -2..300   \* wraps three times
=============================================================================

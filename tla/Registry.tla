------------------------------ MODULE Registry ------------------------------
(***************************************************************************)
(* What the service promises about its meetings, with the handlers, the    *)
(* webhooks and LiveKit left out: a list of meetings, each with a room and *)
(* a status, and the list of the last save.  Whatever is in flight, each   *)
(* step is one legal change of the list, saved as a whole or not at all.   *)
(***************************************************************************)
EXTENDS Integers

CONSTANTS
  Rooms,         \* LiveKit room names
  MaxMeetings,   \* how many meetings are ever created
  PatchStatuses  \* statuses a PATCH may write

VARIABLES
  listed,  \* id -> room and status, as the API answers
  kept,    \* the same, as a restart would find it
  issued   \* how many ids were given

Init == DOMAIN listed = {} /\ DOMAIN kept = {} /\ issued = 0

\* The list becomes new; the save that goes with it may fail.
Becomes(new) == listed' = new /\ kept' \in {new, kept}

\* A fresh id, and a room that only ended meetings have had.
Create(room) ==
  /\ issued < MaxMeetings
  /\ \A i \in DOMAIN listed : listed[i].room = room => listed[i].status = "ended"
  /\ issued' = issued + 1
  /\ Becomes([i \in DOMAIN listed \cup {issued'} |->
                IF i = issued' THEN [room |-> room, status |-> "scheduled"] ELSE listed[i]])

\* Opened, ended or patched: the meeting is listed and keeps its room, the others
\* are untouched.
SetStatus(i, status) ==
  /\ Becomes([listed EXCEPT ![i].status = status])
  /\ UNCHANGED issued

Remove(i) ==
  /\ Becomes([j \in DOMAIN listed \ {i} |-> listed[j]])
  /\ UNCHANGED issued

\* A change of something else, saved with the whole list.
Save == kept' = listed /\ UNCHANGED <<listed, issued>>

Restart == listed' = kept /\ UNCHANGED <<kept, issued>>

Next ==
  \/ \E room \in Rooms : Create(room)
  \/ \E i \in DOMAIN listed :
       \/ Remove(i)
       \/ \E status \in {"live", "ended"} \cup PatchStatuses : SetStatus(i, status)
  \/ Save
  \/ Restart

Spec == Init /\ [][Next]_<<listed, kept, issued>>
=============================================================================

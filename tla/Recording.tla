------------------------------ MODULE Recording ------------------------------
(***************************************************************************)
(* internal/service/service.go, egress: recordings and streams of the      *)
(* meetings that use one room.  Start and stop requests call the LiveKit   *)
(* server and write the reply down in a second step; ending a meeting      *)
(* stops its egresses and writes nothing about them; webhooks report what  *)
(* became of an egress and are matched to a meeting by the room's name.    *)
(***************************************************************************)
EXTENDS Integers, Sequences, FiniteSets

CONSTANTS
  MaxMeetings,  \* bound of the model: meetings of the room
  MaxEgress,    \* bound of the model: egresses ever started
  Requests,     \* HTTP requests that start or stop an egress or end a meeting
  Finals,       \* how LiveKit may report that an egress is over
  RoomFields,   \* whether an egress webhook names its room
  AttachFirst   \* assumption: no webhook overtakes the reply that started it

ASSUME BoundsAssumption ==
  /\ MaxMeetings \in Nat /\ MaxEgress \in Nat
  /\ RoomFields \subseteq BOOLEAN /\ AttachFirst \in BOOLEAN

Meetings  == 1..MaxMeetings   \* in the order of the store
Egresses  == 1..MaxEgress
NoMeeting == 0
NoEgress  == 0

Active   == {"STARTING", "ACTIVE"}
Statuses == Active \cup {"ENDING"} \cup Finals
\* The statuses at which updateRecording stamps the end.
EndStatuses == {"COMPLETE", "FAILED", "ABORTED"}

ASSUME FinalsAssumption == Finals \cap Active = {}

\* domain.Recording; ended is EndedAt # nil.
Entry == [egress : Egresses, status : Statuses, ended : BOOLEAN]

VARIABLES
  created,   \* how many meetings the store holds
  open,      \* those that have not ended
  recs,      \* Meeting.Recordings of each meeting
  started,   \* how many egresses LiveKit ever started
  egress,    \* their status at LiveKit
  hooks,     \* their webhooks on the way, in order
  pc,        \* where each request is
  mine,      \* the meeting of the request
  targets,   \* the egresses it still has to stop
  at,        \* the egress whose reply it has
  asked      \* the egresses it was to stop (history)

server == <<started, egress, hooks>>
store  == <<created, open, recs>>
locals == <<pc, mine, targets, at, asked>>
vars   == <<store, server, locals>>

TypeOK ==
  /\ created \in 0..MaxMeetings /\ open \subseteq 1..created
  /\ recs \in [Meetings -> Seq(Entry)]
  /\ started \in 0..MaxEgress
  /\ egress \in [1..started -> Statuses]
  /\ hooks \in [1..started -> Seq(Statuses)]
  /\ pc \in [Requests -> {"idle", "starting", "attaching", "listing", "stopping", "replied",
                         "surveying", "sweeping"}]
  /\ mine \in [Requests -> Meetings \cup {NoMeeting}]
  /\ targets \in [Requests -> SUBSET Egresses] /\ asked \in [Requests -> SUBSET Egresses]
  /\ at \in [Requests -> Egresses \cup {NoEgress}]

Init ==
  /\ created = 0 /\ open = {} /\ recs = [m \in Meetings |-> << >>]
  /\ started = 0 /\ egress = << >> /\ hooks = << >>
  /\ pc = [r \in Requests |-> "idle"]
  /\ mine = [r \in Requests |-> NoMeeting]
  /\ targets = [r \in Requests |-> {}] /\ asked = [r \in Requests |-> {}]
  /\ at = [r \in Requests |-> NoEgress]

Goto(r, from, to) == pc[r] = from /\ pc' = [pc EXCEPT ![r] = to]

Return(r, from) ==
  /\ Goto(r, from, "idle")
  /\ mine' = [mine EXCEPT ![r] = NoMeeting]
  /\ targets' = [targets EXCEPT ![r] = {}] /\ asked' = [asked EXCEPT ![r] = {}]
  /\ at' = [at EXCEPT ![r] = NoEgress]

-----------------------------------------------------------------------------
(* The meetings of the room; Lifecycle has the whole story.  A meeting that has     *)
(* ended becomes active again when it is started or joined once more, by a late     *)
(* write or room_started, and by a PATCH.                                           *)

CreateMeeting ==
  /\ created < MaxMeetings /\ open = {}
  /\ created' = created + 1 /\ open' = {created'}
  /\ UNCHANGED <<recs, server, locals>>

\* room_finished, DeleteRoom or PATCH; End is below.
MeetingEnds(m) ==
  /\ m \in open /\ open' = open \ {m}
  /\ UNCHANGED <<created, recs, server, locals>>

MeetingRevived(m) ==
  /\ m \in 1..created /\ open' = open \cup {m}
  /\ UNCHANGED <<created, recs, server, locals>>

\* indexByRoom: the first meeting that has not ended, or the first of all.
FoundByRoom ==
  LET first(S) == CHOOSE m \in S : \A k \in S : m <= k
  IN  IF open # {} THEN first(open) ELSE IF created > 0 THEN 1 ELSE NoMeeting

-----------------------------------------------------------------------------
(* Entries. *)

\* attachRecording.
Attached(list, e) == Append(list, [egress |-> e, status |-> "STARTING", ended |-> FALSE])

UpdatedOrAdded(list, e, status) ==  \* mutant: an unknown egress gets an entry
  IF \E i \in DOMAIN list : list[i].egress = e
  THEN [i \in DOMAIN list |->
          IF list[i].egress = e
          THEN [list[i] EXCEPT !.status = status, !.ended = @ \/ status \in EndStatuses]
          ELSE list[i]]
  ELSE Append(list, [egress |-> e, status |-> status, ended |-> status \in EndStatuses])
UpdatedCompleteOnly(list, e, status) ==  \* mutant: FAILED is not the end
  [i \in DOMAIN list |->
     IF list[i].egress = e
     THEN [list[i] EXCEPT !.status = status, !.ended = @ \/ status = "COMPLETE"]
     ELSE list[i]]
\* updateRecording: the entry of the egress, if the meeting has one.
Updated(list, e, status) ==
  [i \in DOMAIN list |->
     IF list[i].egress = e
     THEN [list[i] EXCEPT !.status = status, !.ended = @ \/ status \in EndStatuses]
     ELSE list[i]]

-----------------------------------------------------------------------------
(* Requests. *)

\* StartRecord and StartStream, up to the call; the status of the meeting does
\* not matter.
BeginStart(r, m) ==
  /\ Goto(r, "idle", "starting")
  /\ m \in 1..created /\ mine' = [mine EXCEPT ![r] = m]
  /\ UNCHANGED <<store, server, targets, at, asked>>

\* LiveKit starts the egress; the reply may be lost, or the start refused.
StartEgress ==
  /\ started < MaxEgress /\ started' = started + 1
  /\ egress' = Append(egress, "STARTING")
  /\ hooks' = Append(hooks, <<"STARTING">>)

StartRpcUnchecked(r) ==  \* mutant: an error of the start is not looked at
  /\ Goto(r, "starting", "attaching") /\ UNCHANGED <<mine, targets, asked>>
  /\ \/ StartEgress /\ at' = [at EXCEPT ![r] = started']
     \/ UNCHANGED server /\ at' = [at EXCEPT ![r] = NoEgress]
  /\ UNCHANGED store
StartRpc(r) ==
  /\ \/ StartEgress /\ Goto(r, "starting", "attaching")
        /\ at' = [at EXCEPT ![r] = started'] /\ UNCHANGED <<mine, targets, asked>>
     \/ (StartEgress \/ UNCHANGED server) /\ Return(r, "starting")
  /\ UNCHANGED store

Attach(r) ==
  /\ Return(r, "attaching")
  /\ recs' = [recs EXCEPT ![mine[r]] = Attached(@, at[r])]
  /\ UNCHANGED <<created, open, server>>

\* StopEgress of one egress by its id, or of all of the room.
BeginStop(r, m) ==
  /\ m \in 1..created /\ mine' = [mine EXCEPT ![r] = m]
  /\ \/ Goto(r, "idle", "listing") /\ UNCHANGED <<targets, asked>>
     \/ /\ Goto(r, "idle", "stopping")
        /\ \E e \in 1..started : /\ targets' = [targets EXCEPT ![r] = {e}]
                                 /\ asked' = [asked EXCEPT ![r] = {e}]
  /\ UNCHANGED <<store, server, at>>

\* ListEgress(room, active only), or its error.
ListRpc(r) ==
  /\ LET running == {e \in 1..started : egress[e] \in Active}
     IN  IF running = {} THEN Return(r, "listing")
         ELSE \/ Return(r, "listing")
              \/ /\ Goto(r, "listing", "stopping")
                 /\ targets' = [targets EXCEPT ![r] = running]
                 /\ asked' = [asked EXCEPT ![r] = running]
                 /\ UNCHANGED <<mine, at>>
  /\ UNCHANGED <<store, server>>

Report(e, status) ==
  /\ egress' = [egress EXCEPT ![e] = status]
  /\ hooks' = [hooks EXCEPT ![e] = Append(@, status)]
  /\ UNCHANGED started

StopRpcGoingOn(r) ==  \* mutant: an error does not end the loop
  /\ \E e \in targets[r] :
       \/ /\ egress[e] \in Active /\ Report(e, "ENDING")
          /\ Goto(r, "stopping", "replied")
          /\ at' = [at EXCEPT ![r] = e] /\ UNCHANGED <<mine, targets, asked>>
       \/ Goto(r, "stopping", "replied")
          /\ at' = [at EXCEPT ![r] = e] /\ UNCHANGED <<server, mine, targets, asked>>
  /\ UNCHANGED store
\* LiveKit ends a running egress; an error, also one after the fact, leaves the
\* remaining targets alone.
StopRpc(r) ==
  /\ \E e \in targets[r] :
       \/ /\ egress[e] \in Active /\ Report(e, "ENDING")
          /\ \/ /\ Goto(r, "stopping", "replied")
                /\ at' = [at EXCEPT ![r] = e] /\ UNCHANGED <<mine, targets, asked>>
             \/ Return(r, "stopping")
       \/ Return(r, "stopping") /\ UNCHANGED server
  /\ UNCHANGED store

\* updateRecording with the reply, whatever webhooks have written since.
WriteReply(r) ==
  /\ pc[r] = "replied"
  /\ recs' = [recs EXCEPT ![mine[r]] = Updated(@, at[r], "ENDING")]
  /\ IF targets[r] = {at[r]} THEN Return(r, "replied")
     ELSE /\ Goto(r, "replied", "stopping")
          /\ targets' = [targets EXCEPT ![r] = @ \ {at[r]}]
          /\ UNCHANGED <<mine, at, asked>>
  /\ UNCHANGED <<created, open, server>>

-----------------------------------------------------------------------------
(* End: lists and stops what runs in the room and goes on whatever comes back. *)

BeginEnd(r, m) ==
  /\ Goto(r, "idle", "surveying")
  /\ m \in 1..created /\ mine' = [mine EXCEPT ![r] = m]
  /\ UNCHANGED <<store, server, targets, at, asked>>

EndList(r) ==
  /\ Goto(r, "surveying", "sweeping")
  /\ \E found \in {{e \in 1..started : egress[e] \in Active}, {}} :
       targets' = [targets EXCEPT ![r] = found]
  /\ UNCHANGED <<store, server, mine, at, asked>>

\* The reply, or the error, is dropped: no updateRecording.
EndStop(r) ==
  /\ pc[r] = "sweeping"
  /\ \E e \in targets[r] :
       /\ targets' = [targets EXCEPT ![r] = @ \ {e}]
       /\ (egress[e] \in Active /\ Report(e, "ENDING")) \/ UNCHANGED server
  /\ UNCHANGED <<store, pc, mine, at, asked>>

\* After DeleteRoom, whose effect on egresses is EgressEnds.
EndWrite(r) ==
  /\ targets[r] = {} /\ Return(r, "sweeping")
  /\ open' = open \ {mine[r]}
  /\ UNCHANGED <<created, recs, server>>

-----------------------------------------------------------------------------
(* Webhooks and the LiveKit server. *)

\* HandleWebhook of egress_started, egress_updated and egress_ended. Looking
\* the meeting up and updating it are one step here: what it is looked up for,
\* its id, does not change in between.
HandleWebhook(e) ==
  /\ hooks[e] # << >> /\ hooks' = [hooks EXCEPT ![e] = Tail(@)]
  /\ AttachFirst => \A r \in Requests : ~(pc[r] = "attaching" /\ at[r] = e)
  /\ \E named \in RoomFields :
       recs' = IF named /\ FoundByRoom # NoMeeting
               THEN [recs EXCEPT ![FoundByRoom] = Updated(@, e, Head(hooks[e]))]
               ELSE recs
  /\ UNCHANGED <<created, open, started, egress, locals>>

EgressRuns(e) == egress[e] = "STARTING" /\ Report(e, "ACTIVE") /\ UNCHANGED <<store, locals>>

EgressEnds(e) ==
  /\ egress[e] \notin Finals
  /\ \E f \in Finals : Report(e, f)
  /\ UNCHANGED <<store, locals>>

Next ==
  \/ CreateMeeting
  \/ \E m \in Meetings :
       \/ MeetingEnds(m) \/ MeetingRevived(m)
       \/ \E r \in Requests : BeginStart(r, m) \/ BeginStop(r, m) \/ BeginEnd(r, m)
  \/ \E r \in Requests : \/ StartRpc(r) \/ Attach(r) \/ ListRpc(r) \/ StopRpc(r)
                         \/ WriteReply(r) \/ EndList(r) \/ EndStop(r) \/ EndWrite(r)
  \/ \E e \in 1..started : HandleWebhook(e) \/ EgressRuns(e) \/ EgressEnds(e)

Spec == Init /\ [][Next]_vars

-----------------------------------------------------------------------------
\* service.go:744-785: an egress has at most one entry, in one meeting, however
\* replies and webhooks interleave.
Places(e) == {p \in UNION {{m} \X DOMAIN recs[m] : m \in Meetings} : recs[p[1]][p[2]].egress = e}
OneEntryPerEgress == \A e \in 1..started : Cardinality(Places(e)) <= 1

\* service.go:573-602: a stop request that returns without an error has
\* stopped every egress it was asked to stop.
StopStopsAll ==
  [][\A r \in Requests : pc[r] = "replied" /\ pc'[r] = "idle" =>
       \A e \in asked[r] : egress[e] \notin Active]_vars

\* service.go:672 and 698-706, the state follows the events of the LiveKit
\* server: when every request and every webhook is through and every egress is
\* over, every recording has its end.
Quiet ==
  /\ \A r \in Requests : pc[r] = "idle"
  /\ \A e \in 1..started : hooks[e] = << >> /\ egress[e] \in Finals
RecordingsSettle ==
  Quiet => \A m \in Meetings : \A i \in DOMAIN recs[m] : recs[m][i].ended
=============================================================================

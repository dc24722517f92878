-------------------------- MODULE LifecycleProofs --------------------------
(* Theorems about Lifecycle for any rooms, requests, operations and faults.  *)
EXTENDS Lifecycle, TLAPS

-----------------------------------------------------------------------------
(* Types. *)

\* A snapshot is a function from some ids to meetings.
LEMMA SnapshotForm ==
  ASSUME NEW S
  PROVE  S \in Snapshots <=> DOMAIN S \in SUBSET Ids /\ S \in [DOMAIN S -> Meeting]
BY DEF Snapshots

\* The store operations keep the types: rewriting one meeting, saving or not.
LEMMA CommitType ==
  ASSUME TypeOK, NEW S \in Snapshots, NEW ok, Commit(S, ok)
  PROVE  meetings' \in Snapshots /\ disk' \in Snapshots /\ endedOnce' \in SUBSET Ids
BY SnapshotForm DEF Commit, TypeOK, Ended

LEMMA RewriteType ==
  ASSUME TypeOK, NEW i \in DOMAIN meetings, NEW m \in Meeting
  PROVE  [meetings EXCEPT ![i] = m] \in Snapshots
BY SnapshotForm DEF TypeOK

\* A meeting of the store, live or ended, is a meeting.
LEMMA MarkType ==
  ASSUME NEW m \in Meeting
  PROVE  /\ MarkLive(m) \in Meeting
         /\ MarkEnded(m) \in Meeting
         /\ [MarkLive(m) EXCEPT !.stopped = FALSE] \in Meeting
         /\ [MarkEnded(m) EXCEPT !.num = 0] \in Meeting
         /\ \A n \in 0..MaxParticipants : [m EXCEPT !.num = n] \in Meeting
         /\ \A s \in Statuses : [m EXCEPT !.status = s] \in Meeting
<1>1. 0 \in 0..MaxParticipants BY BoundsAssumption DEF BoundsAssumption
<1>2. MarkLive(m) \in Meeting /\ MarkEnded(m) \in Meeting
  BY DEF MarkLive, MarkEnded, Meeting, Statuses
<1>3. \A n \in 0..MaxParticipants, k \in Meeting :
        [k EXCEPT !.num = n] \in Meeting /\ [k EXCEPT !.stopped = FALSE] \in Meeting
  BY DEF Meeting
<1>4. \A s \in Statuses : [m EXCEPT !.status = s] \in Meeting
  BY DEF Meeting
<1> QED BY <1>1, <1>2, <1>3, <1>4

LEMMA EmitType ==
  ASSUME TypeOK, NEW room \in Rooms, NEW events \in Seq(Hook), Emit(room, events)
  PROVE  hooks' \in [Rooms -> Seq(Hook)]
BY DEF Emit, TypeOK

LEMMA OpenRoomType ==
  ASSUME TypeOK, NEW room \in Rooms, OpenRoom(room)
  PROVE  /\ up' \in SUBSET Rooms /\ inRoom' \in [Rooms -> 0..MaxParticipants]
         /\ hooks' \in [Rooms -> Seq(Hook)]
<1> DEFINE started == <<[event |-> "room_started", num |-> 0]>>
<1>1. started \in Seq(Hook)
  BY BoundsAssumption DEF BoundsAssumption, Hook, HookEvents
<1>2. hooks' \in [Rooms -> Seq(Hook)]
  <2>1. CASE room \in up
    BY <2>1 DEF OpenRoom, TypeOK
  <2>2. CASE room \notin up
    <3>1. Emit(room, started) BY <2>2 DEF OpenRoom
    <3> QED BY <3>1, <1>1, EmitType
  <2> QED BY <2>1, <2>2
<1> QED BY <1>2 DEF OpenRoom, TypeOK

LEMMA DeparturesType ==
  ASSUME NEW n \in 0..MaxParticipants
  PROVE  Departures(n) \in Seq(Hook)
<1> DEFINE left == [k \in 1..n |-> [event |-> "participants", num |-> n - k]]
           last == <<[event |-> "room_finished", num |-> 0]>>
<1>1. \A k \in 1..n : [event |-> "participants", num |-> n - k] \in Hook
  BY BoundsAssumption DEF BoundsAssumption, Hook, HookEvents
<1>2. left \in Seq(Hook) BY <1>1, BoundsAssumption DEF BoundsAssumption
<1>3. last \in Seq(Hook)
  BY BoundsAssumption DEF BoundsAssumption, Hook, HookEvents
<1>4. left \o last \in Seq(Hook) BY <1>2, <1>3
<1> QED BY <1>4 DEF Departures

LEMMA CloseRoomType ==
  ASSUME TypeOK, NEW room \in Rooms, CloseRoom(room)
  PROVE  /\ up' \in SUBSET Rooms /\ inRoom' \in [Rooms -> 0..MaxParticipants]
         /\ hooks' \in [Rooms -> Seq(Hook)]
<1>1. CASE room \notin up
  BY <1>1 DEF CloseRoom, TypeOK, livekit
<1>2. CASE room \in up
  <2>1. inRoom[room] \in 0..MaxParticipants BY DEF TypeOK
  <2>2. Emit(room, Departures(inRoom[room])) BY <1>2 DEF CloseRoom
  <2>3. hooks' \in [Rooms -> Seq(Hook)] BY <2>1, <2>2, DeparturesType, EmitType
  <2>4. 0 \in 0..MaxParticipants BY BoundsAssumption DEF BoundsAssumption
  <2> QED BY <1>2, <2>3, <2>4 DEF CloseRoom, TypeOK
<1> QED BY <1>1, <1>2

\* A handler that begins, moves on or ends keeps the table of handlers typed.
LEMMA RequestType ==
  ASSUME TypeOK, NEW r \in Requests
  PROVE  /\ \A q \in Request : [req EXCEPT ![r] = q] \in [Requests -> Request \cup {NoRequest}]
         /\ Finish(r) => req' \in [Requests -> Request \cup {NoRequest}]
         /\ req[r] # NoRequest =>
              /\ req[r] \in Request
              /\ [req[r] EXCEPT !.step = "write"] \in Request
              /\ req[r].room \in Rooms
              /\ req[r].id \in Ids \cup {0}
<1>1. req[r] # NoRequest => req[r] \in Request BY DEF TypeOK
<1>2. \A q \in Request : /\ [q EXCEPT !.step = "write"] \in Request
                         /\ q.room \in Rooms /\ q.id \in Ids \cup {0}
  BY DEF Request
<1> QED BY <1>1, <1>2 DEF TypeOK, Finish

LEMMA AtRequest ==
  ASSUME TypeOK, NEW r \in Requests, NEW ops, NEW step \in {"rpc", "write"},
         At(r, ops, step)
  PROVE  req[r] # NoRequest /\ req[r] \in Request
BY DEF At, TypeOK, NoRequest

\* RemoveAt cuts one webhook out.
LEMMA RemoveAtType ==
  ASSUME NEW q \in Seq(Hook), NEW k \in DOMAIN q
  PROVE  RemoveAt(q, k) \in Seq(Hook)
<1>1. k \in 1..Len(q) /\ Len(q) \in Nat OBVIOUS
<1>2. SubSeq(q, 1, k - 1) \in Seq(Hook) BY <1>1
<1>3. SubSeq(q, k + 1, Len(q)) \in Seq(Hook) BY <1>1
<1> QED BY <1>2, <1>3 DEF RemoveAt

\* UpdateMeetingByRoom keeps the types if the mutation does.
LEMMA UpdateByRoomType ==
  ASSUME TypeOK, NEW room \in Rooms, NEW ok,
         \E i \in InRoom(meetings, room) : \E m \in Meeting :
           Commit([meetings EXCEPT ![i] = m], ok)
  PROVE  meetings' \in Snapshots /\ disk' \in Snapshots /\ endedOnce' \in SUBSET Ids
<1>1. PICK i \in DOMAIN meetings, m \in Meeting :
        Commit([meetings EXCEPT ![i] = m], ok)
  BY DEF InRoom
<1>2. [meetings EXCEPT ![i] = m] \in Snapshots BY RewriteType
<1> QED BY <1>1, <1>2, CommitType

LEMMA MeetingsAreMeetings ==
  ASSUME TypeOK, NEW i \in DOMAIN meetings
  PROVE  i \in Ids /\ meetings[i] \in Meeting
BY SnapshotForm DEF TypeOK

LEMMA BeginType ==
  ASSUME TypeOK, NEW r \in Requests, NEW op, NEW step \in {"rpc", "write"},
         NEW i \in DOMAIN meetings, Begin(r, op, step, i)
  PROVE  TypeOK'
<1>1. i \in Ids /\ meetings[i].room \in Rooms
  BY MeetingsAreMeetings DEF Meeting
<1>2. [op |-> op, step |-> step, id |-> i, room |-> meetings[i].room,
       wasLive |-> meetings[i].status = "live", num |-> 0] \in Request
  BY <1>1, BoundsAssumption, ChoicesAssumption
  DEF BoundsAssumption, ChoicesAssumption, Begin, Request
<1>3. req' \in [Requests -> Request \cup {NoRequest}]
  BY <1>2, RequestType DEF Begin
<1> QED BY <1>3 DEF Begin, TypeOK, store, livekit, history

LEMMA CreateMeetingType ==
  ASSUME TypeOK, NEW room \in Rooms, NEW ok \in BOOLEAN, CreateMeeting(room, ok)
  PROVE  TypeOK'
<1> DEFINE S == [i \in DOMAIN meetings \cup {nextId} |->
                   IF i = nextId THEN NewMeeting(room) ELSE meetings[i]]
<1>1. nextId \in Ids /\ nextId + 1 \in 1..(MaxMeetings + 1)
  BY BoundsAssumption DEF BoundsAssumption, CreateMeeting, TypeOK, Ids
<1>2. NewMeeting(room) \in Meeting
  BY BoundsAssumption DEF BoundsAssumption, NewMeeting, Meeting, Statuses
<1>3. S \in Snapshots
  BY <1>1, <1>2, MeetingsAreMeetings, SnapshotForm DEF TypeOK
<1>4. meetings' \in Snapshots /\ disk' \in Snapshots /\ endedOnce' \in SUBSET Ids
  BY <1>3, CommitType DEF CreateMeeting
<1> QED BY <1>1, <1>4 DEF CreateMeeting, TypeOK, livekit

LEMMA DeleteWriteType ==
  ASSUME TypeOK, NEW r \in Requests, NEW ok \in BOOLEAN, DeleteWrite(r, ok)
  PROVE  TypeOK'
<1> DEFINE i == req[r].id
           S == [j \in DOMAIN meetings \ {i} |-> meetings[j]]
<1>1. Finish(r) /\ req' \in [Requests -> Request \cup {NoRequest}]
  BY RequestType DEF DeleteWrite
<1>2. S \in Snapshots
  BY MeetingsAreMeetings, SnapshotForm DEF TypeOK
<1>3. CASE i \notin DOMAIN meetings
  BY <1>1, <1>3 DEF DeleteWrite, TypeOK, store, livekit
<1>4. CASE i \in DOMAIN meetings
  <2>1. meetings' \in Snapshots /\ disk' \in Snapshots /\ endedOnce' \in SUBSET Ids
    BY <1>2, <1>4, CommitType DEF DeleteWrite
  <2>2. i \in Ids BY <1>4, MeetingsAreMeetings
  <2>3. removed' \in SUBSET Ids /\ deleted' \in SUBSET Ids
    BY <2>2, <1>4 DEF DeleteWrite, TypeOK
  <2> QED BY <1>1, <2>1, <2>3 DEF DeleteWrite, TypeOK, livekit
<1> QED BY <1>3, <1>4

\* The writes of join, start and end: the store keeps its types.
LEMMA UpdateAtType ==
  ASSUME TypeOK, NEW i, NEW m, NEW ok, UpdateAt(i, m, ok),
         i \in DOMAIN meetings => m \in Meeting
  PROVE  meetings' \in Snapshots /\ disk' \in Snapshots /\ endedOnce' \in SUBSET Ids
<1>1. CASE i \in DOMAIN meetings
  BY <1>1, RewriteType, CommitType DEF UpdateAt
<1>2. CASE i \notin DOMAIN meetings
  BY <1>2 DEF UpdateAt, store, TypeOK
<1> QED BY <1>1, <1>2

LEMMA JoinWriteType ==
  ASSUME TypeOK, NEW r \in Requests, NEW ok, JoinWrite(r, ok)
  PROVE  TypeOK'
<1> DEFINE i == req[r].id
           S == IF req[r].wasLive \/ i \notin DOMAIN meetings THEN meetings
                ELSE [meetings EXCEPT ![i] = MarkLive(@)]
<1>1. req[r] # NoRequest BY AtRequest DEF JoinWrite
<1>2. req' \in [Requests -> Request \cup {NoRequest}]
  BY RequestType DEF JoinWrite
<1>3. tokens' \in SUBSET Rooms BY <1>1, RequestType DEF JoinWrite, TypeOK
<1>4. S \in Snapshots
  <2>1. CASE req[r].wasLive \/ i \notin DOMAIN meetings BY <2>1 DEF TypeOK
  <2>2. CASE ~(req[r].wasLive \/ i \notin DOMAIN meetings)
    <3>1. MarkLive(meetings[i]) \in Meeting
      BY <2>2, MeetingsAreMeetings, MarkType
    <3> QED BY <2>2, <3>1, RewriteType
  <2> QED BY <2>1, <2>2
<1>5. meetings' \in Snapshots /\ disk' \in Snapshots /\ endedOnce' \in SUBSET Ids
  BY <1>4, CommitType DEF JoinWrite
<1> QED BY <1>2, <1>3, <1>5 DEF JoinWrite, TypeOK, livekit, history

LEMMA HookEffectType ==
  ASSUME NEW h \in Request, h.op \in HookEvents, NEW m \in Meeting
  PROVE  HookEffect(h, m) \in Meeting
<1>1. h.num \in 0..MaxParticipants BY DEF Request
<1>2. CASE h.op = "room_started" BY <1>2, MarkType DEF HookEffect
<1>3. CASE h.op = "room_finished" BY <1>3, MarkType DEF HookEffect
<1>4. CASE h.op = "participants" BY <1>1, <1>4, MarkType DEF HookEffect
<1> QED BY <1>2, <1>3, <1>4 DEF HookEvents

\* CloseRoomWrite and HandleWebhook: the meeting is found by room name.
LEMMA ByRoomWriteType ==
  ASSUME TypeOK, NEW r \in Requests, NEW ok, CloseRoomWrite(r, ok) \/ HandleWebhook(r, ok)
  PROVE  TypeOK'
<1> DEFINE room == req[r].room
           StoreTyped == /\ meetings' \in Snapshots /\ disk' \in Snapshots
                         /\ endedOnce' \in SUBSET Ids
<1>1. req[r] \in Request /\ room \in Rooms
  BY AtRequest, RequestType DEF CloseRoomWrite, HandleWebhook
<1>2. req' \in [Requests -> Request \cup {NoRequest}]
  BY RequestType DEF CloseRoomWrite, HandleWebhook
<1>3. \A i \in InRoom(meetings, room) : meetings[i] \in Meeting
  BY MeetingsAreMeetings DEF InRoom
<1>4. UNCHANGED store => StoreTyped
  BY DEF store, TypeOK
<1>5. ASSUME CloseRoomWrite(r, ok), ~UNCHANGED store PROVE StoreTyped
  <2>1. PICK i \in InRoom(meetings, room) :
          Commit([meetings EXCEPT ![i] = MarkEnded(meetings[i])], ok)
    BY <1>5 DEF CloseRoomWrite, UpdateByRoom
  <2>2. MarkEnded(meetings[i]) \in Meeting BY <1>3, MarkType
  <2> QED BY <1>1, <2>1, <2>2, UpdateByRoomType
<1>6. ASSUME HandleWebhook(r, ok), ~UNCHANGED store PROVE StoreTyped
  <2>1. PICK i \in InRoom(meetings, room) :
          Commit([meetings EXCEPT ![i] = HookEffect(req[r], meetings[i])], ok)
    BY <1>6 DEF HandleWebhook, UpdateByRoom
  <2>2. HookEffect(req[r], meetings[i]) \in Meeting
    BY <1>1, <1>3, <1>6, HookEffectType DEF HandleWebhook, At
  <2> QED BY <1>1, <2>1, <2>2, UpdateByRoomType
<1>7. StoreTyped
  BY <1>4, <1>5, <1>6
<1> QED BY <1>2, <1>7 DEF CloseRoomWrite, HandleWebhook, TypeOK, livekit, history

LEMMA DeliverType ==
  ASSUME TypeOK, NEW r \in Requests, NEW room \in Rooms,
         NEW k \in DOMAIN hooks[room], NEW again, NEW ok,
         DeliverWebhook(r, room, k, again, ok)
  PROVE  TypeOK'
<1>1. hooks[room] \in Seq(Hook) BY DEF TypeOK
<1>2. hooks[room][k] \in Hook BY <1>1
<1>3. hooks' \in [Rooms -> Seq(Hook)]
  BY <1>1, RemoveAtType DEF DeliverWebhook, TypeOK
<1>4. [op |-> hooks[room][k].event, step |-> "write", id |-> 0, room |-> room,
       wasLive |-> FALSE, num |-> hooks[room][k].num] \in Request
  BY <1>2 DEF Hook, Request
<1>5. req' \in [Requests -> Request \cup {NoRequest}]
  BY <1>4, RequestType DEF DeliverWebhook
<1>6. meetings' \in Snapshots /\ disk' \in Snapshots /\ endedOnce' \in SUBSET Ids
  <2>1. meetings \in Snapshots BY DEF TypeOK
  <2> QED BY <2>1, CommitType DEF DeliverWebhook
<1> QED BY <1>3, <1>5, <1>6 DEF DeliverWebhook, TypeOK, history

LEMMA InitType == Init => TypeOK
<1> SUFFICES ASSUME Init PROVE TypeOK
  OBVIOUS
<1>1. << >> \in Snapshots
  <2>1. DOMAIN << >> = {} OBVIOUS
  <2>2. << >> = [i \in {} |-> << >>[i]] BY <2>1
  <2>3. << >> \in [{} -> Meeting] BY <2>2
  <2> QED BY <2>1, <2>3, SnapshotForm
<1>2. 1 \in 1..(MaxMeetings + 1) /\ 0 \in 0..MaxParticipants
  BY BoundsAssumption DEF BoundsAssumption
<1>3. << >> \in Seq(Hook) OBVIOUS
<1> QED BY <1>1, <1>2, <1>3 DEF Init, TypeOK

\* No step of the service, of LiveKit or of its clients leaves the types.
LEMMA StepType == TypeOK /\ [Next]_vars => TypeOK'
<1> SUFFICES ASSUME TypeOK, [Next]_vars PROVE TypeOK'
  OBVIOUS
<1> USE ChoicesAssumption DEF ChoicesAssumption
<1>1. ASSUME NEW room \in Rooms, NEW ok \in SaveOutcomes, CreateMeeting(room, ok)
      PROVE  TypeOK'
  BY <1>1, CreateMeetingType
<1>2. ASSUME NEW i \in DOMAIN meetings, NEW s \in PatchStatuses,
             NEW ok \in SaveOutcomes, PatchStatus(i, s, ok)
      PROVE  TypeOK'
  <2>1. i \in Ids /\ [meetings[i] EXCEPT !.status = s] \in Meeting
    BY MeetingsAreMeetings, MarkType
  <2>2. Commit([meetings EXCEPT ![i] = [meetings[i] EXCEPT !.status = s]], ok)
    BY <1>2 DEF PatchStatus
  <2>3. meetings' \in Snapshots /\ disk' \in Snapshots /\ endedOnce' \in SUBSET Ids
    BY <2>1, <2>2, RewriteType, CommitType
  <2> QED BY <1>2, <2>1, <2>3 DEF PatchStatus, TypeOK, livekit
<1>3. ASSUME NEW r \in Requests, NEW i \in DOMAIN meetings,
             BeginJoin(r, i) \/ BeginStart(r, i) \/ BeginEnd(r, i) \/ BeginDelete(r, i)
      PROVE  TypeOK'
  BY <1>3, BeginType DEF BeginJoin, BeginStart, BeginEnd, BeginDelete
<1>4. ASSUME NEW r \in Requests, NEW room \in Rooms, BeginCloseRoom(r, room)
      PROVE  TypeOK'
  <2>1. [op |-> "closeRoom", step |-> "rpc", id |-> 0, room |-> room,
         wasLive |-> FALSE, num |-> 0] \in Request
    BY BoundsAssumption DEF BoundsAssumption, Request, ClientOps
  <2>2. req' \in [Requests -> Request \cup {NoRequest}]
    BY <1>4, <2>1, RequestType DEF BeginCloseRoom
  <2> QED BY <1>4, <2>2 DEF BeginCloseRoom, TypeOK, store, livekit, history
<1>5. ASSUME NEW r \in Requests, NEW o \in RpcOutcomes, CreateRoomRpc(r, o)
      PROVE  TypeOK'
  <2>1. req[r] # NoRequest /\ req[r].room \in Rooms
    BY <1>5, AtRequest, RequestType DEF CreateRoomRpc
  <2>2. req' \in [Requests -> Request \cup {NoRequest}]
    BY <1>5, <2>1, RequestType DEF CreateRoomRpc, Finish
  <2>3. UNCHANGED livekit \/ OpenRoom(req[r].room) BY <1>5 DEF CreateRoomRpc
  <2>4. /\ up' \in SUBSET Rooms /\ inRoom' \in [Rooms -> 0..MaxParticipants]
        /\ hooks' \in [Rooms -> Seq(Hook)]
    BY <2>1, <2>3, OpenRoomType DEF livekit, TypeOK
  <2> QED BY <1>5, <2>2, <2>4 DEF CreateRoomRpc, TypeOK, store, history
<1>6. ASSUME NEW r \in Requests, NEW o \in RpcOutcomes, DeleteRoomRpc(r, o)
      PROVE  TypeOK'
  <2>1. req[r] # NoRequest /\ req[r].room \in Rooms
    BY <1>6, AtRequest, RequestType DEF DeleteRoomRpc
  <2>2. req' \in [Requests -> Request \cup {NoRequest}]
    BY <1>6, <2>1, RequestType DEF DeleteRoomRpc, Finish
  <2>3. UNCHANGED livekit \/ CloseRoom(req[r].room) BY <1>6 DEF DeleteRoomRpc
  <2>4. /\ up' \in SUBSET Rooms /\ inRoom' \in [Rooms -> 0..MaxParticipants]
        /\ hooks' \in [Rooms -> Seq(Hook)]
    BY <2>1, <2>3, CloseRoomType DEF livekit, TypeOK
  <2> QED BY <1>6, <2>2, <2>4 DEF DeleteRoomRpc, TypeOK, store, history
<1>7. ASSUME NEW r \in Requests, NEW ok \in SaveOutcomes,
             JoinWrite(r, ok) \/ DeleteWrite(r, ok)
                 \/ CloseRoomWrite(r, ok) \/ HandleWebhook(r, ok)
      PROVE  TypeOK'
  BY <1>7, JoinWriteType, DeleteWriteType, ByRoomWriteType
<1>8. ASSUME NEW r \in Requests, NEW ok \in SaveOutcomes, StartWrite(r, ok)
      PROVE  TypeOK'
  <2>1. meetings' \in Snapshots /\ disk' \in Snapshots /\ endedOnce' \in SUBSET Ids
    BY <1>8, UpdateAtType, MeetingsAreMeetings, MarkType DEF StartWrite
  <2> QED BY <1>8, <2>1, RequestType DEF StartWrite, TypeOK, livekit, history
<1>9. ASSUME NEW r \in Requests, NEW ok \in SaveOutcomes, EndWrite(r, ok)
      PROVE  TypeOK'
  <2>1. meetings' \in Snapshots /\ disk' \in Snapshots /\ endedOnce' \in SUBSET Ids
    BY <1>9, UpdateAtType, MeetingsAreMeetings, MarkType DEF EndWrite
  <2> QED BY <1>9, <2>1, RequestType DEF EndWrite, TypeOK, livekit, history
<1>10. ASSUME NEW r \in Requests, Deliver(r) PROVE TypeOK'
  BY <1>10, DeliverType DEF Deliver
<1>11. ASSUME NEW room \in Rooms, ParticipantEnters(room) PROVE TypeOK'
  <2> DEFINE joined == [event |-> "participants", num |-> inRoom[room] + 1]
             started == [event |-> "room_started", num |-> 0]
  <2>1. inRoom[room] \in 0..MaxParticipants /\ inRoom[room] < MaxParticipants
    BY <1>11 DEF ParticipantEnters, TypeOK
  <2>2. joined \in Hook /\ started \in Hook
    BY <2>1, BoundsAssumption DEF BoundsAssumption, Hook, HookEvents
  <2>3. <<joined>> \in Seq(Hook) /\ <<started, joined>> \in Seq(Hook) BY <2>2
  <2>4. hooks' \in [Rooms -> Seq(Hook)]
    BY <1>11, <2>3, EmitType DEF ParticipantEnters
  <2>5. inRoom' \in [Rooms -> 0..MaxParticipants]
    BY <1>11, <2>1, BoundsAssumption DEF BoundsAssumption, ParticipantEnters, TypeOK
  <2> QED BY <1>11, <2>4, <2>5 DEF ParticipantEnters, TypeOK, store, history
<1>12. ASSUME NEW room \in Rooms, ParticipantLeaves(room) PROVE TypeOK'
  <2> DEFINE left == [event |-> "participants", num |-> inRoom[room] - 1]
  <2>1. inRoom[room] \in 0..MaxParticipants /\ inRoom[room] > 0
    BY <1>12 DEF ParticipantLeaves, TypeOK
  <2>2. <<left>> \in Seq(Hook)
    BY <2>1, BoundsAssumption DEF BoundsAssumption, Hook, HookEvents
  <2>3. hooks' \in [Rooms -> Seq(Hook)]
    BY <1>12, <2>2, EmitType DEF ParticipantLeaves
  <2>4. inRoom' \in [Rooms -> 0..MaxParticipants]
    BY <1>12, <2>1, BoundsAssumption DEF BoundsAssumption, ParticipantLeaves, TypeOK
  <2> QED BY <1>12, <2>3, <2>4 DEF ParticipantLeaves, TypeOK, store, history
<1>13. ASSUME NEW room \in Rooms, RoomIdle(room) PROVE TypeOK'
  BY <1>13, CloseRoomType DEF RoomIdle, TypeOK, store, history
<1>14. ASSUME NEW room \in Rooms, TokenExpires(room) \/ AdHocToken(room) PROVE TypeOK'
  BY <1>14 DEF TokenExpires, AdHocToken, TypeOK, store, livekit, history
<1>15. ASSUME NEW room \in Rooms, NEW k \in DOMAIN hooks[room], LoseWebhook(room, k)
       PROVE  TypeOK'
  BY <1>15, RemoveAtType DEF LoseWebhook, TypeOK, store, history
<1>16. ASSUME Crash PROVE TypeOK'
  BY <1>16 DEF Crash, TypeOK, livekit, history
<1>17. ASSUME UNCHANGED vars PROVE TypeOK'
  BY <1>17 DEF vars, TypeOK, store, livekit, history
<1>18. ASSUME NEW ok \in SaveOutcomes, DispatchAgent(ok) PROVE TypeOK'
  <2>1. meetings' \in Snapshots /\ disk' \in Snapshots /\ endedOnce' \in SUBSET Ids
    BY <1>18, CommitType DEF DispatchAgent, TypeOK
  <2> QED BY <1>18, <2>1 DEF DispatchAgent, TypeOK, livekit, history
<1> QED
  BY <1>1, <1>2, <1>3, <1>4, <1>5, <1>6, <1>7, <1>8, <1>9, <1>10, <1>11, <1>12,
     <1>13, <1>14, <1>15, <1>16, <1>17, <1>18
  DEF Next, StoreOnly, BeginOn, Rpc, Write, Environment

\* Every variable keeps its type, whatever requests, faults and webhooks come.
THEOREM TypeInvariance == Spec => []TypeOK
<1>1. Init => TypeOK BY InitType
<1>2. TypeOK /\ [Next]_vars => TypeOK' BY StepType
<1> QED BY <1>1, <1>2, PTL DEF Spec

-----------------------------------------------------------------------------
(* What the store keeps, whatever the handlers do. *)

\* Meetings changed in place: same ids, same rooms, perhaps saved.
MeetingsRewritten ==
  /\ DOMAIN meetings' = DOMAIN meetings
  /\ \A i \in DOMAIN meetings : meetings'[i].room = meetings[i].room
  /\ disk' \in {meetings', disk}
  /\ endedOnce' = endedOnce \cup Ended(meetings')
  /\ UNCHANGED <<nextId, created, removed, deleted>>

StoreUntouched == UNCHANGED <<store, nextId, created, removed, deleted>>

LEMMA RewriteInPlace ==
  ASSUME TypeOK, NEW i \in DOMAIN meetings, NEW m, NEW ok,
         m.room = meetings[i].room,
         Commit([meetings EXCEPT ![i] = m], ok),
         UNCHANGED <<nextId, created, removed, deleted>>
  PROVE  MeetingsRewritten
<1> DEFINE S == [meetings EXCEPT ![i] = m]
<1>1. meetings \in [DOMAIN meetings -> Meeting] BY SnapshotForm DEF TypeOK
<1>2. DOMAIN S = DOMAIN meetings /\ \A j \in DOMAIN meetings : S[j].room = meetings[j].room
  BY <1>1
<1> QED BY <1>2 DEF Commit, MeetingsRewritten

LEMMA MarkKeepsRoom ==
  ASSUME NEW m \in Meeting
  PROVE  /\ MarkLive(m).room = m.room
         /\ MarkEnded(m).room = m.room
         /\ [MarkLive(m) EXCEPT !.stopped = FALSE].room = m.room
         /\ [MarkEnded(m) EXCEPT !.num = 0].room = m.room
         /\ \A h \in Request : h.op \in HookEvents => HookEffect(h, m).room = m.room
<1>1. /\ MarkLive(m).room = m.room /\ MarkEnded(m).room = m.room
      /\ MarkLive(m) \in Meeting /\ MarkEnded(m) \in Meeting
  BY MarkType DEF MarkLive, MarkEnded, Meeting
<1>2. \A k \in Meeting : \A n : /\ [k EXCEPT !.stopped = FALSE].room = k.room
                              /\ [k EXCEPT !.num = n].room = k.room
  BY DEF Meeting
<1>3. ASSUME NEW h \in Request, h.op \in HookEvents
      PROVE  HookEffect(h, m).room = m.room
  <2>1. CASE h.op = "room_started" BY <1>1, <2>1 DEF HookEffect
  <2>2. CASE h.op = "room_finished" BY <1>1, <1>2, <2>2 DEF HookEffect
  <2>3. CASE h.op = "participants" BY <1>2, <2>3 DEF HookEffect
  <2> QED BY <1>3, <2>1, <2>2, <2>3 DEF HookEvents
<1> QED BY <1>1, <1>2, <1>3

LEMMA UpdateAtStep ==
  ASSUME TypeOK, NEW i, NEW m, NEW ok, UpdateAt(i, m, ok),
         i \in DOMAIN meetings => m.room = meetings[i].room,
         UNCHANGED <<nextId, created, removed, deleted>>
  PROVE  MeetingsRewritten \/ StoreUntouched
BY RewriteInPlace DEF UpdateAt, StoreUntouched

\* The store changes in five ways only.
LEMMA StoreStep ==
  ASSUME TypeOK, [Next]_vars
  PROVE  \/ MeetingsRewritten
         \/ StoreUntouched
         \/ \E room \in Rooms, ok \in BOOLEAN : CreateMeeting(room, ok)
         \/ \E r \in Requests, ok \in BOOLEAN : DeleteWrite(r, ok)
         \/ Crash
<1> DEFINE Goal == MeetingsRewritten \/ StoreUntouched
<1> USE ChoicesAssumption DEF ChoicesAssumption
<1>1. ASSUME NEW i \in DOMAIN meetings, NEW s \in PatchStatuses,
             NEW ok \in SaveOutcomes, PatchStatus(i, s, ok)
      PROVE  Goal
  <2>1. [meetings[i] EXCEPT !.status = s].room = meetings[i].room
    BY MeetingsAreMeetings DEF Meeting
  <2>2. Commit([meetings EXCEPT ![i] = [meetings[i] EXCEPT !.status = s]], ok)
    BY <1>1 DEF PatchStatus
  <2> QED BY <1>1, <2>1, <2>2, RewriteInPlace DEF PatchStatus
<1>2. ASSUME NEW r \in Requests, NEW ok \in SaveOutcomes, JoinWrite(r, ok) PROVE Goal
  <2> DEFINE i == req[r].id
  <2>0. UNCHANGED <<nextId, created, removed, deleted>>
    BY <1>2 DEF JoinWrite, history
  <2>1. CASE req[r].wasLive \/ i \notin DOMAIN meetings
    <3>1. Commit(meetings, ok) BY <1>2, <2>1 DEF JoinWrite
    <3> QED BY <2>0, <3>1 DEF Commit, MeetingsRewritten
  <2>2. CASE ~(req[r].wasLive \/ i \notin DOMAIN meetings)
    <3>1. Commit([meetings EXCEPT ![i] = MarkLive(meetings[i])], ok)
      BY <1>2, <2>2 DEF JoinWrite
    <3>2. MarkLive(meetings[i]).room = meetings[i].room
      BY <2>2, MeetingsAreMeetings, MarkKeepsRoom
    <3> QED BY <2>0, <2>2, <3>1, <3>2, RewriteInPlace
  <2> QED BY <2>1, <2>2
<1>3. ASSUME NEW r \in Requests, NEW ok \in SaveOutcomes, StartWrite(r, ok) PROVE Goal
  BY <1>3, UpdateAtStep, MeetingsAreMeetings, MarkKeepsRoom DEF StartWrite, history
<1>4. ASSUME NEW r \in Requests, NEW ok \in SaveOutcomes, EndWrite(r, ok) PROVE Goal
  BY <1>4, UpdateAtStep, MeetingsAreMeetings, MarkKeepsRoom DEF EndWrite, history
<1>5. ASSUME NEW r \in Requests, NEW ok \in SaveOutcomes, CloseRoomWrite(r, ok) PROVE Goal
  <2>0. UNCHANGED <<nextId, created, removed, deleted>>
    BY <1>5 DEF CloseRoomWrite, history
  <2>1. CASE UNCHANGED store BY <2>0, <2>1 DEF StoreUntouched
  <2>2. CASE ~UNCHANGED store
    <3>1. PICK i \in DOMAIN meetings :
            Commit([meetings EXCEPT ![i] = MarkEnded(meetings[i])], ok)
      BY <1>5, <2>2 DEF CloseRoomWrite, UpdateByRoom, InRoom
    <3> QED BY <2>0, <3>1, MeetingsAreMeetings, MarkKeepsRoom, RewriteInPlace
  <2> QED BY <2>1, <2>2
<1>6. ASSUME NEW r \in Requests, NEW ok \in SaveOutcomes, HandleWebhook(r, ok) PROVE Goal
  <2>0. UNCHANGED <<nextId, created, removed, deleted>>
    BY <1>6 DEF HandleWebhook, history
  <2>1. req[r] \in Request /\ req[r].op \in HookEvents
    BY <1>6, AtRequest DEF HandleWebhook, At
  <2>2. CASE UNCHANGED store BY <2>0, <2>2 DEF StoreUntouched
  <2>3. CASE ~UNCHANGED store
    <3>1. PICK i \in DOMAIN meetings :
            Commit([meetings EXCEPT ![i] = HookEffect(req[r], meetings[i])], ok)
      BY <1>6, <2>3 DEF HandleWebhook, UpdateByRoom, InRoom
    <3>2. HookEffect(req[r], meetings[i]).room = meetings[i].room
      BY <2>1, MeetingsAreMeetings, MarkKeepsRoom
    <3> QED BY <2>0, <3>1, <3>2, RewriteInPlace
  <2> QED BY <2>2, <2>3
<1>7. ASSUME NEW r \in Requests, Deliver(r) PROVE Goal
  <2>1. PICK ok \in SaveOutcomes : Commit(meetings, ok)
    BY <1>7 DEF Deliver, DeliverWebhook
  <2> QED BY <1>7, <2>1
    DEF Deliver, DeliverWebhook, Commit, MeetingsRewritten, history
<1>8. ASSUME NEW r \in Requests, BeginOn(r) \/ Rpc(r) PROVE Goal
  BY <1>8 DEF BeginOn, BeginJoin, BeginStart, BeginEnd, BeginDelete, Begin,
              BeginCloseRoom, Rpc, CreateRoomRpc, DeleteRoomRpc, StoreUntouched, history
<1>9. ASSUME NEW room \in Rooms, Environment(room) PROVE Goal
  BY <1>9 DEF Environment, ParticipantEnters, ParticipantLeaves, RoomIdle,
              TokenExpires, AdHocToken, LoseWebhook, StoreUntouched, history
<1>10. ASSUME UNCHANGED vars PROVE Goal
  BY <1>10 DEF vars, store, history, StoreUntouched
<1>11. ASSUME NEW ok \in SaveOutcomes, DispatchAgent(ok) PROVE Goal
  BY <1>11 DEF DispatchAgent, Commit, MeetingsRewritten, history
<1> QED BY <1>1, <1>2, <1>3, <1>4, <1>5, <1>6, <1>7, <1>8, <1>9, <1>10, <1>11
  DEF Next, StoreOnly, Write

\* Ids are issued in order, and an ended meeting is remembered as such.
IdsIssued == \A i \in DOMAIN meetings \cup DOMAIN disk \cup deleted : i < nextId
EndedRemembered == Ended(meetings) \cup Ended(disk) \subseteq endedOnce

\* The inductive invariant.  The crash makes memory and disk trade places, so
\* each part speaks of both.
StoreInv ==
  /\ TypeOK
  /\ IdsIssued
  /\ EndedRemembered
  /\ RoomReusedOnlyAfterEnd
  /\ AckedCreateDurable
  /\ DeletedStaysDeleted

LEMMA InitStoreInv == Init => StoreInv
<1> SUFFICES ASSUME Init PROVE StoreInv
  OBVIOUS
<1>1. DOMAIN meetings = {} /\ DOMAIN disk = {}
  BY DEF Init
<1> QED BY <1>1, InitType
  DEF Init, StoreInv, IdsIssued, EndedRemembered, Ended, RoomReusedOnlyAfterEnd,
      AckedCreateDurable, DeletedStaysDeleted

LEMMA RewrittenStoreInv ==
  ASSUME StoreInv, TypeOK', MeetingsRewritten
  PROVE  StoreInv'
<1>1. DOMAIN disk' \in {DOMAIN meetings, DOMAIN disk}
  BY DEF MeetingsRewritten
<1>2. IdsIssued' /\ AckedCreateDurable' /\ DeletedStaysDeleted'
  BY <1>1 DEF StoreInv, MeetingsRewritten, IdsIssued, AckedCreateDurable,
              DeletedStaysDeleted
<1>3. EndedRemembered'
  BY DEF StoreInv, MeetingsRewritten, EndedRemembered
<1>4. RoomReusedOnlyAfterEnd'
  BY DEF StoreInv, MeetingsRewritten, RoomReusedOnlyAfterEnd
<1> QED BY <1>2, <1>3, <1>4 DEF StoreInv

LEMMA CreateStoreInv ==
  ASSUME StoreInv, TypeOK', NEW room \in Rooms, NEW ok \in BOOLEAN,
         CreateMeeting(room, ok)
  PROVE  StoreInv'
<1> DEFINE S == [i \in DOMAIN meetings \cup {nextId} |->
                   IF i = nextId THEN NewMeeting(room) ELSE meetings[i]]
<1>1. /\ meetings' = S /\ disk' \in {S, disk}
      /\ endedOnce \subseteq endedOnce'
      /\ UNCHANGED <<removed, deleted>>
  BY DEF CreateMeeting, Commit
<1>2. nextId \in Nat /\ nextId' = nextId + 1
      /\ \A i \in DOMAIN meetings \cup DOMAIN disk \cup deleted : i \in Nat /\ i < nextId
  BY SnapshotForm, BoundsAssumption
  DEF BoundsAssumption, CreateMeeting, StoreInv, TypeOK, IdsIssued, Ids
<1>3. IdsIssued' BY <1>1, <1>2 DEF IdsIssued
<1>4. Ended(S) \subseteq endedOnce
  BY DEF StoreInv, EndedRemembered, Ended, NewMeeting
<1>5. EndedRemembered'
  BY <1>1, <1>4 DEF StoreInv, EndedRemembered
<1>6. \A a, b \in DOMAIN S : a < b /\ S[a].room = S[b].room => a \in endedOnce
  <2> SUFFICES ASSUME NEW a \in DOMAIN S, NEW b \in DOMAIN S, a < b,
                      S[a].room = S[b].room
               PROVE  a \in endedOnce
    OBVIOUS
  <2>1. a # nextId /\ a \in DOMAIN meetings /\ S[a] = meetings[a]
    BY <1>2
  <2>2. CASE b = nextId
    <3>1. S[b].room = room BY <2>2 DEF NewMeeting
    <3>2. a \in InRoom(meetings, room) BY <2>1, <3>1 DEF InRoom
    <3> QED BY <3>2 DEF CreateMeeting, RoomFree, StoreInv, EndedRemembered
  <2>3. CASE b # nextId
    BY <2>1, <2>3 DEF StoreInv, RoomReusedOnlyAfterEnd
  <2> QED BY <2>2, <2>3
<1>7. RoomReusedOnlyAfterEnd'
  BY <1>1, <1>6 DEF StoreInv, RoomReusedOnlyAfterEnd
<1>8. AckedCreateDurable'
  <2>1. CASE ok
    BY <1>1, <2>1 DEF StoreInv, AckedCreateDurable, CreateMeeting, Commit
  <2>2. CASE ~ok
    BY <1>1, <2>2 DEF StoreInv, AckedCreateDurable, CreateMeeting, Commit
  <2> QED BY <2>1, <2>2
<1>9. DeletedStaysDeleted'
  BY <1>1, <1>2 DEF StoreInv, DeletedStaysDeleted
<1> QED BY <1>3, <1>5, <1>7, <1>8, <1>9 DEF StoreInv

LEMMA DeleteStoreInv ==
  ASSUME StoreInv, TypeOK', NEW r \in Requests, NEW ok \in BOOLEAN, DeleteWrite(r, ok)
  PROVE  StoreInv'
<1> DEFINE i == req[r].id
           S == [j \in DOMAIN meetings \ {i} |-> meetings[j]]
<1>1. UNCHANGED <<nextId, created>> BY DEF DeleteWrite
<1>2. CASE i \notin DOMAIN meetings
  <2>1. UNCHANGED <<meetings, disk, endedOnce, nextId, created, removed, deleted>>
    BY <1>1, <1>2 DEF DeleteWrite, store
  <2> QED BY <2>1
    DEF StoreInv, IdsIssued, EndedRemembered, RoomReusedOnlyAfterEnd,
        AckedCreateDurable, DeletedStaysDeleted, Ended
<1>3. CASE i \in DOMAIN meetings
  <2>1. /\ meetings' = S /\ disk' = IF ok THEN S ELSE disk
        /\ endedOnce \subseteq endedOnce'
        /\ removed' = removed \cup {i}
        /\ deleted' = IF ok THEN deleted \cup {i} ELSE deleted
    BY <1>3 DEF DeleteWrite, Commit
  <2>2. i < nextId BY <1>3 DEF StoreInv, IdsIssued
  <2>3. IdsIssued' BY <1>1, <2>1, <2>2 DEF StoreInv, IdsIssued
  <2>4. EndedRemembered' BY <2>1 DEF StoreInv, EndedRemembered, Ended
  <2>5. RoomReusedOnlyAfterEnd' BY <2>1 DEF StoreInv, RoomReusedOnlyAfterEnd
  <2>6. AckedCreateDurable' BY <1>1, <2>1 DEF StoreInv, AckedCreateDurable
  <2>7. DeletedStaysDeleted' BY <2>1 DEF StoreInv, DeletedStaysDeleted
  <2> QED BY <2>3, <2>4, <2>5, <2>6, <2>7 DEF StoreInv
<1> QED BY <1>2, <1>3

LEMMA StoreInvStep == StoreInv /\ [Next]_vars => StoreInv'
<1> SUFFICES ASSUME StoreInv, [Next]_vars PROVE StoreInv'
  OBVIOUS
<1>1. TypeOK /\ TypeOK' BY StepType DEF StoreInv
<1>2. CASE MeetingsRewritten BY <1>1, <1>2, RewrittenStoreInv
<1>3. CASE StoreUntouched
  BY <1>1, <1>3
  DEF StoreUntouched, store, StoreInv, IdsIssued, EndedRemembered, Ended,
      RoomReusedOnlyAfterEnd, AckedCreateDurable, DeletedStaysDeleted
<1>4. CASE \E room \in Rooms, ok \in BOOLEAN : CreateMeeting(room, ok)
  BY <1>1, <1>4, CreateStoreInv
<1>5. CASE \E r \in Requests, ok \in BOOLEAN : DeleteWrite(r, ok)
  BY <1>1, <1>5, DeleteStoreInv
<1>6. CASE Crash
  BY <1>1, <1>6
  DEF Crash, history, StoreInv, IdsIssued, EndedRemembered, Ended,
      RoomReusedOnlyAfterEnd, AckedCreateDurable, DeletedStaysDeleted
<1> QED BY <1>1, <1>2, <1>3, <1>4, <1>5, <1>6, StoreStep

LEMMA StoreInvariance == Spec => []StoreInv
<1>1. Init => StoreInv BY InitStoreInv
<1>2. StoreInv /\ [Next]_vars => StoreInv' BY StoreInvStep
<1> QED BY <1>1, <1>2, PTL DEF Spec

\* Two meetings share a room name only if the older one was ended first, for any
\* number of meetings, handlers, crashes and failed saves.
THEOREM RoomReuse == Spec => []RoomReusedOnlyAfterEnd
<1>1. StoreInv => RoomReusedOnlyAfterEnd BY DEF StoreInv
<1> QED BY <1>1, StoreInvariance, PTL

\* An acknowledged creation survives every crash until somebody deletes it.
THEOREM AckedCreate == Spec => []AckedCreateDurable
<1>1. StoreInv => AckedCreateDurable BY DEF StoreInv
<1> QED BY <1>1, StoreInvariance, PTL

\* An acknowledged deletion is final.
THEOREM AckedDelete == Spec => []DeletedStaysDeleted
<1>1. StoreInv => DeletedStaysDeleted BY DEF StoreInv
<1> QED BY <1>1, StoreInvariance, PTL

-----------------------------------------------------------------------------
(* The stamps.  StampsTellStatus is inductive given the types: a crash brings *)
(* back the meetings of disk, of which it speaks too.                         *)

Stamped(m) ==
  /\ m.status = "live"      => m.started
  /\ m.status = "ended"     => m.stopped
  /\ m.status = "scheduled" => ~m.started /\ ~m.stopped

LEMMA MarkStamped ==
  ASSUME NEW m \in Meeting
  PROVE  /\ Stamped(MarkLive(m))
         /\ Stamped(MarkEnded(m))
         /\ Stamped([MarkLive(m) EXCEPT !.stopped = FALSE])
         /\ Stamped([MarkEnded(m) EXCEPT !.num = 0])
         /\ Stamped(m) => \A h \in Request : h.op \in HookEvents => Stamped(HookEffect(h, m))
<1>1. Stamped(MarkLive(m)) /\ Stamped(MarkEnded(m))
  BY DEF Stamped, MarkLive, MarkEnded, Meeting
<1>2. Stamped([MarkLive(m) EXCEPT !.stopped = FALSE])
  BY DEF Stamped, MarkLive, Meeting
<1>3. Stamped([MarkEnded(m) EXCEPT !.num = 0])
  BY DEF Stamped, MarkEnded, Meeting
<1>4. ASSUME Stamped(m), NEW h \in Request, h.op \in HookEvents
      PROVE  Stamped(HookEffect(h, m))
  <2>1. CASE h.op = "room_started" BY <1>1, <2>1 DEF HookEffect
  <2>2. CASE h.op = "room_finished" BY <1>3, <2>2 DEF HookEffect
  <2>3. CASE h.op = "participants"
    <3>1. Stamped([m EXCEPT !.num = h.num]) BY <1>4 DEF Stamped, Meeting
    <3> QED BY <2>3, <3>1 DEF HookEffect
  <2> QED BY <1>4, <2>1, <2>2, <2>3 DEF HookEvents
<1> QED BY <1>1, <1>2, <1>3, <1>4

\* One meeting is rewritten, saved or not: what is written must be stamped.
LEMMA RewriteStamps ==
  ASSUME TypeOK, StampsTellStatus, NEW i \in DOMAIN meetings, NEW m, NEW ok,
         Commit([meetings EXCEPT ![i] = m], ok), patched \subseteq patched',
         i \in patched' \/ (Stamped(meetings[i]) => Stamped(m) \/ i \in patched)
  PROVE  StampsTellStatus'
<1> DEFINE S == [meetings EXCEPT ![i] = m]
<1>1. meetings \in [DOMAIN meetings -> Meeting] BY SnapshotForm DEF TypeOK
<1>2. DOMAIN S = DOMAIN meetings /\ S[i] = m
      /\ \A j \in DOMAIN meetings : j # i => S[j] = meetings[j]
  BY <1>1
<1>3. \A j \in DOMAIN meetings \ patched : Stamped(meetings[j])
  BY DEF StampsTellStatus, Stamped
<1>4. \A j \in DOMAIN disk \ patched : Stamped(disk[j])
  BY DEF StampsTellStatus, Stamped
<1> HIDE DEF S
<1>5. \A j \in DOMAIN S \ patched' : Stamped(S[j])
  BY <1>2, <1>3
<1>6. meetings' = S /\ disk' \in {S, disk}
  BY DEF Commit, S
<1>7. /\ \A j \in DOMAIN meetings' \ patched' : Stamped(meetings'[j])
      /\ \A j \in DOMAIN disk' \ patched' : Stamped(disk'[j])
  BY <1>4, <1>5, <1>6
<1> QED BY <1>7 DEF StampsTellStatus, Stamped

\* Memory is saved as it is, or nothing happens to the store.
LEMMA SameStamps ==
  ASSUME StampsTellStatus, UNCHANGED patched,
         UNCHANGED store \/ \E ok \in BOOLEAN : Commit(meetings, ok)
  PROVE  StampsTellStatus'
<1>1. meetings' = meetings /\ disk' \in {meetings, disk}
  BY DEF Commit, store
<1> QED BY <1>1 DEF StampsTellStatus

LEMMA UpdateAtStamps ==
  ASSUME TypeOK, StampsTellStatus, NEW i, NEW m, NEW ok, UpdateAt(i, m, ok),
         i \in DOMAIN meetings => Stamped(m), UNCHANGED patched
  PROVE  StampsTellStatus'
<1>1. CASE i \in DOMAIN meetings
  BY <1>1, RewriteStamps DEF UpdateAt
<1>2. CASE i \notin DOMAIN meetings
  BY <1>2, SameStamps DEF UpdateAt
<1> QED BY <1>1, <1>2

LEMMA ByRoomStamps ==
  ASSUME TypeOK, StampsTellStatus, NEW room, NEW mutated, NEW ok,
         UpdateByRoom(room, mutated, ok), UNCHANGED patched,
         \A i \in DOMAIN meetings : Stamped(meetings[i]) => Stamped(mutated[i])
  PROVE  StampsTellStatus'
<1>1. CASE UNCHANGED store BY <1>1, SameStamps
<1>2. CASE ~UNCHANGED store
  <2>1. PICK i \in DOMAIN meetings : Commit([meetings EXCEPT ![i] = mutated[i]], ok)
    BY <1>2 DEF UpdateByRoom, InRoom
  <2>2. Stamped(meetings[i]) => Stamped(mutated[i]) OBVIOUS
  <2> HIDE DEF Stamped
  <2> QED BY <2>1, <2>2, RewriteStamps
<1> QED BY <1>1, <1>2

LEMMA StampsStep == TypeOK /\ StampsTellStatus /\ [Next]_vars => StampsTellStatus'
<1> SUFFICES ASSUME TypeOK, StampsTellStatus, [Next]_vars PROVE StampsTellStatus'
  OBVIOUS
<1> USE ChoicesAssumption DEF ChoicesAssumption
<1>1. ASSUME NEW room \in Rooms, NEW ok \in SaveOutcomes, CreateMeeting(room, ok)
      PROVE  StampsTellStatus'
  <2> DEFINE S == [i \in DOMAIN meetings \cup {nextId} |->
                     IF i = nextId THEN NewMeeting(room) ELSE meetings[i]]
  <2>1. meetings' = S /\ disk' \in {S, disk} /\ patched' = patched
    BY <1>1 DEF CreateMeeting, Commit
  <2>2. \A j \in DOMAIN S \ patched : Stamped(S[j])
    BY DEF NewMeeting, StampsTellStatus, Stamped
  <2>3. \A j \in DOMAIN disk \ patched : Stamped(disk[j])
    BY DEF StampsTellStatus, Stamped
  <2> HIDE DEF S
  <2> QED BY <2>1, <2>2, <2>3 DEF StampsTellStatus, Stamped
<1>2. ASSUME NEW i \in DOMAIN meetings, NEW s \in PatchStatuses,
             NEW ok \in SaveOutcomes, PatchStatus(i, s, ok)
      PROVE  StampsTellStatus'
  <2>1. Commit([meetings EXCEPT ![i] = [meetings[i] EXCEPT !.status = s]], ok)
        /\ i \in patched' /\ patched \subseteq patched'
    BY <1>2 DEF PatchStatus
  <2> QED BY <2>1, RewriteStamps
<1>3. ASSUME NEW r \in Requests, NEW ok \in SaveOutcomes, JoinWrite(r, ok)
      PROVE  StampsTellStatus'
  <2> DEFINE i == req[r].id
  <2>0. UNCHANGED patched BY <1>3 DEF JoinWrite, history
  <2>1. CASE req[r].wasLive \/ i \notin DOMAIN meetings
    <3>1. Commit(meetings, ok) BY <1>3, <2>1 DEF JoinWrite
    <3> QED BY <2>0, <3>1, SameStamps
  <2>2. CASE ~(req[r].wasLive \/ i \notin DOMAIN meetings)
    <3>1. Commit([meetings EXCEPT ![i] = MarkLive(meetings[i])], ok)
      BY <1>3, <2>2 DEF JoinWrite
    <3>2. Stamped(MarkLive(meetings[i]))
      BY <2>2, MeetingsAreMeetings, MarkStamped
    <3> QED BY <2>0, <2>2, <3>1, <3>2, RewriteStamps
  <2> QED BY <2>1, <2>2
<1>4. ASSUME NEW r \in Requests, NEW ok \in SaveOutcomes, StartWrite(r, ok)
      PROVE  StampsTellStatus'
  BY <1>4, UpdateAtStamps, MeetingsAreMeetings, MarkStamped DEF StartWrite, history
<1>5. ASSUME NEW r \in Requests, NEW ok \in SaveOutcomes, EndWrite(r, ok)
      PROVE  StampsTellStatus'
  BY <1>5, UpdateAtStamps, MeetingsAreMeetings, MarkStamped DEF EndWrite, history
<1>6. ASSUME NEW r \in Requests, NEW ok \in SaveOutcomes, DeleteWrite(r, ok)
      PROVE  StampsTellStatus'
  <2> DEFINE i == req[r].id
             S == [j \in DOMAIN meetings \ {i} |-> meetings[j]]
  <2>0. UNCHANGED patched BY <1>6 DEF DeleteWrite
  <2>1. CASE i \notin DOMAIN meetings
    BY <1>6, <2>0, <2>1, SameStamps DEF DeleteWrite
  <2>2. CASE i \in DOMAIN meetings
    <3>1. meetings' = S /\ disk' \in {S, disk}
      BY <1>6, <2>2 DEF DeleteWrite, Commit
    <3>2. \A j \in DOMAIN S \ patched : Stamped(S[j])
      BY DEF StampsTellStatus, Stamped
    <3>3. \A j \in DOMAIN disk \ patched : Stamped(disk[j])
      BY DEF StampsTellStatus, Stamped
    <3> HIDE DEF S
    <3> QED BY <2>0, <3>1, <3>2, <3>3 DEF StampsTellStatus, Stamped
  <2> QED BY <2>1, <2>2
<1>7. ASSUME NEW r \in Requests, NEW ok \in SaveOutcomes, CloseRoomWrite(r, ok)
      PROVE  StampsTellStatus'
  <2> DEFINE mutated == [i \in DOMAIN meetings |-> MarkEnded(meetings[i])]
  <2>1. UpdateByRoom(req[r].room, mutated, ok) /\ UNCHANGED patched
    BY <1>7 DEF CloseRoomWrite, history
  <2>2. \A i \in DOMAIN meetings : Stamped(mutated[i])
    BY MeetingsAreMeetings, MarkStamped
  <2> QED BY <2>1, <2>2, ByRoomStamps
<1>8. ASSUME NEW r \in Requests, NEW ok \in SaveOutcomes, HandleWebhook(r, ok)
      PROVE  StampsTellStatus'
  <2> DEFINE mutated == [i \in DOMAIN meetings |-> HookEffect(req[r], meetings[i])]
  <2>1. UpdateByRoom(req[r].room, mutated, ok) /\ UNCHANGED patched
    BY <1>8 DEF HandleWebhook, history
  <2>2. req[r] \in Request /\ req[r].op \in HookEvents
    BY <1>8, AtRequest DEF HandleWebhook, At
  <2>3. \A i \in DOMAIN meetings : Stamped(meetings[i]) => Stamped(mutated[i])
    BY <2>2, MeetingsAreMeetings, MarkStamped
  <2> QED BY <2>1, <2>3, ByRoomStamps
<1>9. ASSUME NEW r \in Requests, Deliver(r) PROVE StampsTellStatus'
  BY <1>9, SameStamps DEF Deliver, DeliverWebhook, history
<1>10. ASSUME NEW r \in Requests, BeginOn(r) \/ Rpc(r) PROVE StampsTellStatus'
  <2>1. UNCHANGED store /\ UNCHANGED patched
    BY <1>10 DEF BeginOn, BeginJoin, BeginStart, BeginEnd, BeginDelete, Begin,
                 BeginCloseRoom, Rpc, CreateRoomRpc, DeleteRoomRpc, history
  <2> QED BY <2>1, SameStamps
<1>11. ASSUME NEW room \in Rooms, Environment(room) PROVE StampsTellStatus'
  <2>1. UNCHANGED store /\ UNCHANGED patched
    BY <1>11 DEF Environment, ParticipantEnters, ParticipantLeaves, RoomIdle,
                 TokenExpires, AdHocToken, LoseWebhook, history
  <2> QED BY <2>1, SameStamps
<1>12. ASSUME Crash PROVE StampsTellStatus'
  BY <1>12 DEF Crash, history, StampsTellStatus
<1>13. ASSUME UNCHANGED vars PROVE StampsTellStatus'
  BY <1>13, SameStamps DEF vars, history
<1>14. ASSUME NEW ok \in SaveOutcomes, DispatchAgent(ok) PROVE StampsTellStatus'
  BY <1>14, SameStamps DEF DispatchAgent, history
<1> QED
  BY <1>1, <1>2, <1>3, <1>4, <1>5, <1>6, <1>7, <1>8, <1>9, <1>10, <1>11, <1>12, <1>13, <1>14
  DEF Next, StoreOnly, Write

\* The stamps tell the status of every meeting no PATCH has written to, whatever
\* handlers, webhooks (late, twice, out of order), crashes and failed saves do.
THEOREM StampsAgree == Spec => []StampsTellStatus
<1>1. Init => StampsTellStatus
  <2>1. Init => DOMAIN meetings = {} /\ DOMAIN disk = {} BY DEF Init
  <2> QED BY <2>1 DEF StampsTellStatus
<1>2. Spec => []TypeOK BY TypeInvariance
<1>3. TypeOK /\ StampsTellStatus /\ [Next]_vars => StampsTellStatus' BY StampsStep
<1> QED BY <1>1, <1>2, <1>3, PTL DEF Spec

-----------------------------------------------------------------------------
(* The registry.  A step of the service is a step of Registry on the listing  *)
(* of memory and disk, or leaves both as they are.                            *)

RegistryVars == <<Listing(meetings), Listing(disk), nextId - 1>>
RegistryStep == Board!Next \/ UNCHANGED RegistryVars

\* Whatever the service writes besides the status is not listed.
LEMMA RewriteListing ==
  ASSUME TypeOK, NEW i \in DOMAIN meetings, NEW m, m.room = meetings[i].room
  PROVE  Listing([meetings EXCEPT ![i] = m]) = [Listing(meetings) EXCEPT ![i].status = m.status]
<1> DEFINE S == [meetings EXCEPT ![i] = m]
           L == Listing(meetings)
<1>1. meetings \in [DOMAIN meetings -> Meeting] BY SnapshotForm DEF TypeOK
<1>2. DOMAIN S = DOMAIN meetings /\ S[i] = m
      /\ \A j \in DOMAIN meetings : j # i => S[j] = meetings[j]
  BY <1>1
<1>3. DOMAIN L = DOMAIN meetings
      /\ \A j \in DOMAIN meetings : L[j] = [room |-> meetings[j].room, status |-> meetings[j].status]
  BY DEF Listing
<1>4. [L EXCEPT ![i].status = m.status] =
        [j \in DOMAIN meetings |-> IF j = i THEN [L[i] EXCEPT !.status = m.status] ELSE L[j]]
  BY <1>3
<1>5. [L[i] EXCEPT !.status = m.status] = [room |-> m.room, status |-> m.status]
  BY <1>3
<1>6. Listing(S) = [j \in DOMAIN meetings |-> [room |-> S[j].room, status |-> S[j].status]]
  BY <1>2 DEF Listing
<1> HIDE DEF S, L
<1>7. \A j \in DOMAIN meetings :
        [room |-> S[j].room, status |-> S[j].status] =
        IF j = i THEN [L[i] EXCEPT !.status = m.status] ELSE L[j]
  BY <1>2, <1>3, <1>5
<1>8. Listing(S) = [L EXCEPT ![i].status = m.status]
  BY <1>4, <1>6, <1>7
<1> QED BY <1>8 DEF S, L

LEMMA RewriteRegistry ==
  ASSUME TypeOK, NEW i \in DOMAIN meetings, NEW m, NEW ok,
         m.room = meetings[i].room,
         m.status \in {meetings[i].status, "live", "ended"} \cup PatchStatuses,
         Commit([meetings EXCEPT ![i] = m], ok), UNCHANGED nextId
  PROVE  RegistryStep
<1> DEFINE L == Listing(meetings)
           new == [L EXCEPT ![i].status = m.status]
<1>1. Listing(meetings)' = Listing(meetings') /\ Listing(disk)' = Listing(disk')
  BY DEF Listing
<1>2. Listing(meetings') = new /\ Listing(disk') \in {new, Listing(disk)}
  BY RewriteListing DEF Commit
<1>3. DOMAIN L = DOMAIN meetings /\ L[i] = [room |-> meetings[i].room, status |-> meetings[i].status]
  BY DEF Listing
<1>4. CASE m.status = meetings[i].status
  <2>1. new = L
    <3>1. [L[i] EXCEPT !.status = m.status] = L[i]
      BY <1>3, <1>4
    <3>2. L = [j \in DOMAIN L |-> L[j]]
      BY DEF Listing
    <3>3. new = [j \in DOMAIN L |-> IF j = i THEN [L[i] EXCEPT !.status = m.status] ELSE L[j]]
      BY <1>3
    <3> HIDE DEF L
    <3> QED BY <3>1, <3>2, <3>3
  <2> HIDE DEF new
  <2> QED BY <1>1, <1>2, <2>1 DEF RegistryStep, RegistryVars, Board!Next, Board!Save
<1>5. CASE m.status \in {"live", "ended"} \cup PatchStatuses
  <2>1. Board!SetStatus(i, m.status)
    BY <1>1, <1>2 DEF Board!SetStatus, Board!Becomes
  <2> QED BY <1>3, <1>5, <2>1 DEF RegistryStep, Board!Next
<1> QED BY <1>4, <1>5

LEMMA StoreRegistry ==
  ASSUME UNCHANGED nextId, UNCHANGED store \/ \E ok : Commit(meetings, ok)
  PROVE  RegistryStep
<1>1. Listing(meetings)' = Listing(meetings) /\ Listing(disk)' \in {Listing(meetings), Listing(disk)}
  BY DEF Commit, store, Listing
<1> QED BY <1>1 DEF RegistryStep, RegistryVars, Board!Next, Board!Save

LEMMA CreateRegistry ==
  ASSUME StoreInv, NEW room \in Rooms, NEW ok, CreateMeeting(room, ok)
  PROVE  RegistryStep
<1> DEFINE S == [i \in DOMAIN meetings \cup {nextId} |->
                   IF i = nextId THEN NewMeeting(room) ELSE meetings[i]]
           L == Listing(meetings)
           new == [i \in DOMAIN L \cup {nextId} |->
                     IF i = nextId THEN [room |-> room, status |-> "scheduled"] ELSE L[i]]
<1>1. meetings' = S /\ disk' \in {S, disk} /\ nextId' = nextId + 1 /\ nextId <= MaxMeetings /\ RoomFree(room)
  BY DEF CreateMeeting, Commit
<1>2. nextId \in Nat /\ nextId' - 1 = nextId /\ (nextId - 1) + 1 = nextId
      /\ nextId - 1 < MaxMeetings
  BY <1>1, BoundsAssumption DEF StoreInv, TypeOK, BoundsAssumption
<1>3. DOMAIN L = DOMAIN meetings
      /\ \A i \in DOMAIN meetings : L[i] = [room |-> meetings[i].room, status |-> meetings[i].status]
  BY DEF Listing
<1>4. Listing(S) = new
  BY <1>3 DEF Listing, NewMeeting
<1>5. Listing(meetings)' = new /\ Listing(disk)' \in {new, Listing(disk)}
  <2>1. Listing(meetings)' = Listing(meetings') /\ Listing(disk)' = Listing(disk')
    BY DEF Listing
  <2> QED BY <1>1, <1>4, <2>1
<1>6. \A i \in DOMAIN L : L[i].room = room => L[i].status = "ended"
  BY <1>1, <1>3 DEF RoomFree, InRoom, Ended
<1> HIDE DEF L
<1>7. Board!Create(room)
  BY <1>2, <1>5, <1>6 DEF Board!Create, Board!Becomes, L
<1> QED BY <1>7 DEF RegistryStep, Board!Next

LEMMA DeleteRegistry ==
  ASSUME NEW r \in Requests, NEW ok, DeleteWrite(r, ok)
  PROVE  RegistryStep
<1> DEFINE i == req[r].id
           S == [j \in DOMAIN meetings \ {i} |-> meetings[j]]
           L == Listing(meetings)
<1>1. CASE i \notin DOMAIN meetings
  BY <1>1, StoreRegistry DEF DeleteWrite
<1>2. CASE i \in DOMAIN meetings
  <2>1. meetings' = S /\ disk' \in {S, disk} /\ nextId' = nextId
    BY <1>2 DEF DeleteWrite, Commit
  <2>2. Listing(S) = [j \in DOMAIN L \ {i} |-> L[j]]
    BY DEF Listing
  <2>3. Listing(meetings)' = Listing(S) /\ Listing(disk)' \in {Listing(S), Listing(disk)}
    BY <2>1 DEF Listing
  <2>4. Board!Remove(i)
    BY <2>1, <2>2, <2>3 DEF Board!Remove, Board!Becomes
  <2>5. i \in DOMAIN L
    BY <1>2 DEF Listing
  <2> QED BY <2>4, <2>5 DEF RegistryStep, Board!Next
<1> QED BY <1>1, <1>2

LEMMA MarkStatus ==
  ASSUME NEW m \in Meeting
  PROVE  /\ MarkLive(m).status = "live" /\ MarkEnded(m).status = "ended"
         /\ [MarkLive(m) EXCEPT !.stopped = FALSE].status = "live"
         /\ [MarkEnded(m) EXCEPT !.num = 0].status = "ended"
         /\ \A h \in Request : h.op \in HookEvents =>
              HookEffect(h, m).status \in {m.status, "live", "ended"}
<1>1. /\ MarkLive(m).status = "live" /\ MarkEnded(m).status = "ended"
      /\ [MarkLive(m) EXCEPT !.stopped = FALSE].status = "live"
  BY DEF MarkLive, MarkEnded, Meeting
<1>2. [MarkEnded(m) EXCEPT !.num = 0].status = "ended"
  BY DEF MarkEnded, Meeting
<1>3. ASSUME NEW h \in Request, h.op \in HookEvents
      PROVE  HookEffect(h, m).status \in {m.status, "live", "ended"}
  <2>1. CASE h.op = "room_started" BY <1>1, <2>1 DEF HookEffect
  <2>2. CASE h.op = "room_finished" BY <1>2, <2>2 DEF HookEffect
  <2>3. CASE h.op = "participants"
    <3>1. [m EXCEPT !.num = h.num].status = m.status BY DEF Meeting
    <3> QED BY <2>3, <3>1 DEF HookEffect
  <2> QED BY <1>3, <2>1, <2>2, <2>3 DEF HookEvents
<1> QED BY <1>1, <1>2, <1>3

LEMMA UpdateAtRegistry ==
  ASSUME TypeOK, NEW i, NEW m, NEW ok, UpdateAt(i, m, ok), UNCHANGED nextId,
         i \in DOMAIN meetings => m.room = meetings[i].room /\ m.status \in {"live", "ended"}
  PROVE  RegistryStep
<1>1. CASE i \in DOMAIN meetings
  BY <1>1, RewriteRegistry DEF UpdateAt
<1>2. CASE i \notin DOMAIN meetings
  BY <1>2, StoreRegistry DEF UpdateAt
<1> QED BY <1>1, <1>2

LEMMA ByRoomRegistry ==
  ASSUME TypeOK, NEW room, NEW mutated, NEW ok, UpdateByRoom(room, mutated, ok),
         UNCHANGED nextId,
         \A i \in DOMAIN meetings :
           /\ mutated[i].room = meetings[i].room
           /\ mutated[i].status \in {meetings[i].status, "live", "ended"}
  PROVE  RegistryStep
<1>1. CASE UNCHANGED store BY <1>1, StoreRegistry
<1>2. CASE ~UNCHANGED store
  <2>1. PICK i \in DOMAIN meetings : Commit([meetings EXCEPT ![i] = mutated[i]], ok)
    BY <1>2 DEF UpdateByRoom, InRoom
  <2> QED BY <2>1, RewriteRegistry
<1> QED BY <1>1, <1>2

LEMMA StepRegistry ==
  ASSUME StoreInv, [Next]_vars
  PROVE  RegistryStep
<1> USE ChoicesAssumption DEF ChoicesAssumption
<1>t. TypeOK /\ \A i \in DOMAIN meetings : meetings[i] \in Meeting
  BY MeetingsAreMeetings DEF StoreInv
<1>1. ASSUME NEW room \in Rooms, NEW ok \in SaveOutcomes, CreateMeeting(room, ok)
      PROVE  RegistryStep
  BY <1>1, CreateRegistry
<1>2. ASSUME NEW i \in DOMAIN meetings, NEW s \in PatchStatuses,
             NEW ok \in SaveOutcomes, PatchStatus(i, s, ok)
      PROVE  RegistryStep
  <2> DEFINE m == [meetings[i] EXCEPT !.status = s]
  <2>1. m.room = meetings[i].room /\ m.status = s
    BY <1>t DEF Meeting
  <2>2. Commit([meetings EXCEPT ![i] = m], ok) /\ UNCHANGED nextId
    BY <1>2 DEF PatchStatus
  <2> HIDE DEF m
  <2> QED BY <1>t, <2>1, <2>2, RewriteRegistry
<1>3. ASSUME NEW r \in Requests, NEW ok \in SaveOutcomes, JoinWrite(r, ok)
      PROVE  RegistryStep
  <2> DEFINE i == req[r].id
  <2>0. UNCHANGED nextId BY <1>3 DEF JoinWrite
  <2>1. CASE req[r].wasLive \/ i \notin DOMAIN meetings
    <3>1. Commit(meetings, ok) BY <1>3, <2>1 DEF JoinWrite
    <3> QED BY <2>0, <3>1, StoreRegistry
  <2>2. CASE ~(req[r].wasLive \/ i \notin DOMAIN meetings)
    <3>1. Commit([meetings EXCEPT ![i] = MarkLive(meetings[i])], ok)
      BY <1>3, <2>2 DEF JoinWrite
    <3> QED BY <1>t, <2>0, <2>2, <3>1, MarkKeepsRoom, MarkStatus, RewriteRegistry
  <2> QED BY <2>1, <2>2
<1>4. ASSUME NEW r \in Requests, NEW ok \in SaveOutcomes, StartWrite(r, ok)
      PROVE  RegistryStep
  BY <1>t, <1>4, UpdateAtRegistry, MarkKeepsRoom, MarkStatus DEF StartWrite
<1>5. ASSUME NEW r \in Requests, NEW ok \in SaveOutcomes, EndWrite(r, ok)
      PROVE  RegistryStep
  BY <1>t, <1>5, UpdateAtRegistry, MarkKeepsRoom, MarkStatus DEF EndWrite
<1>6. ASSUME NEW r \in Requests, NEW ok \in SaveOutcomes, DeleteWrite(r, ok)
      PROVE  RegistryStep
  BY <1>6, DeleteRegistry
<1>7. ASSUME NEW r \in Requests, NEW ok \in SaveOutcomes, CloseRoomWrite(r, ok)
      PROVE  RegistryStep
  <2> DEFINE mutated == [i \in DOMAIN meetings |-> MarkEnded(meetings[i])]
  <2>1. UpdateByRoom(req[r].room, mutated, ok) /\ UNCHANGED nextId
    BY <1>7 DEF CloseRoomWrite
  <2>2. \A i \in DOMAIN meetings :
          mutated[i].room = meetings[i].room /\ mutated[i].status = "ended"
    BY <1>t, MarkKeepsRoom, MarkStatus
  <2> HIDE DEF mutated
  <2> QED BY <1>t, <2>1, <2>2, ByRoomRegistry
<1>8. ASSUME NEW r \in Requests, NEW ok \in SaveOutcomes, HandleWebhook(r, ok)
      PROVE  RegistryStep
  <2> DEFINE mutated == [i \in DOMAIN meetings |-> HookEffect(req[r], meetings[i])]
  <2>1. UpdateByRoom(req[r].room, mutated, ok) /\ UNCHANGED nextId
    BY <1>8 DEF HandleWebhook
  <2>2. req[r] \in Request /\ req[r].op \in HookEvents
    BY <1>t, <1>8, AtRequest DEF HandleWebhook, At
  <2>3. \A i \in DOMAIN meetings :
          /\ mutated[i].room = meetings[i].room
          /\ mutated[i].status \in {meetings[i].status, "live", "ended"}
    BY <1>t, <2>2, MarkKeepsRoom, MarkStatus
  <2> HIDE DEF mutated
  <2> QED BY <1>t, <2>1, <2>3, ByRoomRegistry
<1>9. ASSUME NEW r \in Requests, Deliver(r) PROVE RegistryStep
  BY <1>9, StoreRegistry DEF Deliver, DeliverWebhook
<1>10. ASSUME NEW r \in Requests, BeginOn(r) \/ Rpc(r) PROVE RegistryStep
  <2>1. UNCHANGED <<store, nextId>>
    BY <1>10 DEF BeginOn, BeginJoin, BeginStart, BeginEnd, BeginDelete, Begin,
                 BeginCloseRoom, Rpc, CreateRoomRpc, DeleteRoomRpc
  <2> QED BY <2>1, StoreRegistry
<1>11. ASSUME NEW room \in Rooms, Environment(room) PROVE RegistryStep
  <2>1. UNCHANGED <<store, nextId>>
    BY <1>11 DEF Environment, ParticipantEnters, ParticipantLeaves, RoomIdle,
                 TokenExpires, AdHocToken, LoseWebhook
  <2> QED BY <2>1, StoreRegistry
<1>12. ASSUME Crash PROVE RegistryStep
  <2>1. Board!Restart
    BY <1>12 DEF Crash, Listing, Board!Restart
  <2> QED BY <2>1 DEF RegistryStep, Board!Next
<1>13. ASSUME UNCHANGED vars PROVE RegistryStep
  BY <1>13, StoreRegistry DEF vars
<1>14. ASSUME NEW ok \in SaveOutcomes, DispatchAgent(ok) PROVE RegistryStep
  BY <1>14, StoreRegistry DEF DispatchAgent
<1> QED
  BY <1>1, <1>2, <1>3, <1>4, <1>5, <1>6, <1>7, <1>8, <1>9, <1>10, <1>11, <1>12, <1>13, <1>14
  DEF Next, StoreOnly, Write

\* service.go and store.go:158-248: whatever handlers, webhooks, crashes and failed
\* saves do, the meetings change one at a time and only as Registry allows.
THEOREM RegistryRefinement == Spec => ImplementsRegistry
<1>1. Init => Board!Init
  <2> SUFFICES ASSUME Init PROVE Board!Init
    OBVIOUS
  <2>1. DOMAIN meetings = {} /\ DOMAIN disk = {} /\ nextId - 1 = 0
    BY DEF Init
  <2> QED BY <2>1 DEF Board!Init, Listing
<1>2. StoreInv /\ [Next]_vars => [Board!Next]_RegistryVars
  BY StepRegistry DEF RegistryStep
<1> QED BY <1>1, <1>2, StoreInvariance, PTL
    DEF Spec, ImplementsRegistry, Board!Spec, RegistryVars
=============================================================================

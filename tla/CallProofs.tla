------------------------------ MODULE CallProofs ------------------------------
(* Calls: once one is over its room stays shut, for any rooms, requests,      *)
(* operations and faults; and while LiveKit's webhooks come in order, the     *)
(* participant count of the meeting catches up with the room.                 *)
EXTENDS LifecycleProofs

-----------------------------------------------------------------------------
(* What a request remembers stays true: the room of the meeting it found. *)

\* A meeting has the same room in memory and on disk.
RoomsAgree == \A i \in DOMAIN meetings \cap DOMAIN disk : meetings[i].room = disk[i].room

Remembers(r) ==
  req[r] # NoRequest =>
    /\ req[r].id < nextId
    /\ req[r].id \in DOMAIN meetings => meetings[req[r].id].room = req[r].room

\* Nobody is in a room that does not exist.
NobodyOutside == \A room \in Rooms : room \notin up => inRoom[room] = 0

CallInv == StoreInv /\ RoomsAgree /\ (\A r \in Requests : Remembers(r)) /\ NobodyOutside

\* The table of requests changes by dropping, advancing or adding entries.
KeptRequest(r) ==
  \/ req'[r] = NoRequest
  \/ req[r] # NoRequest /\ req'[r].id = req[r].id /\ req'[r].room = req[r].room
NewRequest(r) ==
  \/ req'[r].id = 0
  \/ req'[r].id \in DOMAIN meetings /\ req'[r].room = meetings[req'[r].id].room

LEMMA FinishKeeps ==
  ASSUME TypeOK, NEW q \in Requests, Finish(q)
  PROVE  \A r \in Requests : KeptRequest(r)
BY DEF Finish, KeptRequest, TypeOK

LEMMA RequestStep ==
  ASSUME TypeOK, [Next]_vars
  PROVE  \A r \in Requests : KeptRequest(r) \/ (NewRequest(r) /\ meetings' = meetings)
<1> DEFINE Goal == \A r \in Requests : KeptRequest(r) \/ (NewRequest(r) /\ meetings' = meetings)
<1>k. UNCHANGED req => \A r \in Requests : KeptRequest(r)
  BY DEF KeptRequest
<1>1. ASSUME StoreOnly \/ (\E room \in Rooms : Environment(room)) \/ UNCHANGED vars PROVE Goal
  <2>1. UNCHANGED req
    BY <1>1 DEF StoreOnly, CreateMeeting, PatchStatus, DispatchAgent, Environment, ParticipantEnters,
       ParticipantLeaves, RoomIdle, TokenExpires, AdHocToken, LoseWebhook, vars
  <2> QED BY <2>1, <1>k
<1>2. ASSUME NEW q \in Requests, Write(q) PROVE Goal
  <2>1. Finish(q)
    BY <1>2 DEF Write, JoinWrite, StartWrite, EndWrite, DeleteWrite, CloseRoomWrite, HandleWebhook
  <2> QED BY <2>1, FinishKeeps
<1>3. ASSUME NEW q \in Requests, Rpc(q) PROVE Goal
  <2>1. PICK outcome \in RpcOutcomes : CreateRoomRpc(q, outcome) \/ DeleteRoomRpc(q, outcome)
    BY <1>3 DEF Rpc
  <2>2. req[q] \in Request /\ req[q] # NoRequest
    BY <2>1, AtRequest DEF CreateRoomRpc, DeleteRoomRpc
  <2>3. /\ [req[q] EXCEPT !.step = "write"].id = req[q].id
        /\ [req[q] EXCEPT !.step = "write"].room = req[q].room
    BY <2>2 DEF Request
  <2>4. req' = [req EXCEPT ![q] = NoRequest]
        \/ req' = [req EXCEPT ![q] = [req[q] EXCEPT !.step = "write"]]
    BY <2>1 DEF CreateRoomRpc, DeleteRoomRpc
  <2>5. req \in [Requests -> Request \cup {NoRequest}]
    BY DEF TypeOK
  <2>6. \A r \in Requests : KeptRequest(r)
    <3> TAKE r \in Requests
    <3>1. CASE r = q
      BY <2>2, <2>3, <2>4, <2>5, <3>1 DEF KeptRequest
    <3>2. CASE r # q
      BY <2>4, <2>5, <3>2 DEF KeptRequest
    <3> QED BY <3>1, <3>2
  <2> QED BY <2>6
<1>4. ASSUME NEW q \in Requests, Deliver(q) PROVE Goal
  <2>1. PICK room \in Rooms : \E k \in DOMAIN hooks[room] :
          \E again \in BOOLEAN, ok \in SaveOutcomes : DeliverWebhook(q, room, k, again, ok)
    BY <1>4 DEF Deliver
  <2>2. PICK k, again, ok : DeliverWebhook(q, room, k, again, ok)
    BY <2>1
  <2>3. meetings' = meetings /\ req'[q].id = 0 /\ \A r \in Requests \ {q} : req'[r] = req[r]
    BY <2>2 DEF DeliverWebhook, Commit, TypeOK
  <2> QED BY <2>3 DEF KeptRequest, NewRequest
<1>5. ASSUME NEW q \in Requests, BeginOn(q) PROVE Goal
  <2>1. CASE \E room \in Rooms : BeginCloseRoom(q, room)
    <3>1. meetings' = meetings /\ req'[q].id = 0 /\ \A r \in Requests \ {q} : req'[r] = req[r]
      BY <2>1 DEF BeginCloseRoom, store, TypeOK
    <3> QED BY <3>1 DEF KeptRequest, NewRequest
  <2>2. CASE \E i \in DOMAIN meetings :
               BeginJoin(q, i) \/ BeginStart(q, i) \/ BeginEnd(q, i) \/ BeginDelete(q, i)
    <3>1. PICK i \in DOMAIN meetings : \E op, step : Begin(q, op, step, i)
      BY <2>2 DEF BeginJoin, BeginStart, BeginEnd, BeginDelete
    <3>2. /\ meetings' = meetings /\ req'[q].id = i /\ req'[q].room = meetings[i].room
          /\ \A r \in Requests \ {q} : req'[r] = req[r]
      BY <3>1 DEF Begin, store, TypeOK
    <3> QED BY <3>2 DEF KeptRequest, NewRequest
  <2> QED BY <1>5, <2>1, <2>2 DEF BeginOn
<1>6. ASSUME Crash PROVE Goal
  BY <1>6 DEF Crash, KeptRequest
<1> QED BY <1>1, <1>2, <1>3, <1>4, <1>5, <1>6 DEF Next

\* Meetings keep their rooms and ids are not given twice.
LEMMA RoomsStep ==
  ASSUME CallInv, [Next]_vars
  PROVE  /\ RoomsAgree'
         /\ \/ Crash
            \/ /\ nextId <= nextId'
               /\ \A i \in DOMAIN meetings' : i # nextId =>
                    i \in DOMAIN meetings /\ meetings'[i].room = meetings[i].room
<1>t. TypeOK /\ nextId \in Nat
  BY BoundsAssumption DEF CallInv, StoreInv, TypeOK, BoundsAssumption
<1>1. CASE MeetingsRewritten
  BY <1>t, <1>1 DEF MeetingsRewritten, CallInv, RoomsAgree
<1>2. CASE StoreUntouched
  BY <1>t, <1>2 DEF StoreUntouched, store, CallInv, RoomsAgree
<1>3. CASE \E room \in Rooms, ok \in BOOLEAN : CreateMeeting(room, ok)
  <2>1. PICK room \in Rooms, ok \in BOOLEAN : CreateMeeting(room, ok)
    BY <1>3
  <2> DEFINE S == [i \in DOMAIN meetings \cup {nextId} |->
                     IF i = nextId THEN NewMeeting(room) ELSE meetings[i]]
  <2>2. meetings' = S /\ disk' \in {S, disk} /\ nextId' = nextId + 1
    BY <2>1 DEF CreateMeeting, Commit
  <2>3. nextId \notin DOMAIN disk
    BY <1>t DEF CallInv, StoreInv, IdsIssued
  <2> QED BY <1>t, <2>2, <2>3 DEF CallInv, RoomsAgree
<1>4. CASE \E r \in Requests, ok \in BOOLEAN : DeleteWrite(r, ok)
  <2>1. PICK r \in Requests, ok \in BOOLEAN : DeleteWrite(r, ok)
    BY <1>4
  <2> DEFINE S == [j \in DOMAIN meetings \ {req[r].id} |-> meetings[j]]
  <2>2. nextId' = nextId /\ (UNCHANGED store \/ (meetings' = S /\ disk' \in {S, disk}))
    BY <2>1 DEF DeleteWrite, Commit, store
  <2> QED BY <1>t, <2>2 DEF CallInv, RoomsAgree, store
<1>5. CASE Crash
  BY <1>5 DEF Crash, RoomsAgree
<1> QED BY <1>t, <1>1, <1>2, <1>3, <1>4, <1>5, StoreStep

LEMMA RemembersStep ==
  ASSUME CallInv, [Next]_vars
  PROVE  \A r \in Requests : Remembers(r)'
<1> TAKE r \in Requests
<1>t. /\ TypeOK /\ nextId \in Nat /\ nextId >= 1
      /\ \A i \in DOMAIN meetings : i \in Nat /\ i < nextId /\ i # 0
  BY BoundsAssumption, SnapshotForm DEF CallInv, StoreInv, TypeOK, BoundsAssumption, IdsIssued, Ids
<1>r. \A q \in Requests : req[q] # NoRequest => req[q].id \in Nat
  <2> SUFFICES ASSUME NEW q \in Requests, req[q] # NoRequest PROVE req[q].id \in Nat
    OBVIOUS
  <2>1. req[q].id \in Ids \cup {0}
    BY <1>t, RequestType
  <2> QED BY <2>1, BoundsAssumption DEF Ids, BoundsAssumption
<1>1. CASE Crash
  BY <1>1 DEF Crash, Remembers
<1>2. CASE ~Crash
  <2>1. /\ nextId <= nextId' /\ nextId' \in Nat
        /\ \A i \in DOMAIN meetings' : i # nextId =>
             i \in DOMAIN meetings /\ meetings'[i].room = meetings[i].room
    <3>1. nextId' \in Nat
      BY StepType, BoundsAssumption DEF CallInv, StoreInv, TypeOK, BoundsAssumption
    <3> QED BY <1>2, <3>1, RoomsStep
  <2>2. CASE KeptRequest(r)
    <3>1. SUFFICES ASSUME req'[r] # NoRequest PROVE Remembers(r)'
      BY DEF Remembers
    <3>2. req[r] # NoRequest /\ req'[r].id = req[r].id /\ req'[r].room = req[r].room
      BY <2>2, <3>1 DEF KeptRequest
    <3>3. req[r].id < nextId /\ (req[r].id \in DOMAIN meetings => meetings[req[r].id].room = req[r].room)
      BY <3>2 DEF CallInv, Remembers
    <3> QED BY <1>t, <1>r, <2>1, <3>2, <3>3 DEF Remembers
  <2>3. CASE NewRequest(r) /\ meetings' = meetings
    <3>1. req'[r].id < nextId'
      BY <1>t, <2>1, <2>3 DEF NewRequest
    <3>2. req'[r].id \in DOMAIN meetings => meetings[req'[r].id].room = req'[r].room
      BY <1>t, <2>3 DEF NewRequest
    <3> QED BY <2>3, <3>1, <3>2 DEF Remembers
  <2> QED BY <1>t, <2>2, <2>3, RequestStep
<1> QED BY <1>1, <1>2

LEMMA OutsideStep ==
  ASSUME CallInv, [Next]_vars
  PROVE  NobodyOutside'
<1>t. inRoom \in [Rooms -> 0..MaxParticipants]
  BY DEF CallInv, StoreInv, TypeOK
<1>n. \A room \in Rooms : room \notin up => inRoom[room] = 0
  BY DEF CallInv, NobodyOutside
<1>1. CASE up \subseteq up' /\ inRoom' = inRoom
  BY <1>1, <1>n DEF NobodyOutside
<1>2. ASSUME NEW room \in Rooms, CloseRoom(room) PROVE NobodyOutside'
  BY <1>t, <1>n, <1>2 DEF CloseRoom, livekit, NobodyOutside
<1>3. ASSUME NEW q \in Requests, Rpc(q) PROVE NobodyOutside'
  <2>1. PICK outcome \in RpcOutcomes : CreateRoomRpc(q, outcome) \/ DeleteRoomRpc(q, outcome)
    BY <1>3 DEF Rpc
  <2>2. req[q].room \in Rooms
    BY <2>1, AtRequest, RequestType DEF CreateRoomRpc, DeleteRoomRpc, CallInv, StoreInv
  <2>3. UNCHANGED livekit \/ OpenRoom(req[q].room) \/ CloseRoom(req[q].room)
    BY <2>1 DEF CreateRoomRpc, DeleteRoomRpc
  <2> QED BY <1>1, <1>2, <2>2, <2>3 DEF OpenRoom, livekit
<1>4. ASSUME NEW room \in Rooms, Environment(room) PROVE NobodyOutside'
  <2>1. CASE ParticipantEnters(room)
    <3>1. /\ room \in up' /\ up \subseteq up'
          /\ \A other \in Rooms \ {room} : inRoom'[other] = inRoom[other]
      BY <1>t, <2>1 DEF ParticipantEnters
    <3> QED BY <1>n, <3>1 DEF NobodyOutside
  <2>2. CASE ParticipantLeaves(room)
    <3>1. /\ room \in up /\ up' = up
          /\ \A other \in Rooms \ {room} : inRoom'[other] = inRoom[other]
      BY <1>t, <1>n, <2>2 DEF ParticipantLeaves
    <3> QED BY <1>n, <3>1 DEF NobodyOutside
  <2>3. CASE RoomIdle(room)
    BY <1>2, <2>3 DEF RoomIdle
  <2>4. CASE UNCHANGED <<up, inRoom>>
    BY <1>1, <2>4
  <2> QED BY <1>4, <2>1, <2>2, <2>3, <2>4
    DEF Environment, TokenExpires, AdHocToken, LoseWebhook, livekit
<1>5. ASSUME UNCHANGED <<up, inRoom>> PROVE NobodyOutside'
  BY <1>1, <1>5
<1>6. ASSUME NEW q \in Requests, BeginOn(q) \/ Write(q) \/ Deliver(q) PROVE UNCHANGED <<up, inRoom>>
  BY <1>6 DEF BeginOn, BeginJoin, BeginStart, BeginEnd, BeginDelete, Begin, BeginCloseRoom, Write,
     JoinWrite, StartWrite, EndWrite, DeleteWrite, CloseRoomWrite, HandleWebhook, Deliver,
     DeliverWebhook, livekit
<1>7. ASSUME StoreOnly \/ Crash \/ UNCHANGED vars PROVE UNCHANGED <<up, inRoom>>
  BY <1>7 DEF StoreOnly, CreateMeeting, PatchStatus, DispatchAgent, Crash, vars, livekit
<1> QED BY <1>3, <1>4, <1>5, <1>6, <1>7 DEF Next

LEMMA CallInvariance == Spec => []CallInv
<1>1. Init => CallInv
  <2>1. Init => DOMAIN meetings = {} /\ DOMAIN disk = {}
    BY DEF Init
  <2> QED BY <2>1, InitStoreInv DEF Init, CallInv, RoomsAgree, Remembers, NobodyOutside
<1>2. CallInv /\ [Next]_vars => CallInv'
  BY StoreInvStep, RoomsStep, RemembersStep, OutsideStep DEF CallInv
<1> QED BY <1>1, <1>2, PTL DEF Spec

-----------------------------------------------------------------------------
(* A room that is shut stays shut. *)

\* All meetings of the room in one copy of the store have ended.
Shut(S, room) == InRoom(S, room) # {} /\ InRoom(S, room) \subseteq Ended(S)

Opening == {"join", "start"} \cup HookEvents

\* Nothing outside the store leads into the room.
Locked(room) ==
  /\ room \notin up \cup tokens
  /\ hooks[room] = << >>
  /\ \A r \in Requests : req[r] # NoRequest /\ req[r].room = room => req[r].op \notin Opening

LEMMA ClosedParts ==
  ASSUME NEW room
  PROVE  /\ Closed(room) <=> Shut(meetings, room) /\ Shut(disk, room) /\ Locked(room)
         /\ Closed(room)' <=> Shut(meetings', room) /\ Shut(disk', room) /\ Locked(room)'
BY DEF Closed, Shut, Locked, Busy, Opening, InRoom, Ended

\* One meeting is rewritten, saved or not: what the room shows must be ended.
LEMMA RewriteShut ==
  ASSUME TypeOK, NEW room, Shut(meetings, room), Shut(disk, room),
         NEW i \in DOMAIN meetings, NEW m, NEW ok,
         m.room = meetings[i].room, m.room = room => m.status = "ended",
         Commit([meetings EXCEPT ![i] = m], ok)
  PROVE  Shut(meetings', room) /\ Shut(disk', room)
<1> DEFINE S == [meetings EXCEPT ![i] = m]
<1>1. meetings \in [DOMAIN meetings -> Meeting] BY SnapshotForm DEF TypeOK
<1>2. DOMAIN S = DOMAIN meetings /\ S[i] = m
      /\ \A j \in DOMAIN meetings : j # i => S[j] = meetings[j]
  BY <1>1
<1> HIDE DEF S
<1>3. InRoom(S, room) = InRoom(meetings, room)
  BY <1>2 DEF InRoom
<1>4. InRoom(S, room) \subseteq Ended(S)
  BY <1>2 DEF Shut, InRoom, Ended
<1>5. meetings' = S /\ disk' \in {S, disk}
  BY DEF Commit, S
<1> QED BY <1>3, <1>4, <1>5 DEF Shut

\* Memory is saved as it is, or nothing happens to the store.
LEMMA SameShut ==
  ASSUME NEW room, Shut(meetings, room), Shut(disk, room),
         UNCHANGED store \/ \E ok \in BOOLEAN : Commit(meetings, ok)
  PROVE  Shut(meetings', room) /\ Shut(disk', room)
<1>1. meetings' = meetings /\ disk' \in {meetings, disk}
  BY DEF Commit, store
<1> QED BY <1>1

LEMMA UpdateAtShut ==
  ASSUME TypeOK, NEW room, Shut(meetings, room), Shut(disk, room),
         NEW i, NEW m, NEW ok, UpdateAt(i, m, ok),
         i \in DOMAIN meetings =>
           m.room = meetings[i].room /\ (m.room = room => m.status = "ended")
  PROVE  Shut(meetings', room) /\ Shut(disk', room)
<1>1. CASE i \in DOMAIN meetings
  BY <1>1, RewriteShut DEF UpdateAt
<1>2. CASE i \notin DOMAIN meetings
  BY <1>2, SameShut DEF UpdateAt
<1> QED BY <1>1, <1>2

LEMMA ByRoomShut ==
  ASSUME TypeOK, NEW room, Shut(meetings, room), Shut(disk, room),
         NEW where, NEW mutated, NEW ok, UpdateByRoom(where, mutated, ok),
         \A i \in InRoom(meetings, where) :
           mutated[i].room = meetings[i].room /\ (mutated[i].room = room => mutated[i].status = "ended")
  PROVE  Shut(meetings', room) /\ Shut(disk', room)
<1>1. CASE UNCHANGED store BY <1>1, SameShut
<1>2. CASE ~UNCHANGED store
  <2>1. PICK i \in InRoom(meetings, where) : Commit([meetings EXCEPT ![i] = mutated[i]], ok)
    BY <1>2 DEF UpdateByRoom
  <2>2. i \in DOMAIN meetings BY DEF InRoom
  <2> QED BY <2>1, <2>2, RewriteShut
<1> QED BY <1>1, <1>2

\* The store: unless the step is one that reopens the room, its meetings stay
\* ended in memory and on disk.
LEMMA ShutStep ==
  ASSUME CallInv, [Next]_vars, NEW room \in Rooms, Closed(room), ~Reopens(room)
  PROVE  Shut(meetings', room) /\ Shut(disk', room)
<1> DEFINE Goal == Shut(meetings', room) /\ Shut(disk', room)
<1> USE ChoicesAssumption DEF ChoicesAssumption
<1>t. TypeOK /\ Shut(meetings, room) /\ Shut(disk, room) /\ Locked(room)
  BY ClosedParts DEF CallInv, StoreInv
<1>m. \A i \in DOMAIN meetings : meetings[i] \in Meeting
  BY <1>t, MeetingsAreMeetings
<1>o. \A r \in Requests : req[r] # NoRequest /\ req[r].op \in Opening => req[r].room # room
  BY <1>t DEF Locked
<1>i. \A r \in Requests : req[r] # NoRequest /\ req[r].id \in DOMAIN meetings =>
        meetings[req[r].id].room = req[r].room
  BY DEF CallInv, Remembers
<1>a. \A m \in Meeting : MarkEnded(m).status = "ended" /\ [MarkEnded(m) EXCEPT !.num = 0].status = "ended"
  BY DEF MarkEnded, Meeting
<1>1. ASSUME NEW where \in Rooms, NEW ok \in SaveOutcomes, CreateMeeting(where, ok) PROVE Goal
  <2> DEFINE S == [i \in DOMAIN meetings \cup {nextId} |->
                     IF i = nextId THEN NewMeeting(where) ELSE meetings[i]]
  <2>1. meetings' = S /\ disk' \in {S, disk}
    BY <1>1 DEF CreateMeeting, Commit
  <2>2. where # room
    BY <1>1 DEF Reopens
  <2>3. nextId \notin DOMAIN meetings
    BY <1>t, BoundsAssumption DEF CallInv, StoreInv, IdsIssued, TypeOK, BoundsAssumption
  <2>4. InRoom(S, room) = InRoom(meetings, room)
    BY <2>2, <2>3 DEF InRoom, NewMeeting
  <2>5. InRoom(S, room) \subseteq Ended(S)
    BY <1>t, <2>3, <2>4 DEF Shut, InRoom, Ended
  <2> HIDE DEF S
  <2> QED BY <1>t, <2>1, <2>4, <2>5 DEF Shut
<1>2. ASSUME NEW i \in DOMAIN meetings, NEW s \in PatchStatuses,
             NEW ok \in SaveOutcomes, PatchStatus(i, s, ok)
      PROVE  Goal
  <2>1. meetings[i].room # room
    BY <1>2 DEF Reopens, InRoom
  <2>2. [meetings[i] EXCEPT !.status = s].room = meetings[i].room
    BY <1>m DEF Meeting
  <2>3. Commit([meetings EXCEPT ![i] = [meetings[i] EXCEPT !.status = s]], ok)
    BY <1>2 DEF PatchStatus
  <2> QED BY <1>t, <2>1, <2>2, <2>3, RewriteShut
<1>3. ASSUME NEW r \in Requests, NEW ok \in SaveOutcomes, JoinWrite(r, ok) PROVE Goal
  <2> DEFINE i == req[r].id
  <2>1. CASE req[r].wasLive \/ i \notin DOMAIN meetings
    <3>1. Commit(meetings, ok) BY <1>3, <2>1 DEF JoinWrite
    <3> QED BY <1>t, <3>1, SameShut
  <2>2. CASE ~(req[r].wasLive \/ i \notin DOMAIN meetings)
    <3>1. Commit([meetings EXCEPT ![i] = MarkLive(meetings[i])], ok)
      BY <1>3, <2>2 DEF JoinWrite
    <3>2. MarkLive(meetings[i]).room = meetings[i].room
      BY <1>m, <2>2, MarkKeepsRoom
    <3>3. req[r] # NoRequest /\ req[r].op \in Opening
      BY <1>t, <1>3, AtRequest DEF JoinWrite, At, Opening
    <3>4. meetings[i].room # room
      BY <1>o, <1>i, <2>2, <3>3
    <3> QED BY <1>t, <2>2, <3>1, <3>2, <3>4, RewriteShut
  <2> QED BY <2>1, <2>2
<1>4. ASSUME NEW r \in Requests, NEW ok \in SaveOutcomes, StartWrite(r, ok) PROVE Goal
  <2> DEFINE i == req[r].id
             m == [MarkLive(meetings[i]) EXCEPT !.stopped = FALSE]
  <2>1. UpdateAt(i, m, ok)
    BY <1>4 DEF StartWrite
  <2>2. req[r] # NoRequest /\ req[r].op \in Opening
    BY <1>t, <1>4, AtRequest DEF StartWrite, At, Opening
  <2>3. i \in DOMAIN meetings => m.room = meetings[i].room /\ m.room # room
    BY <1>m, <1>o, <1>i, <2>2, MarkKeepsRoom
  <2> HIDE DEF m
  <2> QED BY <1>t, <2>1, <2>3, UpdateAtShut
<1>5. ASSUME NEW r \in Requests, NEW ok \in SaveOutcomes, EndWrite(r, ok) PROVE Goal
  <2> DEFINE i == req[r].id
             m == [MarkEnded(meetings[i]) EXCEPT !.num = 0]
  <2>1. UpdateAt(i, m, ok)
    BY <1>5 DEF EndWrite
  <2>2. i \in DOMAIN meetings => m.room = meetings[i].room /\ m.status = "ended"
    BY <1>m, <1>a, MarkKeepsRoom
  <2> HIDE DEF m
  <2> QED BY <1>t, <2>1, <2>2, UpdateAtShut
<1>6. ASSUME NEW r \in Requests, NEW ok \in SaveOutcomes, DeleteWrite(r, ok) PROVE Goal
  <2> DEFINE i == req[r].id
             S == [j \in DOMAIN meetings \ {i} |-> meetings[j]]
  <2>1. CASE i \notin DOMAIN meetings
    BY <1>t, <1>6, <2>1, SameShut DEF DeleteWrite
  <2>2. CASE i \in DOMAIN meetings
    <3>1. meetings' = S /\ disk' \in {S, disk}
      BY <1>6, <2>2 DEF DeleteWrite, Commit
    <3>2. req[r] # NoRequest
      BY <1>t, <1>6, AtRequest DEF DeleteWrite
    <3>3. meetings[i].room # room
      BY <1>i, <1>6, <2>2, <3>2 DEF Reopens
    <3>4. InRoom(S, room) = InRoom(meetings, room)
      BY <3>3 DEF InRoom
    <3>5. InRoom(S, room) \subseteq Ended(S)
      BY <1>t, <3>4 DEF Shut, InRoom, Ended
    <3> HIDE DEF S
    <3> QED BY <1>t, <3>1, <3>4, <3>5 DEF Shut
  <2> QED BY <2>1, <2>2
<1>7. ASSUME NEW r \in Requests, NEW ok \in SaveOutcomes, CloseRoomWrite(r, ok) PROVE Goal
  <2> DEFINE mutated == [i \in DOMAIN meetings |-> MarkEnded(meetings[i])]
  <2>1. UpdateByRoom(req[r].room, mutated, ok)
    BY <1>7 DEF CloseRoomWrite
  <2>2. \A i \in DOMAIN meetings : mutated[i].room = meetings[i].room /\ mutated[i].status = "ended"
    BY <1>m, <1>a, MarkKeepsRoom
  <2> HIDE DEF mutated
  <2> QED BY <1>t, <2>1, <2>2, ByRoomShut DEF InRoom
<1>8. ASSUME NEW r \in Requests, NEW ok \in SaveOutcomes, HandleWebhook(r, ok) PROVE Goal
  <2> DEFINE mutated == [i \in DOMAIN meetings |-> HookEffect(req[r], meetings[i])]
  <2>1. UpdateByRoom(req[r].room, mutated, ok)
    BY <1>8 DEF HandleWebhook
  <2>2. req[r] \in Request /\ req[r] # NoRequest /\ req[r].op \in HookEvents
    BY <1>t, <1>8, AtRequest DEF HandleWebhook, At
  <2>3. req[r].room # room
    BY <1>o, <2>2 DEF Opening
  <2>4. \A i \in InRoom(meetings, req[r].room) :
          mutated[i].room = meetings[i].room /\ mutated[i].room # room
    BY <1>m, <2>2, <2>3, MarkKeepsRoom DEF InRoom
  <2> HIDE DEF mutated
  <2> QED BY <1>t, <2>1, <2>4, ByRoomShut
<1>9. ASSUME NEW r \in Requests, Deliver(r) PROVE Goal
  BY <1>t, <1>9, SameShut DEF Deliver, DeliverWebhook
<1>10. ASSUME NEW r \in Requests, BeginOn(r) \/ Rpc(r) PROVE Goal
  <2>1. UNCHANGED store
    BY <1>10 DEF BeginOn, BeginJoin, BeginStart, BeginEnd, BeginDelete, Begin,
                 BeginCloseRoom, Rpc, CreateRoomRpc, DeleteRoomRpc
  <2> QED BY <1>t, <2>1, SameShut
<1>11. ASSUME NEW where \in Rooms, Environment(where) PROVE Goal
  <2>1. UNCHANGED store
    BY <1>11 DEF Environment, ParticipantEnters, ParticipantLeaves, RoomIdle,
                 TokenExpires, AdHocToken, LoseWebhook
  <2> QED BY <1>t, <2>1, SameShut
<1>12. ASSUME Crash PROVE Goal
  BY <1>t, <1>12 DEF Crash
<1>13. ASSUME UNCHANGED vars PROVE Goal
  BY <1>t, <1>13, SameShut DEF vars
<1>14. ASSUME NEW ok \in SaveOutcomes, DispatchAgent(ok) PROVE Goal
  BY <1>t, <1>14, SameShut DEF DispatchAgent
<1> QED
  BY <1>1, <1>2, <1>3, <1>4, <1>5, <1>6, <1>7, <1>8, <1>9, <1>10, <1>11, <1>12, <1>13, <1>14
  DEF Next, StoreOnly, Write

\* The rest: no room, no token, no webhook and no opening handler appears.
LEMMA LockedStep ==
  ASSUME CallInv, [Next]_vars, NEW room \in Rooms, Closed(room), ~Reopens(room)
  PROVE  Locked(room)'
<1> DEFINE Goal == Locked(room)'
<1>t. TypeOK /\ Shut(meetings, room) /\ Locked(room)
  BY ClosedParts DEF CallInv, StoreInv
<1>c. room \notin up /\ room \notin tokens /\ hooks[room] = << >> /\ inRoom[room] = 0
  BY <1>t DEF Locked, CallInv, NobodyOutside
<1>f. ASSUME UNCHANGED <<up, tokens, hooks>>,
             \A r \in Requests : req'[r] = req[r] \/ req'[r] = NoRequest
                                 \/ req'[r].room # room \/ req'[r].op \notin Opening
      PROVE  Goal
  BY <1>t, <1>f DEF Locked
<1>r. ASSUME UNCHANGED req, room \notin up', room \notin tokens', hooks'[room] = << >>
      PROVE  Goal
  BY <1>t, <1>r DEF Locked
<1>1. ASSUME StoreOnly \/ UNCHANGED vars PROVE Goal
  <2>1. UNCHANGED <<up, tokens, hooks, req>>
    BY <1>1 DEF StoreOnly, CreateMeeting, PatchStatus, DispatchAgent, vars, livekit
  <2> QED BY <1>f, <2>1
<1>2. ASSUME Crash PROVE Goal
  BY <1>f, <1>2 DEF Crash, livekit
<1>3. ASSUME NEW q \in Requests, Write(q) PROVE Goal
  <2>1. Finish(q) /\ UNCHANGED <<up, hooks>> /\ (UNCHANGED tokens \/ \E ok : JoinWrite(q, ok))
    BY <1>3 DEF Write, JoinWrite, StartWrite, EndWrite, DeleteWrite, CloseRoomWrite,
       HandleWebhook, livekit
  <2>2. \A r \in Requests : req'[r] = req[r] \/ req'[r] = NoRequest
    BY <1>t, <2>1 DEF Finish, TypeOK
  <2>3. CASE UNCHANGED tokens
    BY <1>f, <2>1, <2>2, <2>3
  <2>4. CASE \E ok : JoinWrite(q, ok)
    <3>1. PICK ok : JoinWrite(q, ok) BY <2>4
    <3>2. req[q] # NoRequest /\ req[q].op \in Opening
      BY <1>t, <3>1, AtRequest DEF JoinWrite, At, Opening
    <3>3. req[q].room # room /\ tokens' = tokens \cup {req[q].room}
      BY <1>t, <3>1, <3>2 DEF Locked, JoinWrite
    <3> QED BY <1>t, <2>1, <2>2, <3>3 DEF Locked
  <2> QED BY <2>1, <2>3, <2>4
<1>4. ASSUME NEW q \in Requests, Rpc(q) PROVE Goal
  <2>1. PICK outcome \in RpcOutcomes : CreateRoomRpc(q, outcome) \/ DeleteRoomRpc(q, outcome)
    BY <1>4 DEF Rpc
  <2>2. req[q] \in Request /\ req[q] # NoRequest /\ req[q].room \in Rooms
    BY <1>t, <2>1, AtRequest, RequestType DEF CreateRoomRpc, DeleteRoomRpc
  <2>3. /\ [req[q] EXCEPT !.step = "write"].op = req[q].op
        /\ [req[q] EXCEPT !.step = "write"].room = req[q].room
    BY <2>2 DEF Request
  <2>4. UNCHANGED tokens
        /\ (req' = [req EXCEPT ![q] = NoRequest]
            \/ req' = [req EXCEPT ![q] = [req[q] EXCEPT !.step = "write"]])
    BY <2>1 DEF CreateRoomRpc, DeleteRoomRpc
  <2>5. \A r \in Requests : req'[r] = req[r] \/ req'[r] = NoRequest
                            \/ req'[r].room # room \/ req'[r].op \notin Opening
    <3> TAKE r \in Requests
    <3>0. req \in [Requests -> Request \cup {NoRequest}] BY <1>t DEF TypeOK
    <3>1. CASE r = q
      <4>1. req[q].room # room \/ req[q].op \notin Opening
        BY <1>t, <2>2 DEF Locked
      <4>2. req'[q] = NoRequest \/ req'[q] = [req[q] EXCEPT !.step = "write"]
        BY <2>4, <3>0
      <4> QED BY <2>3, <3>1, <4>1, <4>2
    <3>2. CASE r # q
      BY <2>4, <3>0, <3>2
    <3> QED BY <3>1, <3>2
  <2>6. room \notin up' /\ hooks'[room] = << >>
    <3>1. CASE UNCHANGED livekit
      BY <1>c, <3>1 DEF livekit
    <3>2. CASE CreateRoomRpc(q, outcome) /\ ~UNCHANGED livekit
      <4>1. OpenRoom(req[q].room) /\ req[q].op \in Opening
        BY <3>2 DEF CreateRoomRpc, At, Opening
      <4>2. req[q].room # room
        BY <1>t, <2>2, <4>1 DEF Locked
      <4> QED BY <1>c, <1>t, <4>1, <4>2 DEF OpenRoom, Emit, TypeOK
    <3>3. CASE DeleteRoomRpc(q, outcome) /\ ~UNCHANGED livekit
      <4>1. CloseRoom(req[q].room)
        BY <3>3 DEF DeleteRoomRpc
      <4>2. req[q].room # room
        BY <1>c, <3>3, <4>1 DEF CloseRoom
      <4> QED BY <1>c, <1>t, <3>3, <4>1, <4>2 DEF CloseRoom, Emit, TypeOK
    <3> QED BY <2>1, <3>1, <3>2, <3>3
  <2> QED BY <1>c, <1>t, <2>4, <2>5, <2>6 DEF Locked
<1>5. ASSUME NEW q \in Requests, Deliver(q) PROVE Goal
  <2>1. PICK where \in Rooms : \E k \in DOMAIN hooks[where] :
          \E again \in BOOLEAN, ok \in SaveOutcomes : DeliverWebhook(q, where, k, again, ok)
    BY <1>5 DEF Deliver
  <2>2. where # room
    BY <1>c, <2>1
  <2>3. PICK k, again, ok : DeliverWebhook(q, where, k, again, ok)
    BY <2>1
  <2>4. /\ UNCHANGED <<up, tokens>> /\ hooks'[room] = hooks[room] /\ req'[q].room # room
        /\ \A r \in Requests \ {q} : req'[r] = req[r]
    BY <1>t, <2>2, <2>3 DEF DeliverWebhook, TypeOK
  <2> QED BY <1>t, <2>4 DEF Locked
<1>6. ASSUME NEW q \in Requests, BeginOn(q) PROVE Goal
  <2>1. CASE \E where \in Rooms : BeginCloseRoom(q, where)
    <3>1. /\ UNCHANGED <<up, tokens, hooks>> /\ req'[q].op = "closeRoom"
          /\ \A r \in Requests \ {q} : req'[r] = req[r]
      BY <1>t, <2>1 DEF BeginCloseRoom, TypeOK, livekit
    <3> QED BY <1>f, <3>1 DEF Opening, HookEvents
  <2>2. ASSUME NEW i \in DOMAIN meetings, NEW op, NEW step, Begin(q, op, step, i),
               op \in Opening => meetings[i].room # room
        PROVE  Goal
    <3>1. /\ UNCHANGED <<up, tokens, hooks>> /\ req'[q].op = op /\ req'[q].room = meetings[i].room
          /\ \A r \in Requests \ {q} : req'[r] = req[r]
      BY <1>t, <2>2 DEF Begin, TypeOK, livekit
    <3> QED BY <1>f, <2>2, <3>1
  <2>3. ASSUME NEW i \in DOMAIN meetings, BeginJoin(q, i) PROVE Goal
    <3>1. meetings[i].room # room
      BY <1>t, <2>3 DEF BeginJoin, Shut, InRoom, Ended
    <3> QED BY <2>2, <2>3, <3>1 DEF BeginJoin
  <2>4. ASSUME NEW i \in DOMAIN meetings, BeginStart(q, i) PROVE Goal
    <3>1. meetings[i].room # room
      BY <2>4 DEF Reopens, InRoom
    <3> QED BY <2>2, <2>4, <3>1 DEF BeginStart
  <2>5. ASSUME NEW i \in DOMAIN meetings, BeginEnd(q, i) \/ BeginDelete(q, i) PROVE Goal
    <3>1. \E op \in {"end", "delete"} : \E step : Begin(q, op, step, i)
      BY <2>5 DEF BeginEnd, BeginDelete
    <3> QED BY <2>2, <3>1 DEF Opening, HookEvents
  <2> QED BY <1>6, <2>1, <2>3, <2>4, <2>5 DEF BeginOn
<1>7. ASSUME NEW where \in Rooms, Environment(where) PROVE Goal
  <2>1. CASE ParticipantEnters(where)
    BY <1>c, <1>r, <1>t, <2>1 DEF ParticipantEnters, Emit, TypeOK
  <2>2. CASE ParticipantLeaves(where)
    BY <1>c, <1>r, <1>t, <2>2 DEF ParticipantLeaves, Emit, TypeOK
  <2>3. CASE RoomIdle(where)
    BY <1>c, <1>r, <1>t, <2>3 DEF RoomIdle, CloseRoom, Emit, TypeOK
  <2>4. CASE TokenExpires(where)
    BY <1>c, <1>r, <2>4 DEF TokenExpires, livekit
  <2>5. CASE AdHocToken(where)
    BY <1>c, <1>r, <1>t, <2>5 DEF AdHocToken, Shut, livekit
  <2>6. CASE \E k \in DOMAIN hooks[where] : LoseWebhook(where, k)
    BY <1>c, <1>r, <1>t, <2>6 DEF LoseWebhook, TypeOK
  <2> QED BY <1>7, <2>1, <2>2, <2>3, <2>4, <2>5, <2>6 DEF Environment
<1> QED BY <1>1, <1>2, <1>3, <1>4, <1>5, <1>6, <1>7 DEF Next

\* service.go:298-361, 372-415, 469-525 and 672-713: once a call is over, neither
\* a join, an ad-hoc token, a late end or room deletion nor a crash opens its
\* room; it takes a start, a PATCH, a new meeting or a deletion.
THEOREM StaysClosed == Spec => ClosedUntilReopened
<1>1. CallInv /\ [Next]_vars =>
        [\A room \in Rooms : Closed(room) => Closed(room)' \/ Reopens(room)]_vars
  <2> SUFFICES ASSUME CallInv, [Next]_vars, NEW room \in Rooms, Closed(room), ~Reopens(room)
               PROVE  Closed(room)'
    OBVIOUS
  <2> QED BY ShutStep, LockedStep, ClosedParts
<1> QED BY <1>1, CallInvariance, PTL DEF Spec, ClosedUntilReopened

-----------------------------------------------------------------------------
(* The participant count.  A webhook overwrites it, so what matters is that   *)
(* the webhooks of a room arrive in order and all reach the same meeting.     *)

\* Clients join and start, and close rooms; LiveKit may send a webhook twice, but
\* loses none and keeps their order, and the process does not die.
OrderedOps   == {"join", "start", "closeRoom"}
OrderedCalls == Ops \subseteq OrderedOps /\ Faults \subseteq {"duplicate"}

\* Every meeting has a room of its own.
Unshared == \A i, j \in DOMAIN meetings : meetings[i].room = meetings[j].room => i = j

Handling(r, room) ==
  req[r] # NoRequest /\ req[r].room = room /\ req[r].op \in HookEvents

\* Handled one after the other, the webhooks h turn the count c into n.
\* room_started leaves the count alone, so it must find it at 0.
Tells(h, c, n) ==
  /\ h = << >> => c = n
  /\ h # << >> => h[Len(h)].num = n
  /\ \A k \in 1..Len(h) :
       /\ h[k].event # "participants" => h[k].num = 0
       /\ h[k].event = "room_started" => IF k = 1 THEN c = 0 ELSE h[k - 1].num = 0

\* The count of the room's meeting once the webhook under way is handled.
Shows(room, c) ==
  \/ \E r \in Requests : Handling(r, room) /\ req[r].num = c
  \/ /\ \A r \in Requests : ~Handling(r, room)
     /\ \E i \in InRoom(meetings, room) : meetings[i].num = c

\* One webhook of the room is handled at a time, and writes the count it carries.
InTurn(room) ==
  /\ \A q, r \in Requests : Handling(q, room) /\ Handling(r, room) => q = r
  /\ \A r \in Requests : Handling(r, room) =>
       /\ req[r].op # "participants" => req[r].num = 0
       /\ req[r].op = "room_started" =>
            \A i \in InRoom(meetings, room) : meetings[i].num = 0

\* A room without a meeting is not in use; at most, somebody tries to close it.
Unused(room) ==
  /\ room \notin up \cup tokens
  /\ hooks[room] = << >>
  /\ \A r \in Requests : req[r] # NoRequest /\ req[r].room = room => req[r].op = "closeRoom"

Counting(room) ==
  /\ InRoom(meetings, room) = {} => Unused(room)
  /\ InRoom(meetings, room) # {} =>
       InTurn(room) /\ \E c \in Nat : Shows(room, c) /\ Tells(hooks[room], c, inRoom[room])

OnlyOrdered == \A r \in Requests :
  req[r] # NoRequest => req[r].op \in OrderedOps \cup HookEvents

CountInv == CallInv /\ OnlyOrdered /\ \A room \in Rooms : Counting(room)

\* How the webhooks still to come change: one more is sent, the first is handed
\* to a handler, or LiveKit hands it over and keeps it to send it again.
LEMMA TellsMore ==
  ASSUME NEW h \in Seq(Hook), NEW c, NEW n, Tells(h, c, n), NEW e \in Hook,
         e.event # "participants" => e.num = 0,
         e.event = "room_started" => n = 0
  PROVE  Tells(h \o <<e>>, c, e.num)
<1> DEFINE g == h \o <<e>>
<1>1. Len(g) = Len(h) + 1 /\ Len(h) \in Nat /\ g[Len(h) + 1] = e /\ g # << >>
  OBVIOUS
<1>2. \A k \in 1..Len(h) : g[k] = h[k]
  OBVIOUS
<1>3. CASE h = << >>
  <2>1. Len(g) = 1 /\ g[1] = e /\ c = n
    BY <1>1, <1>3 DEF Tells
  <2> HIDE DEF g
  <2> QED BY <1>1, <2>1 DEF Tells
<1>4. CASE h # << >>
  <2>1. h[Len(h)].num = n /\ Len(h) >= 1
    BY <1>4 DEF Tells
  <2>2. \A k \in 1..Len(h) :
          /\ h[k].event # "participants" => h[k].num = 0
          /\ h[k].event = "room_started" => IF k = 1 THEN c = 0 ELSE h[k - 1].num = 0
    BY DEF Tells
  <2> HIDE DEF g
  <2>3. ASSUME NEW k \in 1..Len(g)
        PROVE  /\ g[k].event # "participants" => g[k].num = 0
               /\ g[k].event = "room_started" => IF k = 1 THEN c = 0 ELSE g[k - 1].num = 0
    <3>1. CASE k = Len(h) + 1
      BY <1>1, <1>2, <2>1, <3>1
    <3>2. CASE k # Len(h) + 1
      <4>1. k \in 1..Len(h) /\ (k # 1 => k - 1 \in 1..Len(h))
        BY <1>1, <3>2
      <4> QED BY <1>2, <2>2, <4>1
    <3> QED BY <3>1, <3>2
  <2> QED BY <1>1, <2>3 DEF Tells
<1> QED BY <1>3, <1>4

\* The webhooks of a room's departures: one per participant, then room_finished.
LEMMA DeparturesItems ==
  ASSUME NEW q \in 0..MaxParticipants
  PROVE  /\ Departures(q) \in Seq(Hook)
         /\ Len(Departures(q)) = q + 1
         /\ \A k \in 1..q : Departures(q)[k] = [event |-> "participants", num |-> q - k]
         /\ Departures(q)[q + 1] = [event |-> "room_finished", num |-> 0]
<1> DEFINE left == [k \in 1..q |-> [event |-> "participants", num |-> q - k]]
           final == [event |-> "room_finished", num |-> 0]
<1>1. q \in Nat
  BY BoundsAssumption DEF BoundsAssumption
<1>2. \A k \in 1..q : [event |-> "participants", num |-> q - k] \in Hook
  BY BoundsAssumption DEF BoundsAssumption, Hook, HookEvents
<1>3. left \in Seq(Hook)
  BY <1>2, BoundsAssumption DEF BoundsAssumption
<1>4. DOMAIN left = 1..q /\ \A k \in 1..q : left[k] = [event |-> "participants", num |-> q - k]
  OBVIOUS
<1>5. final \in Hook
  BY BoundsAssumption DEF BoundsAssumption, Hook, HookEvents
<1>6. Departures(q) = left \o <<final>>
  BY DEF Departures
<1> HIDE DEF left, final
<1>7. Len(left) = q
  BY <1>1, <1>3, <1>4
<1>8. /\ left \o <<final>> \in Seq(Hook)
      /\ Len(left \o <<final>>) = q + 1
      /\ \A k \in 1..q : (left \o <<final>>)[k] = left[k]
      /\ (left \o <<final>>)[q + 1] = final
  BY <1>1, <1>3, <1>5, <1>7
<1> QED BY <1>4, <1>6, <1>8 DEF final

\* Whoever is inside leaves and the room is finished: no count has to be 0 before.
LEMMA TellsDepartures ==
  ASSUME NEW h \in Seq(Hook), NEW c, NEW n \in Nat, Tells(h, c, n),
         NEW q \in 0..MaxParticipants
  PROVE  Tells(h \o Departures(q), c, 0)
<1> DEFINE d == Departures(q)
           g == h \o d
<1>q. q \in Nat
  BY BoundsAssumption DEF BoundsAssumption
<1>3. /\ Len(d) = q + 1 /\ d[q + 1] = [event |-> "room_finished", num |-> 0]
      /\ \A k \in 1..q : d[k] = [event |-> "participants", num |-> q - k]
      /\ d \in Seq(Hook)
  BY DeparturesItems
<1> HIDE DEF d
<1>5. /\ g \in Seq(Hook) /\ Len(g) = Len(h) + q + 1 /\ Len(h) \in Nat
      /\ \A k \in 1..Len(h) : g[k] = h[k]
      /\ \A k \in 1..q + 1 : g[Len(h) + k] = d[k]
  BY <1>q, <1>3
<1> HIDE DEF g
<1>6. ASSUME NEW k \in 1..Len(g)
      PROVE  /\ g[k].event # "participants" => g[k].num = 0
             /\ g[k].event = "room_started" => IF k = 1 THEN c = 0 ELSE g[k - 1].num = 0
  <2>1. CASE k <= Len(h)
    <3>1. k \in 1..Len(h) /\ g[k] = h[k] /\ (k # 1 => g[k - 1] = h[k - 1])
      BY <1>5, <2>1
    <3> QED BY <3>1 DEF Tells
  <2>2. CASE k > Len(h)
    <3>1. k - Len(h) \in 1..q + 1 /\ g[k] = d[k - Len(h)]
      <4>1. k - Len(h) \in 1..q + 1 /\ Len(h) + (k - Len(h)) = k
        BY <1>q, <1>5, <2>2
      <4> QED BY <1>5, <4>1
    <3>2. CASE k - Len(h) = q + 1
      BY <1>3, <3>1, <3>2
    <3>3. CASE k - Len(h) # q + 1
      <4>1. k - Len(h) \in 1..q
        BY <1>q, <3>1, <3>3
      <4>2. g[k] = [event |-> "participants", num |-> q - (k - Len(h))]
        BY <1>3, <3>1, <4>1
      <4> QED BY <4>2
    <3> QED BY <3>2, <3>3
  <2> QED BY <1>5, <2>1, <2>2
<1>7. g # << >> /\ g[Len(g)].num = 0
  <2>1. Len(g) = Len(h) + (q + 1) /\ q + 1 \in 1..q + 1 /\ Len(g) # 0
    BY <1>q, <1>5
  <2> QED BY <1>3, <1>5, <2>1
<1> QED BY <1>6, <1>7 DEF Tells, g, d

LEMMA TwoMore ==
  ASSUME NEW h \in Seq(Hook), NEW a \in Hook, NEW b \in Hook
  PROVE  h \o <<a, b>> = (h \o <<a>>) \o <<b>>
<1> DEFINE g == h \o <<a, b>>
           f == (h \o <<a>>) \o <<b>>
<1>1. g \in Seq(Hook) /\ f \in Seq(Hook) /\ Len(g) = Len(h) + 2 /\ Len(f) = Len(h) + 2
  OBVIOUS
<1>2. \A k \in 1..Len(h) + 2 : g[k] = f[k]
  OBVIOUS
<1> HIDE DEF g, f
<1>3. g = f
  BY <1>1, <1>2
<1> QED BY <1>3 DEF g, f

LEMMA TellsNext ==
  ASSUME NEW h \in Seq(Hook), NEW c, NEW n, Tells(h, c, n), h # << >>
  PROVE  /\ Tells(RemoveAt(h, 1), h[1].num, n)
         /\ Tells(h, h[1].num, n)
         /\ h[1].event # "participants" => h[1].num = 0
         /\ h[1].event = "room_started" => c = 0
<1>1. Len(h) \in Nat /\ Len(h) >= 1 /\ h[Len(h)].num = n
  BY DEF Tells
<1>2. \A k \in 1..Len(h) :
        /\ h[k].event # "participants" => h[k].num = 0
        /\ h[k].event = "room_started" => IF k = 1 THEN c = 0 ELSE h[k - 1].num = 0
  BY DEF Tells
<1>3. /\ h[1].event # "participants" => h[1].num = 0
      /\ h[1].event = "room_started" => c = 0 /\ h[1].num = 0
  BY <1>1, <1>2
<1>4. Tells(h, h[1].num, n)
  BY <1>1, <1>2, <1>3 DEF Tells
<1>5. Tells(RemoveAt(h, 1), h[1].num, n)
  <2> DEFINE g == RemoveAt(h, 1)
  <2>1. g = SubSeq(h, 1, 0) \o SubSeq(h, 2, Len(h))
    BY DEF RemoveAt
  <2>2. Len(g) = Len(h) - 1 /\ \A k \in 1..Len(h) - 1 : g[k] = h[k + 1]
    BY <1>1, <2>1
  <2>3. g \in Seq(Hook)
    BY <1>1, RemoveAtType
  <2> HIDE DEF g
  <2>4. CASE Len(h) = 1
    <3>1. g = << >>
      BY <2>2, <2>3, <2>4
    <3> QED BY <1>1, <2>4, <3>1 DEF Tells, g
  <2>5. CASE Len(h) # 1
    <3>1. g # << >> /\ g[Len(g)].num = n
      BY <1>1, <2>2, <2>3, <2>5
    <3>2. ASSUME NEW k \in 1..Len(g)
          PROVE  /\ g[k].event # "participants" => g[k].num = 0
                 /\ g[k].event = "room_started" => IF k = 1 THEN h[1].num = 0 ELSE g[k - 1].num = 0
      <4>1. k + 1 \in 1..Len(h) /\ g[k] = h[k + 1] /\ (k # 1 => g[k - 1] = h[k])
        BY <1>1, <2>2
      <4> QED BY <1>2, <4>1
    <3> QED BY <3>1, <3>2 DEF Tells, g
  <2> QED BY <2>4, <2>5
<1> QED BY <1>3, <1>4, <1>5

-----------------------------------------------------------------------------
(* One step, seen from one room. *)

SameCounts(room) ==
  /\ InRoom(meetings', room) = InRoom(meetings, room)
  /\ \A i \in InRoom(meetings, room) : meetings'[i].num = meetings[i].num
SameHandling(room) == \A r \in Requests :
  /\ Handling(r, room)' <=> Handling(r, room)
  /\ Handling(r, room) => req'[r] = req[r]

LEMMA ShowsKept ==
  ASSUME NEW room, SameCounts(room), SameHandling(room)
  PROVE  /\ InTurn(room) => InTurn(room)'
         /\ \A c : Shows(room, c) => Shows(room, c)'
<1>1. InTurn(room) => InTurn(room)'
  <2>1. \A r \in Requests : Handling(r, room)' => Handling(r, room) /\ req'[r] = req[r]
    BY DEF SameHandling
  <2>2. InRoom(meetings, room)' = InRoom(meetings', room)
    BY DEF InRoom
  <2> QED BY <2>1, <2>2 DEF InTurn, SameCounts
<1>2. ASSUME NEW c, Shows(room, c) PROVE Shows(room, c)'
  <2>1. CASE \E r \in Requests : Handling(r, room) /\ req[r].num = c
    BY <2>1 DEF Shows, SameHandling
  <2>2. CASE /\ \A r \in Requests : ~Handling(r, room)
             /\ \E i \in InRoom(meetings, room) : meetings[i].num = c
    <3>1. InRoom(meetings, room)' = InRoom(meetings', room)
      BY DEF InRoom
    <3> QED BY <2>2, <3>1 DEF Shows, SameHandling, SameCounts
  <2> QED BY <1>2, <2>1, <2>2 DEF Shows
<1> QED BY <1>1, <1>2

\* Nothing is sent or handled in the room: a handler may come or go, and what it
\* writes leaves the count alone.
LEMMA CountingKept ==
  ASSUME NEW room \in Rooms, Counting(room), SameCounts(room), SameHandling(room),
         hooks'[room] = hooks[room], inRoom'[room] = inRoom[room],
         InRoom(meetings, room) = {} => Unused(room)'
  PROVE  Counting(room)'
<1>1. InRoom(meetings, room)' = InRoom(meetings, room)
  BY DEF SameCounts, InRoom
<1>2. CASE InRoom(meetings, room) = {}
  BY <1>1, <1>2 DEF Counting
<1>3. CASE InRoom(meetings, room) # {}
  <2>1. PICK c \in Nat : Shows(room, c) /\ Tells(hooks[room], c, inRoom[room])
    BY <1>3 DEF Counting
  <2>2. Shows(room, c)' /\ InTurn(room)'
    BY <1>3, <2>1, ShowsKept DEF Counting
  <2>3. Tells(hooks'[room], c, inRoom'[room])
    BY <2>1
  <2>4. Tells(hooks[room], c, inRoom[room])'
    BY <2>3 DEF Tells
  <2> QED BY <1>1, <1>3, <2>2, <2>4 DEF Counting
<1> QED BY <1>2, <1>3

\* LiveKit sends webhooks that end with the number of people now inside.
LEMMA CountingSent ==
  ASSUME NEW room \in Rooms, Counting(room), InRoom(meetings, room) # {},
         SameCounts(room), SameHandling(room),
         \A c \in Nat : Tells(hooks[room], c, inRoom[room]) =>
                          Tells(hooks'[room], c, inRoom'[room])
  PROVE  Counting(room)'
<1>1. InRoom(meetings, room)' = InRoom(meetings, room)
  BY DEF SameCounts, InRoom
<1>2. PICK c \in Nat : Shows(room, c) /\ Tells(hooks[room], c, inRoom[room])
  BY DEF Counting
<1>3. Shows(room, c)' /\ InTurn(room)'
  BY <1>2, ShowsKept DEF Counting
<1>4. Tells(hooks[room], c, inRoom[room])'
  BY <1>2 DEF Tells
<1> QED BY <1>1, <1>3, <1>4 DEF Counting

\* The other rooms see nothing of a step on one room.
LEMMA CountingElsewhere ==
  ASSUME NEW room \in Rooms, Counting(room), SameCounts(room), UNCHANGED req,
         hooks'[room] = hooks[room], inRoom'[room] = inRoom[room],
         room \in up' => room \in up, room \in tokens' => room \in tokens
  PROVE  Counting(room)'
<1>1. SameHandling(room)
  BY DEF SameHandling, Handling
<1>2. InRoom(meetings, room) = {} => Unused(room)'
  BY DEF Counting, Unused
<1> QED BY <1>1, <1>2, CountingKept

\* A step of one handler that is not a webhook's, before and after.
LEMMA HandlerMoves ==
  ASSUME NEW room, NEW q \in Requests,
         req[q] # NoRequest => req[q].op \notin HookEvents,
         req'[q] # NoRequest => req'[q].op \notin HookEvents,
         \A r \in Requests \ {q} : req'[r] = req[r]
  PROVE  SameHandling(room)
BY DEF SameHandling, Handling

\* The store, when no count changes.
LEMMA RewriteCounts ==
  ASSUME TypeOK, NEW room, NEW i \in DOMAIN meetings, NEW m, NEW ok,
         m.room = meetings[i].room, meetings[i].room = room => m.num = meetings[i].num,
         Commit([meetings EXCEPT ![i] = m], ok)
  PROVE  SameCounts(room)
<1> DEFINE S == [meetings EXCEPT ![i] = m]
<1>1. meetings \in [DOMAIN meetings -> Meeting] BY SnapshotForm DEF TypeOK
<1>2. DOMAIN S = DOMAIN meetings /\ S[i] = m
      /\ \A j \in DOMAIN meetings : j # i => S[j] = meetings[j]
  BY <1>1
<1>3. meetings' = S
  BY DEF Commit
<1> HIDE DEF S
<1> QED BY <1>2, <1>3 DEF SameCounts, InRoom

LEMMA StoreCounts ==
  ASSUME NEW room, UNCHANGED store \/ \E ok : Commit(meetings, ok)
  PROVE  SameCounts(room)
BY DEF Commit, store, SameCounts

LEMMA MarkKeepsNum ==
  ASSUME NEW m \in Meeting
  PROVE  /\ MarkLive(m).num = m.num /\ MarkLive(m).room = m.room
         /\ [MarkLive(m) EXCEPT !.stopped = FALSE].num = m.num
         /\ [MarkLive(m) EXCEPT !.stopped = FALSE].room = m.room
         /\ \A s : [m EXCEPT !.status = s].num = m.num /\ [m EXCEPT !.status = s].room = m.room
BY DEF MarkLive, Meeting

\* Who is at work on a room, or in it, shows that the room has a meeting.
LEMMA UsedRooms ==
  ASSUME CountInv, NEW room \in Rooms
  PROVE  /\ room \in up \cup tokens => InRoom(meetings, room) # {}
         /\ hooks[room] # << >> => InRoom(meetings, room) # {}
         /\ inRoom[room] # 0 => InRoom(meetings, room) # {}
         /\ \A r \in Requests :
              req[r] # NoRequest /\ req[r].room = room /\ req[r].op # "closeRoom" =>
                InRoom(meetings, room) # {}
BY DEF CountInv, Counting, Unused, CallInv, NobodyOutside

LEMMA CreateCounting ==
  ASSUME CountInv, Unshared', NEW room \in Rooms, NEW where \in Rooms, NEW ok,
         CreateMeeting(where, ok)
  PROVE  Counting(room)'
<1> DEFINE S == [i \in DOMAIN meetings \cup {nextId} |->
                   IF i = nextId THEN NewMeeting(where) ELSE meetings[i]]
<1>t. /\ TypeOK /\ Counting(room) /\ nextId \notin DOMAIN meetings
      /\ room \notin up => inRoom[room] = 0
  BY SnapshotForm, BoundsAssumption
  DEF CountInv, CallInv, StoreInv, IdsIssued, NobodyOutside, TypeOK, BoundsAssumption
<1>1. meetings' = S /\ UNCHANGED <<req, up, inRoom, hooks, tokens>>
  BY DEF CreateMeeting, Commit, livekit
<1>2. DOMAIN S = DOMAIN meetings \cup {nextId} /\ S[nextId] = NewMeeting(where)
      /\ \A i \in DOMAIN meetings : S[i] = meetings[i]
  BY <1>t
<1> HIDE DEF S
<1>3. NewMeeting(where).room = where /\ NewMeeting(where).num = 0
  BY DEF NewMeeting
<1>4. CASE room # where
  <2>1. SameCounts(room)
    BY <1>1, <1>2, <1>3, <1>4 DEF SameCounts, InRoom
  <2> QED BY <1>t, <1>1, <2>1, CountingElsewhere
<1>5. CASE room = where
  <2>1. InRoom(meetings, room) = {}
    <3> SUFFICES ASSUME NEW i \in InRoom(meetings, room) PROVE FALSE
      OBVIOUS
    <3>1. i \in DOMAIN S /\ nextId \in DOMAIN S /\ S[i].room = S[nextId].room
      BY <1>2, <1>3, <1>5 DEF InRoom
    <3> QED BY <1>t, <1>1, <3>1 DEF Unshared, InRoom
  <2>2. Unused(room) /\ inRoom[room] = 0
    BY <1>t, <2>1 DEF Counting, Unused
  <2>3. \A r \in Requests : ~Handling(r, room)'
    BY <1>1, <2>2 DEF Unused, Handling, HookEvents
  <2>4. nextId \in InRoom(meetings', room) /\ meetings'[nextId].num = 0
    BY <1>1, <1>2, <1>3, <1>5 DEF InRoom
  <2>5. InTurn(room)' /\ Shows(room, 0)'
    BY <2>3, <2>4 DEF InTurn, Shows, InRoom
  <2>6. Tells(hooks'[room], 0, inRoom'[room])
    BY <1>1, <2>2 DEF Unused, Tells
  <2>7. Tells(hooks[room], 0, inRoom[room])'
    BY <2>6 DEF Tells
  <2>8. InRoom(meetings, room)' # {}
    BY <2>4 DEF InRoom
  <2> QED BY <2>5, <2>7, <2>8 DEF Counting
<1> QED BY <1>4, <1>5

\* The writes of join and start mark the meeting live and leave its count.
LEMMA OpenWriteCounting ==
  ASSUME CountInv, NEW room \in Rooms, NEW q \in Requests, NEW ok,
         JoinWrite(q, ok) \/ StartWrite(q, ok)
  PROVE  Counting(room)'
<1> DEFINE i == req[q].id
<1>t. TypeOK /\ Counting(room) /\ req \in [Requests -> Request \cup {NoRequest}]
  BY DEF CountInv, CallInv, StoreInv, TypeOK
<1>1. /\ UNCHANGED <<up, hooks, inRoom>> /\ Finish(q)
      /\ tokens' \subseteq tokens \cup {req[q].room}
      /\ req[q].op \in {"join", "start"} /\ req[q] # NoRequest
  BY <1>t, AtRequest DEF JoinWrite, StartWrite, livekit, At
<1>2. req'[q] = NoRequest /\ \A r \in Requests \ {q} : req'[r] = req[r]
  BY <1>t, <1>1 DEF Finish
<1>3. SameHandling(room)
  BY <1>1, <1>2, HandlerMoves DEF HookEvents
<1>4. SameCounts(room)
  <2>1. CASE UNCHANGED store \/ Commit(meetings, ok)
    BY <2>1, StoreCounts
  <2>2. ASSUME i \in DOMAIN meetings, NEW m \in {MarkLive(meetings[i]), [MarkLive(meetings[i]) EXCEPT !.stopped = FALSE]},
               Commit([meetings EXCEPT ![i] = m], ok)
        PROVE  SameCounts(room)
    <3>1. m.room = meetings[i].room /\ m.num = meetings[i].num
      BY <1>t, <2>2, MeetingsAreMeetings, MarkKeepsNum
    <3> QED BY <1>t, <2>2, <3>1, RewriteCounts
  <2>3. CASE JoinWrite(q, ok)
    BY <2>1, <2>2, <2>3 DEF JoinWrite
  <2>4. CASE StartWrite(q, ok)
    BY <2>1, <2>2, <2>4 DEF StartWrite, UpdateAt
  <2> QED BY <2>3, <2>4
<1>5. InRoom(meetings, room) = {} => Unused(room)'
  <2> SUFFICES ASSUME InRoom(meetings, room) = {} PROVE Unused(room)'
    OBVIOUS
  <2>1. Unused(room)
    BY <1>t DEF Counting
  <2> QED BY <1>1, <1>2, <2>1 DEF Unused
<1> QED BY <1>t, <1>1, <1>3, <1>4, <1>5, CountingKept

\* A webhook's write: the count becomes the one the webhook carries.
LEMMA HookEffectCount ==
  ASSUME NEW h, h.op \in HookEvents, NEW m \in Meeting,
         h.op # "participants" => h.num = 0,
         h.op = "room_started" => m.num = 0
  PROVE  HookEffect(h, m).num = h.num /\ HookEffect(h, m).room = m.room
<1>1. CASE h.op = "room_started" BY <1>1, MarkKeepsNum DEF HookEffect
<1>2. CASE h.op = "room_finished" BY <1>2 DEF HookEffect, MarkEnded, Meeting
<1>3. CASE h.op = "participants" BY <1>3 DEF HookEffect, Meeting
<1> QED BY <1>1, <1>2, <1>3 DEF HookEvents

LEMMA HookWriteCounting ==
  ASSUME CountInv, Unshared, NEW room \in Rooms, NEW q \in Requests, NEW ok,
         HandleWebhook(q, ok)
  PROVE  Counting(room)'
<1> DEFINE mutated == [i \in DOMAIN meetings |-> HookEffect(req[q], meetings[i])]
<1>t. TypeOK /\ Counting(room) /\ req \in [Requests -> Request \cup {NoRequest}]
  BY DEF CountInv, CallInv, StoreInv, TypeOK
<1>1. /\ UNCHANGED <<up, hooks, inRoom, tokens>> /\ Finish(q)
      /\ Handling(q, req[q].room) /\ req[q] \in Request /\ req[q].room \in Rooms
      /\ UpdateByRoom(req[q].room, mutated, ok)
  BY <1>t, AtRequest, RequestType DEF HandleWebhook, livekit, At, Handling
<1>2. req'[q] = NoRequest /\ \A r \in Requests \ {q} : req'[r] = req[r]
  BY <1>t, <1>1 DEF Finish
<1>3. InRoom(meetings, req[q].room) # {} /\ InTurn(req[q].room)
  BY <1>1, UsedRooms DEF Handling, HookEvents, CountInv, Counting
<1>4. PICK i \in InRoom(meetings, req[q].room) :
        Commit([meetings EXCEPT ![i] = mutated[i]], ok)
  BY <1>1, <1>3 DEF UpdateByRoom
<1>5. i \in DOMAIN meetings /\ meetings[i] \in Meeting /\ meetings[i].room = req[q].room
  BY <1>t, MeetingsAreMeetings DEF InRoom
<1>6. mutated[i].num = req[q].num /\ mutated[i].room = meetings[i].room
  BY <1>1, <1>3, <1>5, HookEffectCount DEF InTurn, Handling
<1> HIDE DEF mutated
<1>7. CASE room # req[q].room
  <2>1. SameCounts(room)
    BY <1>t, <1>4, <1>5, <1>6, <1>7, RewriteCounts
  <2>2. SameHandling(room)
    BY <1>2, <1>7 DEF SameHandling, Handling
  <2>3. InRoom(meetings, room) = {} => Unused(room)'
    BY <1>t, <1>1, <1>2 DEF Counting, Unused
  <2> QED BY <1>t, <1>1, <2>1, <2>2, <2>3, CountingKept
<1>8. CASE room = req[q].room
  <2>1. PICK c \in Nat : Shows(room, c) /\ Tells(hooks[room], c, inRoom[room])
    BY <1>t, <1>3, <1>8 DEF Counting
  <2>2. c = req[q].num
    BY <1>1, <1>3, <1>8, <2>1 DEF Shows, InTurn
  <2>3. \A r \in Requests : ~Handling(r, room)'
    BY <1>1, <1>2, <1>3, <1>8 DEF InTurn, Handling
  <2>4. meetings' = [meetings EXCEPT ![i] = mutated[i]]
    BY <1>4 DEF Commit
  <2>5. i \in InRoom(meetings', room) /\ meetings'[i].num = c
    <3>1. meetings'[i] = mutated[i] /\ i \in DOMAIN meetings'
      BY <1>t, <1>5, <2>4, SnapshotForm DEF TypeOK
    <3> QED BY <1>5, <1>6, <1>8, <2>2, <3>1 DEF InRoom
  <2>6. InTurn(room)' /\ Shows(room, c)'
    BY <2>3, <2>5 DEF InTurn, Shows, InRoom
  <2>7. Tells(hooks'[room], c, inRoom'[room])
    BY <1>1, <2>1
  <2>8. Tells(hooks[room], c, inRoom[room])'
    BY <2>7 DEF Tells
  <2>9. InRoom(meetings, room)' # {}
    BY <2>5 DEF InRoom
  <2> QED BY <2>6, <2>8, <2>9 DEF Counting
<1> QED BY <1>7, <1>8

\* A webhook is handed to a handler: its count is the next one to be written.
LEMMA DeliverCounting ==
  ASSUME CountInv, OrderedCalls, Unshared, NEW room \in Rooms, NEW q \in Requests,
         NEW where \in Rooms, NEW k \in DOMAIN hooks[where], NEW again, NEW ok,
         DeliverWebhook(q, where, k, again, ok)
  PROVE  Counting(room)'
<1> DEFINE h == hooks[where]
<1>t. /\ TypeOK /\ Counting(room) /\ h \in Seq(Hook)
      /\ req \in [Requests -> Request \cup {NoRequest}]
      /\ hooks \in [Rooms -> Seq(Hook)]
  BY DEF CountInv, CallInv, StoreInv, TypeOK
<1>1. /\ k = 1 /\ ~Busy(where, HookEvents) /\ req[q] = NoRequest
      /\ UNCHANGED <<up, inRoom, tokens>> /\ Commit(meetings, ok)
      /\ hooks'[where] = h \/ hooks'[where] = RemoveAt(h, 1)
      /\ \A other \in Rooms : other # where => hooks'[other] = hooks[other]
  BY <1>t DEF DeliverWebhook, OrderedCalls
<1>2. /\ req'[q].op = h[1].event /\ req'[q].num = h[1].num /\ req'[q].room = where
      /\ req'[q] # NoRequest
      /\ \A r \in Requests \ {q} : req'[r] = req[r]
  <2>1. req'[q] = [op |-> h[1].event, step |-> "write", id |-> 0, room |-> where,
                   wasLive |-> FALSE, num |-> h[1].num]
    BY <1>t, <1>1 DEF DeliverWebhook
  <2>2. req'[q].step = "write" /\ NoRequest.step = "none"
    BY <2>1 DEF NoRequest
  <2> QED BY <1>t, <1>1, <2>1, <2>2 DEF DeliverWebhook
<1>3. h # << >> /\ h[1] \in Hook /\ h[1].event \in HookEvents /\ h[1].num \in Nat
  <2>1. h[1] \in Hook
    BY <1>t, <1>1
  <2> QED BY <1>t, <1>1, <2>1, BoundsAssumption DEF Hook, BoundsAssumption
<1>4. SameCounts(room)
  BY <1>1, StoreCounts
<1>5. CASE room # where
  <2>1. SameHandling(room)
    BY <1>1, <1>2, <1>5 DEF SameHandling, Handling
  <2>2. InRoom(meetings, room) = {} => Unused(room)'
    BY <1>t, <1>1, <1>2, <1>5 DEF Counting, Unused
  <2> QED BY <1>t, <1>1, <1>4, <1>5, <2>1, <2>2, CountingKept
<1>6. CASE room = where
  <2>1. InRoom(meetings, room) # {}
    BY <1>3, <1>6, UsedRooms
  <2>2. PICK c \in Nat : Shows(room, c) /\ Tells(h, c, inRoom[room])
    BY <1>t, <1>6, <2>1 DEF Counting
  <2>3. \A r \in Requests : ~Handling(r, room)
    BY <1>1, <1>6 DEF Busy, Handling
  <2>4. \A r \in Requests : Handling(r, room)' <=> r = q
    BY <1>2, <1>3, <1>6, <2>3 DEF Handling
  <2>5. \A i \in InRoom(meetings, room) : meetings[i].num = c
    BY <2>2, <2>3 DEF Shows, Unshared, InRoom
  <2>6. /\ Tells(RemoveAt(h, 1), h[1].num, inRoom[room])
        /\ Tells(h, h[1].num, inRoom[room])
        /\ h[1].event # "participants" => h[1].num = 0
        /\ h[1].event = "room_started" => c = 0
    BY <1>t, <1>3, <2>2, TellsNext
  <2>7. meetings' = meetings
    BY <1>1 DEF Commit
  <2>8. PICK n \in Nat : n = h[1].num
    BY <1>3
  <2>9. InTurn(room)' /\ Shows(room, n)'
    BY <1>2, <2>4, <2>5, <2>6, <2>7, <2>8 DEF InTurn, Shows, InRoom
  <2>10. Tells(hooks[room], n, inRoom[room])'
    <3>1. Tells(hooks'[room], n, inRoom'[room])
      BY <1>1, <1>6, <2>6, <2>8
    <3> QED BY <3>1 DEF Tells
  <2>11. InRoom(meetings, room)' # {}
    BY <2>1, <2>7 DEF InRoom
  <2> QED BY <2>9, <2>10, <2>11 DEF Counting
<1> QED BY <1>5, <1>6

\* The call that creates the room: only a room that did not exist says so.
LEMMA CreateRoomCounting ==
  ASSUME CountInv, OrderedCalls, NEW room \in Rooms, NEW q \in Requests, NEW outcome,
         CreateRoomRpc(q, outcome)
  PROVE  Counting(room)'
<1> DEFINE where == req[q].room
           started == [event |-> "room_started", num |-> 0]
<1>h. started \in Hook
  BY BoundsAssumption DEF BoundsAssumption, Hook, HookEvents
<1>t. /\ TypeOK /\ Counting(room) /\ req \in [Requests -> Request \cup {NoRequest}]
      /\ hooks \in [Rooms -> Seq(Hook)] /\ started \in Hook
      /\ \A other \in Rooms : other \notin up => inRoom[other] = 0
  BY <1>h DEF CountInv, CallInv, StoreInv, NobodyOutside, TypeOK
<1>1. /\ req[q] # NoRequest /\ req[q] \in Request /\ where \in Rooms
      /\ req[q].op \in {"join", "start"}
      /\ UNCHANGED <<store, tokens>>
      /\ UNCHANGED livekit \/ OpenRoom(where)
  BY <1>t, AtRequest, RequestType DEF CreateRoomRpc, At
<1>2. /\ req'[q] = NoRequest \/ (req'[q].op = req[q].op /\ req'[q].room = where)
      /\ \A r \in Requests \ {q} : req'[r] = req[r]
  <2>1. /\ [req[q] EXCEPT !.step = "write"].op = req[q].op
        /\ [req[q] EXCEPT !.step = "write"].room = where
    BY <1>1 DEF Request
  <2>2. req' = [req EXCEPT ![q] = NoRequest]
        \/ req' = [req EXCEPT ![q] = [req[q] EXCEPT !.step = "write"]]
    BY DEF CreateRoomRpc
  <2> QED BY <1>t, <2>1, <2>2
<1>3. SameHandling(room)
  BY <1>1, <1>2, HandlerMoves DEF HookEvents
<1>4. SameCounts(room)
  BY <1>1, StoreCounts
<1>5. InRoom(meetings, where) # {}
  BY <1>1, UsedRooms
<1>6. CASE hooks'[room] = hooks[room]
  <2>1. inRoom'[room] = inRoom[room]
    BY <1>1 DEF OpenRoom, livekit
  <2>2. InRoom(meetings, room) = {} => Unused(room)'
    <3> SUFFICES ASSUME InRoom(meetings, room) = {} PROVE Unused(room)'
      OBVIOUS
    <3>1. Unused(room) /\ room # where
      BY <1>t, <1>5 DEF Counting
    <3>2. room \notin up'
      BY <1>1, <3>1 DEF Unused, OpenRoom, livekit
    <3> QED BY <1>1, <1>2, <1>6, <3>1, <3>2 DEF Unused
  <2> QED BY <1>t, <1>3, <1>4, <1>6, <2>1, <2>2, CountingKept
<1>7. CASE hooks'[room] # hooks[room]
  <2>1. OpenRoom(where) /\ where \notin up
    BY <1>1, <1>7 DEF OpenRoom, livekit
  <2>2. hooks' = [hooks EXCEPT ![where] = hooks[where] \o <<started>>] /\ inRoom' = inRoom
    BY <2>1 DEF OpenRoom, Emit
  <2>3. room = where /\ hooks'[room] = hooks[room] \o <<started>>
    BY <1>t, <1>7, <2>2
  <2>4. inRoom[room] = 0
    BY <1>t, <2>1, <2>3
  <2>5. ASSUME NEW c \in Nat, Tells(hooks[room], c, inRoom[room])
        PROVE  Tells(hooks'[room], c, inRoom'[room])
    <3>1. Tells(hooks[room] \o <<started>>, c, started.num)
      BY <1>t, <2>4, <2>5, TellsMore
    <3> QED BY <2>2, <2>3, <2>4, <3>1
  <2> QED BY <1>t, <1>3, <1>4, <1>5, <2>3, <2>5, CountingSent
<1> QED BY <1>6, <1>7

\* The call that closes the room: LiveKit reports everybody's leaving.
LEMMA CloseRoomCounting ==
  ASSUME CountInv, NEW room \in Rooms, NEW q \in Requests, NEW outcome,
         DeleteRoomRpc(q, outcome)
  PROVE  Counting(room)'
<1> DEFINE where == req[q].room
<1>t. /\ TypeOK /\ Counting(room) /\ req \in [Requests -> Request \cup {NoRequest}]
      /\ hooks \in [Rooms -> Seq(Hook)] /\ inRoom \in [Rooms -> 0..MaxParticipants]
      /\ \A other \in Rooms : inRoom[other] \in Nat
  BY BoundsAssumption DEF CountInv, CallInv, StoreInv, TypeOK, BoundsAssumption
<1>1. /\ req[q] # NoRequest /\ req[q] \in Request /\ where \in Rooms
      /\ req[q].op \in {"end", "delete", "closeRoom"}
      /\ UNCHANGED <<store, tokens>>
      /\ UNCHANGED livekit \/ CloseRoom(where)
  BY <1>t, AtRequest, RequestType DEF DeleteRoomRpc, At
<1>2. /\ req'[q] = NoRequest \/ (req'[q].op = req[q].op /\ req'[q].room = where)
      /\ \A r \in Requests \ {q} : req'[r] = req[r]
  <2>1. /\ [req[q] EXCEPT !.step = "write"].op = req[q].op
        /\ [req[q] EXCEPT !.step = "write"].room = where
    BY <1>1 DEF Request
  <2>2. req' = [req EXCEPT ![q] = NoRequest]
        \/ req' = [req EXCEPT ![q] = [req[q] EXCEPT !.step = "write"]]
    BY DEF DeleteRoomRpc
  <2> QED BY <1>t, <2>1, <2>2
<1>3. SameHandling(room)
  BY <1>1, <1>2, HandlerMoves DEF HookEvents
<1>4. SameCounts(room)
  BY <1>1, StoreCounts
<1>5. InRoom(meetings, room) = {} => Unused(room)' \/ hooks'[room] # hooks[room]
  <2> SUFFICES ASSUME InRoom(meetings, room) = {}, hooks'[room] = hooks[room]
               PROVE  Unused(room)'
    OBVIOUS
  <2>1. Unused(room)
    BY <1>t DEF Counting
  <2>2. up' \subseteq up
    BY <1>1 DEF CloseRoom, livekit
  <2>3. \A r \in Requests : req'[r] # NoRequest /\ req'[r].room = room => req'[r].op = "closeRoom"
    BY <1>1, <1>2, <2>1 DEF Unused
  <2> QED BY <1>1, <2>1, <2>2, <2>3 DEF Unused
<1>6. CASE hooks'[room] = hooks[room] /\ inRoom'[room] = inRoom[room]
  BY <1>t, <1>3, <1>4, <1>5, <1>6, CountingKept
<1>7. CASE ~(hooks'[room] = hooks[room] /\ inRoom'[room] = inRoom[room])
  <2>1. CloseRoom(where) /\ where \in up
    BY <1>1, <1>7 DEF CloseRoom, livekit
  <2>2. /\ hooks' = [hooks EXCEPT ![where] = hooks[where] \o Departures(inRoom[where])]
        /\ inRoom' = [inRoom EXCEPT ![where] = 0]
    BY <2>1 DEF CloseRoom, Emit
  <2>3. room = where
    BY <1>t, <1>7, <2>2
  <2>4. hooks'[room] = hooks[room] \o Departures(inRoom[room]) /\ inRoom'[room] = 0
    BY <1>t, <2>2, <2>3
  <2>5. InRoom(meetings, room) # {}
    BY <2>1, <2>3, UsedRooms
  <2>6. ASSUME NEW c \in Nat, Tells(hooks[room], c, inRoom[room])
        PROVE  Tells(hooks'[room], c, inRoom'[room])
    BY <1>t, <2>4, <2>6, TellsDepartures
  <2> QED BY <1>t, <1>3, <1>4, <2>5, <2>6, CountingSent
<1> QED BY <1>6, <1>7

\* The write of a room's deletion ends the meeting it finds and leaves its count.
LEMMA CloseWriteCounting ==
  ASSUME CountInv, NEW room \in Rooms, NEW q \in Requests, NEW ok, CloseRoomWrite(q, ok)
  PROVE  Counting(room)'
<1> DEFINE mutated == [i \in DOMAIN meetings |-> MarkEnded(meetings[i])]
<1>t. TypeOK /\ Counting(room) /\ req \in [Requests -> Request \cup {NoRequest}]
  BY DEF CountInv, CallInv, StoreInv, TypeOK
<1>1. /\ UNCHANGED <<up, hooks, inRoom, tokens>> /\ Finish(q)
      /\ req[q].op = "closeRoom" /\ UpdateByRoom(req[q].room, mutated, ok)
  BY DEF CloseRoomWrite, livekit, At
<1>2. req'[q] = NoRequest /\ \A r \in Requests \ {q} : req'[r] = req[r]
  BY <1>t, <1>1 DEF Finish
<1>3. SameHandling(room)
  BY <1>1, <1>2, HandlerMoves DEF HookEvents
<1>4. \A i \in DOMAIN meetings :
        mutated[i].room = meetings[i].room /\ mutated[i].num = meetings[i].num
  <2>1. \A m \in Meeting : MarkEnded(m).room = m.room /\ MarkEnded(m).num = m.num
    BY DEF MarkEnded, Meeting
  <2> QED BY <1>t, <2>1, MeetingsAreMeetings
<1> HIDE DEF mutated
<1>5. SameCounts(room)
  <2>1. CASE UNCHANGED store BY <2>1, StoreCounts
  <2>2. CASE ~UNCHANGED store
    <3>1. PICK i \in DOMAIN meetings : Commit([meetings EXCEPT ![i] = mutated[i]], ok)
      BY <1>1, <2>2 DEF UpdateByRoom, InRoom
    <3> QED BY <1>t, <1>4, <3>1, RewriteCounts
  <2> QED BY <2>1, <2>2
<1>6. InRoom(meetings, room) = {} => Unused(room)'
  BY <1>t, <1>1, <1>2 DEF Counting, Unused
<1> QED BY <1>t, <1>1, <1>3, <1>5, <1>6, CountingKept

\* People come and go, and LiveKit closes the room nobody is in.
LEMMA LiveKitCounting ==
  ASSUME CountInv, NEW room \in Rooms, NEW where \in Rooms,
         ParticipantEnters(where) \/ ParticipantLeaves(where) \/ RoomIdle(where)
  PROVE  Counting(room)'
<1>t. /\ TypeOK /\ Counting(room)
      /\ hooks \in [Rooms -> Seq(Hook)] /\ hooks[room] \in Seq(Hook)
      /\ inRoom \in [Rooms -> 0..MaxParticipants] /\ inRoom[room] \in 0..MaxParticipants
      /\ \A other \in Rooms : other \notin up => inRoom[other] = 0
  BY DEF CountInv, CallInv, StoreInv, NobodyOutside, TypeOK
<1>1. UNCHANGED <<store, req, tokens>>
  BY DEF ParticipantEnters, ParticipantLeaves, RoomIdle
<1>2. SameCounts(room) /\ SameHandling(room)
  BY <1>1, StoreCounts DEF SameHandling, Handling
<1>3. CASE room # where
  <2>1. /\ hooks'[room] = hooks[room] /\ inRoom'[room] = inRoom[room]
        /\ room \in up' => room \in up
    BY <1>t, <1>3 DEF ParticipantEnters, ParticipantLeaves, RoomIdle, CloseRoom, Emit, livekit
  <2> QED BY <1>t, <1>1, <1>2, <2>1, CountingElsewhere
<1>4. CASE room = where
  <2>1. InRoom(meetings, room) # {}
    BY <1>4, <1>t, UsedRooms DEF ParticipantEnters, ParticipantLeaves, RoomIdle
  <2> DEFINE started  == [event |-> "room_started", num |-> 0]
             finished == [event |-> "room_finished", num |-> 0]
             now(n)   == [event |-> "participants", num |-> n]
  <2>2. started \in Hook /\ finished \in Hook /\ \A n \in 0..MaxParticipants : now(n) \in Hook
    BY BoundsAssumption DEF BoundsAssumption, Hook, HookEvents
  <2>3. SUFFICES ASSUME NEW c \in Nat, Tells(hooks[room], c, inRoom[room])
                 PROVE  Tells(hooks'[room], c, inRoom'[room])
    BY <1>t, <1>2, <2>1, CountingSent
  <2>4. CASE ParticipantLeaves(where)
    <3>1. inRoom[room] - 1 \in 0..MaxParticipants
      BY <1>4, <1>t, <2>4, BoundsAssumption DEF ParticipantLeaves, BoundsAssumption
    <3>2. Tells(hooks[room] \o <<now(inRoom[room] - 1)>>, c, now(inRoom[room] - 1).num)
      BY <1>t, <2>2, <2>3, <3>1, TellsMore
    <3>3. /\ hooks'[room] = hooks[room] \o <<now(inRoom[room] - 1)>>
          /\ inRoom'[room] = inRoom[room] - 1
      BY <1>4, <1>t, <2>4 DEF ParticipantLeaves, Emit
    <3> QED BY <3>2, <3>3
  <2>5. CASE RoomIdle(where)
    <3>1. inRoom[room] = 0 /\ room \in up /\ CloseRoom(room)
      BY <1>4, <2>5 DEF RoomIdle
    <3>2. Departures(0) = <<finished>>
      BY DEF Departures
    <3>3. Emit(room, Departures(inRoom[room])) /\ inRoom'[room] = 0
      BY <1>t, <3>1 DEF CloseRoom
    <3>4. hooks'[room] = hooks[room] \o <<finished>>
      BY <1>t, <3>1, <3>2, <3>3 DEF Emit
    <3>5. Tells(hooks[room] \o <<finished>>, c, finished.num)
      BY <1>t, <2>2, <2>3, TellsMore
    <3> QED BY <3>3, <3>4, <3>5
  <2>6. CASE ParticipantEnters(where)
    <3> DEFINE joined == now(inRoom[room] + 1)
    <3>1. inRoom[room] + 1 \in 0..MaxParticipants
      BY <1>4, <1>t, <2>6, BoundsAssumption DEF ParticipantEnters, BoundsAssumption
    <3>2. joined \in Hook /\ inRoom'[room] = joined.num
      BY <1>4, <1>t, <2>2, <2>6, <3>1 DEF ParticipantEnters
    <3>3. CASE room \in up
      <4>1. hooks'[room] = hooks[room] \o <<joined>>
        BY <1>4, <1>t, <2>6, <3>3 DEF ParticipantEnters, Emit
      <4>2. Tells(hooks[room] \o <<joined>>, c, joined.num)
        BY <1>t, <2>3, <3>2, TellsMore
      <4> QED BY <3>2, <4>1, <4>2
    <3>4. CASE room \notin up
      <4>1. hooks'[room] = hooks[room] \o <<started, joined>>
        BY <1>4, <1>t, <2>6, <3>4 DEF ParticipantEnters, Emit
      <4>2. hooks[room] \o <<started, joined>> = (hooks[room] \o <<started>>) \o <<joined>>
        BY <1>t, <2>2, <3>2, TwoMore
      <4>3. Tells(hooks[room] \o <<started>>, c, started.num)
        BY <1>t, <2>2, <2>3, <3>4, TellsMore
      <4>4. hooks[room] \o <<started>> \in Seq(Hook)
        BY <1>t, <2>2
      <4>5. Tells((hooks[room] \o <<started>>) \o <<joined>>, c, joined.num)
        BY <3>2, <4>3, <4>4, TellsMore
      <4> QED BY <3>2, <4>1, <4>2, <4>5
    <3> QED BY <3>3, <3>4
  <2> QED BY <2>4, <2>5, <2>6
<1> QED BY <1>3, <1>4

LEMMA CountingStep ==
  ASSUME CountInv, OrderedCalls, Unshared, Unshared', [Next]_vars, NEW room \in Rooms
  PROVE  Counting(room)'
<1> DEFINE Goal == Counting(room)'
<1>t. /\ TypeOK /\ Counting(room) /\ OnlyOrdered
      /\ req \in [Requests -> Request \cup {NoRequest}]
  BY DEF CountInv, CallInv, StoreInv, TypeOK
<1>1. ASSUME NEW where \in Rooms, NEW ok \in SaveOutcomes, CreateMeeting(where, ok) PROVE Goal
  BY <1>1, CreateCounting
<1>2. ASSUME NEW i \in DOMAIN meetings, NEW s \in PatchStatuses,
             NEW ok \in SaveOutcomes, PatchStatus(i, s, ok)
      PROVE  Goal
  <2> DEFINE m == [meetings[i] EXCEPT !.status = s]
  <2>1. m.num = meetings[i].num /\ m.room = meetings[i].room
    BY <1>t, MeetingsAreMeetings, MarkKeepsNum
  <2>2. Commit([meetings EXCEPT ![i] = m], ok) /\ UNCHANGED <<req, up, inRoom, hooks, tokens>>
    BY <1>2 DEF PatchStatus, livekit
  <2> HIDE DEF m
  <2>3. SameCounts(room)
    BY <1>t, <2>1, <2>2, RewriteCounts
  <2> QED BY <1>t, <2>2, <2>3, CountingElsewhere
<1>3. ASSUME NEW q \in Requests, Write(q) PROVE Goal
  <2>1. PICK ok \in SaveOutcomes :
          \/ JoinWrite(q, ok) \/ StartWrite(q, ok) \/ EndWrite(q, ok)
          \/ DeleteWrite(q, ok) \/ CloseRoomWrite(q, ok) \/ HandleWebhook(q, ok)
    BY <1>3 DEF Write
  <2>2. ~EndWrite(q, ok) /\ ~DeleteWrite(q, ok)
    <3> SUFFICES ASSUME At(q, {"end", "delete"}, "write") PROVE FALSE
      BY DEF EndWrite, DeleteWrite, At
    <3>1. req[q] # NoRequest
      BY <1>t, AtRequest
    <3> QED BY <1>t, <3>1 DEF OnlyOrdered, OrderedOps, At, HookEvents
  <2> QED BY <2>1, <2>2, OpenWriteCounting, HookWriteCounting, CloseWriteCounting
<1>4. ASSUME NEW q \in Requests, Rpc(q) PROVE Goal
  <2>1. PICK outcome \in RpcOutcomes : CreateRoomRpc(q, outcome) \/ DeleteRoomRpc(q, outcome)
    BY <1>4 DEF Rpc
  <2> QED BY <2>1, CreateRoomCounting, CloseRoomCounting
<1>5. ASSUME NEW q \in Requests, Deliver(q) PROVE Goal
  BY <1>5, DeliverCounting DEF Deliver
<1>6. ASSUME NEW q \in Requests, BeginOn(q) PROVE Goal
  <2>1. \/ \E where \in Rooms : BeginCloseRoom(q, where)
        \/ \E i \in DOMAIN meetings : BeginJoin(q, i) \/ BeginStart(q, i)
    BY <1>6 DEF BeginOn, BeginEnd, BeginDelete, Begin, OrderedCalls, OrderedOps
  <2>2. /\ req[q] = NoRequest /\ UNCHANGED <<store, up, inRoom, hooks, tokens>>
        /\ req'[q].op = "closeRoom" \/ (/\ req'[q].op \in {"join", "start"}
                                        /\ \E i \in DOMAIN meetings : req'[q].room = meetings[i].room)
        /\ \A r \in Requests \ {q} : req'[r] = req[r]
    BY <1>t, <2>1 DEF BeginJoin, BeginStart, Begin, BeginCloseRoom, livekit
  <2>3. SameHandling(room)
    BY <2>2, HandlerMoves DEF HookEvents
  <2>4. InRoom(meetings, room) = {} => Unused(room)'
    BY <1>t, <2>2 DEF Counting, Unused, InRoom
  <2> QED BY <1>t, <2>2, <2>3, <2>4, StoreCounts, CountingKept
<1>7. ASSUME NEW where \in Rooms, Environment(where) PROVE Goal
  <2>1. CASE TokenExpires(where) \/ AdHocToken(where) \/ \E k \in DOMAIN hooks[where] : LoseWebhook(where, k)
    <3>1. TokenExpires(where)
      BY <2>1 DEF AdHocToken, LoseWebhook, OrderedCalls, OrderedOps
    <3>2. UNCHANGED <<store, req, up, inRoom, hooks>> /\ tokens' \subseteq tokens
      BY <3>1 DEF TokenExpires, livekit
    <3> QED BY <1>t, <3>2, StoreCounts, CountingElsewhere
  <2> QED BY <1>7, <2>1, LiveKitCounting DEF Environment
<1>8. ASSUME Crash PROVE Goal
  BY <1>8 DEF Crash, OrderedCalls
<1>9. ASSUME UNCHANGED vars PROVE Goal
  BY <1>t, <1>9, StoreCounts, CountingElsewhere DEF vars, livekit
<1>10. ASSUME NEW ok \in SaveOutcomes, DispatchAgent(ok) PROVE Goal
  <2>1. Commit(meetings, ok) /\ UNCHANGED <<req, up, inRoom, hooks, tokens>>
    BY <1>10 DEF DispatchAgent, livekit
  <2> QED BY <1>t, <2>1, StoreCounts, CountingElsewhere
<1> QED BY <1>1, <1>2, <1>3, <1>4, <1>5, <1>6, <1>7, <1>8, <1>9, <1>10 DEF Next, StoreOnly

LEMMA OnlyOrderedStep ==
  ASSUME CountInv, OrderedCalls, [Next]_vars
  PROVE  OnlyOrdered'
<1> USE DEF OnlyOrdered
<1>t. TypeOK /\ OnlyOrdered /\ req \in [Requests -> Request \cup {NoRequest}]
  BY DEF CountInv, CallInv, StoreInv, TypeOK
<1>1. ASSUME StoreOnly \/ (\E room \in Rooms : Environment(room)) \/ UNCHANGED vars
      PROVE  OnlyOrdered'
  <2>1. UNCHANGED req
    BY <1>1 DEF StoreOnly, CreateMeeting, PatchStatus, DispatchAgent, Environment, ParticipantEnters,
       ParticipantLeaves, RoomIdle, TokenExpires, AdHocToken, LoseWebhook, vars
  <2> QED BY <1>t, <2>1
<1>2. ASSUME NEW q \in Requests, Write(q) PROVE OnlyOrdered'
  <2>1. Finish(q)
    BY <1>2 DEF Write, JoinWrite, StartWrite, EndWrite, DeleteWrite, CloseRoomWrite, HandleWebhook
  <2> QED BY <1>t, <2>1 DEF Finish
<1>3. ASSUME NEW q \in Requests, Rpc(q) PROVE OnlyOrdered'
  <2>1. PICK outcome \in RpcOutcomes : CreateRoomRpc(q, outcome) \/ DeleteRoomRpc(q, outcome)
    BY <1>3 DEF Rpc
  <2>2. req[q] \in Request /\ req[q] # NoRequest
    BY <1>t, <2>1, AtRequest DEF CreateRoomRpc, DeleteRoomRpc
  <2>3. [req[q] EXCEPT !.step = "write"].op = req[q].op
    BY <2>2 DEF Request
  <2>4. req' = [req EXCEPT ![q] = NoRequest]
        \/ req' = [req EXCEPT ![q] = [req[q] EXCEPT !.step = "write"]]
    BY <2>1 DEF CreateRoomRpc, DeleteRoomRpc
  <2> QED BY <1>t, <2>2, <2>3, <2>4
<1>4. ASSUME NEW q \in Requests, Deliver(q) PROVE OnlyOrdered'
  <2>0. PICK room \in Rooms : \E k \in DOMAIN hooks[room] :
          \E again \in BOOLEAN, ok \in SaveOutcomes : DeliverWebhook(q, room, k, again, ok)
    BY <1>4 DEF Deliver
  <2>1. PICK k \in DOMAIN hooks[room] :
          \E again \in BOOLEAN, ok \in SaveOutcomes : DeliverWebhook(q, room, k, again, ok)
    BY <2>0
  <2>2. req'[q].op = hooks[room][k].event /\ \A r \in Requests \ {q} : req'[r] = req[r]
    BY <1>t, <2>1 DEF DeliverWebhook
  <2>3. hooks[room][k] \in Hook
    BY <1>t, <2>1 DEF TypeOK
  <2> QED BY <1>t, <2>2, <2>3 DEF Hook
<1>5. ASSUME NEW q \in Requests, BeginOn(q) PROVE OnlyOrdered'
  <2>1. req'[q].op \in Ops /\ \A r \in Requests \ {q} : req'[r] = req[r]
    BY <1>t, <1>5 DEF BeginOn, BeginJoin, BeginStart, BeginEnd, BeginDelete, Begin, BeginCloseRoom
  <2> QED BY <1>t, <2>1 DEF OrderedCalls
<1>6. ASSUME Crash PROVE OnlyOrdered'
  BY <1>6 DEF Crash
<1> QED BY <1>1, <1>2, <1>3, <1>4, <1>5, <1>6 DEF Next

LEMMA CountsMatch == CountInv /\ Unshared => CountCatchesUp
<1> SUFFICES ASSUME CountInv, Unshared, NEW room \in Rooms, Quiet(room),
                    NEW i \in InRoom(meetings, room)
             PROVE  meetings[i].num = inRoom[room]
  BY DEF CountCatchesUp
<1>1. PICK c \in Nat : Shows(room, c) /\ Tells(hooks[room], c, inRoom[room])
  BY DEF CountInv, Counting
<1>2. \A r \in Requests : ~Handling(r, room)
  BY DEF Quiet, Busy, Handling
<1>3. meetings[i].num = c
  BY <1>1, <1>2 DEF Shows, Unshared, InRoom
<1>4. c = inRoom[room]
  BY <1>1 DEF Quiet, Tells
<1> QED BY <1>3, <1>4

\* service.go:672-713: with webhooks in order (sent twice or not), any outcome of
\* the calls to LiveKit and of the saves, while clients join, start, PATCH and
\* close rooms, and with a room of its own for each meeting, the count shown for a
\* meeting is the number of people in its room as soon as nothing is under way there.
THEOREM CountsAgree ==
  ASSUME OrderedCalls
  PROVE  Spec /\ []Unshared => []CountCatchesUp
<1>1. Init => CountInv
  <2> SUFFICES ASSUME Init PROVE CountInv
    OBVIOUS
  <2>1. DOMAIN meetings = {} /\ DOMAIN disk = {} /\ \A r \in Requests : req[r] = NoRequest
    BY DEF Init
  <2>2. CallInv
    BY <2>1, InitStoreInv DEF Init, CallInv, RoomsAgree, Remembers, NobodyOutside
  <2>3. \A room \in Rooms : Counting(room)
    BY <2>1 DEF Init, Counting, Unused, InRoom
  <2> QED BY <2>1, <2>2, <2>3 DEF CountInv, OnlyOrdered
<1>2. CountInv /\ Unshared /\ Unshared' /\ [Next]_vars => CountInv'
  <2> SUFFICES ASSUME CountInv, Unshared, Unshared', [Next]_vars PROVE CountInv'
    OBVIOUS
  <2>1. CallInv'
    BY StoreInvStep, RoomsStep, RemembersStep, OutsideStep DEF CountInv, CallInv
  <2>2. \A room \in Rooms : Counting(room)'
    BY CountingStep
  <2> QED BY <2>1, <2>2, OnlyOrderedStep DEF CountInv
<1> QED BY <1>1, <1>2, CountsMatch, PTL DEF Spec

\* One meeting at a time, as in the run of this property: the premise on rooms
\* holds by itself.
COROLLARY LoneMeetingCounts ==
  ASSUME OrderedCalls, MaxMeetings = 1
  PROVE  Spec => []CountCatchesUp
<1>1. TypeOK => Unshared
  <2> SUFFICES ASSUME TypeOK, NEW i \in DOMAIN meetings, NEW j \in DOMAIN meetings PROVE i = j
    BY DEF Unshared
  <2>1. i \in Ids /\ j \in Ids
    BY MeetingsAreMeetings
  <2> QED BY <2>1 DEF Ids
<1> QED BY <1>1, TypeInvariance, CountsAgree, PTL
=============================================================================

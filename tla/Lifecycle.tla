------------------------------ MODULE Lifecycle ------------------------------
(***************************************************************************)
(* The life of a meeting: internal/service/service.go acting on the        *)
(* meetings of internal/store/store.go and on the rooms of the LiveKit     *)
(* server, whose webhooks come back to the service.                        *)
(*                                                                         *)
(* A handler reads a SNAPSHOT of the meeting, calls LiveKit, and writes    *)
(* the meeting back.  Only the read and the write hold the store's lock,   *)
(* so each handler is up to three steps (begin, rpc, write) and the steps  *)
(* of concurrent handlers interleave.  A store operation runs under        *)
(* Store.mu from its lookup to its save, hence is one step here; what      *)
(* happens inside save() is the subject of module Store.                   *)
(***************************************************************************)
EXTENDS Integers, Sequences, SequencesExt

CONSTANTS
  Rooms,            \* LiveKit room names (already slugs, case folded)
  MaxMeetings,      \* how many meetings are ever created
  Requests,         \* goroutines net/http may run at the same time
  Ops,              \* handlers clients call: a subset of ClientOps
  PatchStatuses,    \* statuses a PATCH body carries (not validated)
  SaveOutcomes,     \* can save() succeed (TRUE), fail (FALSE)?
  RpcOutcomes,      \* how a LiveKit RPC may end: a subset of AllRpcOutcomes
  Faults,           \* what else may go wrong: a subset of AllFaults
  IdleWaits,        \* TRUE: emptyTimeout outlasts a request in flight
  MaxParticipants,  \* bound on the people inside one room
  MaxHooks          \* bound on the webhooks of one room not yet delivered

ClientOps      == {"join", "start", "end", "delete", "closeRoom", "token"}
Statuses       == {"scheduled", "live", "ended", "other"}
AllRpcOutcomes == {"ok", "failed", "replyLost"}
AllFaults      == {"crash", "reorder", "duplicate", "lose"}
HookEvents     == {"room_started", "room_finished", "participants"}

ASSUME BoundsAssumption ==
  /\ MaxMeetings \in Nat \ {0}
  /\ MaxParticipants \in Nat \ {0}
  /\ MaxHooks \in Nat \ {0}
ASSUME ChoicesAssumption ==
  /\ Ops \subseteq ClientOps
  /\ PatchStatuses \subseteq Statuses
  /\ SaveOutcomes \subseteq BOOLEAN
  /\ RpcOutcomes \subseteq AllRpcOutcomes
  /\ Faults \subseteq AllFaults
  /\ IdleWaits \in BOOLEAN

VARIABLES
  meetings,   \* Store.meetings: id -> meeting; ids grow in slice order
  disk,       \* the meetings of the last snapshot renamed into place
  nextId,     \* the id NewID() gives next
  req,        \* the handlers in flight
  up,         \* rooms that exist on the LiveKit server
  inRoom,     \* participants connected to each room
  tokens,     \* rooms for which a client holds an unexpired token
  hooks,      \* webhooks of each room that LiveKit still has to deliver
  \* history, read only by the properties
  endedOnce,  \* ids that were once ended
  patched,    \* ids whose status a PATCH once wrote
  created,    \* ids whose creation was acknowledged
  removed,    \* ids taken out of memory by DeleteMeeting
  deleted     \* ids whose deletion was acknowledged

store   == <<meetings, disk, endedOnce>>
livekit == <<up, inRoom, hooks>>
history == <<patched, created, removed, deleted>>
vars    == <<store, nextId, req, livekit, tokens, history>>

Ids     == 1..MaxMeetings
Meeting == [room : Rooms, status : Statuses, started : BOOLEAN,
            stopped : BOOLEAN, num : 0..MaxParticipants]
Request == [op : ClientOps \cup HookEvents, step : {"rpc", "write"},
            id : Ids \cup {0}, room : Rooms, wasLive : BOOLEAN,
            num : 0..MaxParticipants]
NoRequest == [op |-> "idle", step |-> "none"]
Hook      == [event : HookEvents, num : 0..MaxParticipants]

\* What the application holds about meetings: ids with their meeting.
Snapshots == UNION {[S -> Meeting] : S \in SUBSET Ids}

TypeOK ==
  /\ meetings \in Snapshots
  /\ disk \in Snapshots
  /\ nextId \in 1..(MaxMeetings + 1)
  /\ req \in [Requests -> Request \cup {NoRequest}]
  /\ up \in SUBSET Rooms
  /\ inRoom \in [Rooms -> 0..MaxParticipants]
  /\ tokens \in SUBSET Rooms
  /\ hooks \in [Rooms -> Seq(Hook)]
  /\ endedOnce \in SUBSET Ids
  /\ patched \in SUBSET Ids
  /\ created \in SUBSET Ids
  /\ removed \in SUBSET Ids
  /\ deleted \in SUBSET Ids

-----------------------------------------------------------------------------
(* The store. *)

NewMeeting(room) == [room |-> room, status |-> "scheduled", started |-> FALSE,
                     stopped |-> FALSE, num |-> 0]

\* started and stopped stand for StartedAt # nil and EndedAt # nil.
MarkLiveUnstamped(m) == [m EXCEPT !.status = "live"]  \* mutant
MarkLive(m)  == [m EXCEPT !.status = "live", !.started = TRUE]
MarkEnded(m) == [m EXCEPT !.status = "ended", !.stopped = TRUE]

InRoom(S, room) == {i \in DOMAIN S : S[i].room = room}
Ended(S)        == {i \in DOMAIN S : S[i].status = "ended"}

\* indexByRoom: the first meeting that is not ended, else the first one.
FoundByRoom(room, i) ==
  LET all    == InRoom(meetings, room)
      active == all \ Ended(meetings)
      pool   == IF active = {} THEN all ELSE active
  IN  i \in pool /\ \A j \in pool : i <= j

SaveThenChange(S, ok) ==  \* mutant: the snapshot misses the change
  /\ meetings' = S
  /\ disk' = IF ok THEN meetings ELSE disk
  /\ endedOnce' = endedOnce \cup Ended(S)
\* Memory is changed first; the snapshot follows if save() succeeds.
Commit(S, ok) ==
  /\ meetings' = S
  /\ disk' = IF ok THEN S ELSE disk
  /\ endedOnce' = endedOnce \cup Ended(S)

RoomNotLive(room) ==  \* mutant: a scheduled meeting does not hold its room
  \A i \in InRoom(meetings, room) : meetings[i].status # "live"
\* The conflict check of CreateMeeting.
RoomFree(room) == InRoom(meetings, room) \subseteq Ended(meetings)

CreateMeeting(room, ok) ==
  /\ nextId <= MaxMeetings
  /\ RoomFree(room)
  /\ Commit([i \in DOMAIN meetings \cup {nextId} |->
               IF i = nextId THEN NewMeeting(room) ELSE meetings[i]], ok)
  /\ nextId' = nextId + 1
  /\ created' = IF ok THEN created \cup {nextId} ELSE created
  /\ UNCHANGED <<req, livekit, tokens, patched, removed, deleted>>

\* PATCH /api/meetings/{id} with a status: no check, no stamps, no RPC.
PatchStatus(i, status, ok) ==
  /\ Commit([meetings EXCEPT ![i].status = status], ok)
  /\ patched' = patched \cup {i}
  /\ UNCHANGED <<nextId, req, livekit, tokens, created, removed, deleted>>

\* POST /api/meetings/{id}/agent: the call leaves rooms alone and the write sets
\* fields the model leaves out, of a meeting that may be gone by then; the update
\* and the event log save all meetings as they are in memory.
DispatchAgent(ok) ==
  /\ nextId > 1
  /\ Commit(meetings, ok)
  /\ UNCHANGED <<nextId, req, livekit, tokens, history>>

-----------------------------------------------------------------------------
(* The LiveKit server: rooms, participants, webhooks. *)

\* A handler of one of the kinds ops is at work on the room.
Busy(room, ops) == \E r \in Requests :
  req[r] # NoRequest /\ req[r].room = room /\ req[r].op \in ops

Emit(room, events) ==
  /\ Len(hooks[room]) + Len(events) <= MaxHooks
  /\ hooks' = [hooks EXCEPT ![room] = @ \o events]

OpenRoom(room) ==
  /\ up' = up \cup {room}
  /\ UNCHANGED inRoom
  /\ IF room \in up THEN UNCHANGED hooks
     ELSE Emit(room, <<[event |-> "room_started", num |-> 0]>>)

\* Whoever is inside is disconnected, one participant_left each.
Departures(n) ==
  [k \in 1..n |-> [event |-> "participants", num |-> n - k]]
  \o <<[event |-> "room_finished", num |-> 0]>>
CloseRoom(room) ==
  IF room \notin up THEN UNCHANGED livekit
  ELSE /\ up' = up \ {room}
       /\ inRoom' = [inRoom EXCEPT ![room] = 0]
       /\ Emit(room, Departures(inRoom[room]))

\* A token makes LiveKit create the room again if it is gone (auto_create).
ParticipantEnters(room) ==
  LET joined == [event |-> "participants", num |-> inRoom[room] + 1]
  IN  /\ room \in tokens
      /\ inRoom[room] < MaxParticipants
      /\ up' = up \cup {room}
      /\ inRoom' = [inRoom EXCEPT ![room] = @ + 1]
      /\ Emit(room, IF room \in up THEN <<joined>>
                    ELSE <<[event |-> "room_started", num |-> 0], joined>>)
      /\ UNCHANGED <<store, nextId, req, tokens, history>>

ParticipantLeaves(room) ==
  /\ inRoom[room] > 0
  /\ inRoom' = [inRoom EXCEPT ![room] = @ - 1]
  /\ Emit(room, <<[event |-> "participants", num |-> inRoom[room] - 1]>>)
  /\ UNCHANGED <<store, nextId, req, up, tokens, history>>

\* emptyTimeout: LiveKit closes a room nobody is in.
RoomIdle(room) ==
  /\ room \in up /\ inRoom[room] = 0
  /\ ~(IdleWaits /\ Busy(room, ClientOps))
  /\ CloseRoom(room)
  /\ UNCHANGED <<store, nextId, req, tokens, history>>

TokenExpires(room) ==
  /\ room \in tokens
  /\ tokens' = tokens \ {room}
  /\ UNCHANGED <<store, nextId, req, livekit, history>>

LoseWebhook(room, k) ==
  /\ "lose" \in Faults
  /\ hooks' = [hooks EXCEPT ![room] = RemoveAt(@, k)]
  /\ UNCHANGED <<store, nextId, req, up, inRoom, tokens, history>>

-----------------------------------------------------------------------------
(* The handlers. *)

Begin(r, op, step, i) ==
  /\ req[r] = NoRequest
  /\ op \in Ops
  /\ req' = [req EXCEPT ![r] =
               [op |-> op, step |-> step, id |-> i, room |-> meetings[i].room,
                wasLive |-> meetings[i].status = "live", num |-> 0]]
  /\ UNCHANGED <<store, nextId, livekit, tokens, history>>

BeginJoinUnchecked(r, i) == Begin(r, "join", "rpc", i)  \* mutant
\* Join and JoinAsGuest: the ended check is on the snapshot only.
BeginJoin(r, i)  == meetings[i].status # "ended" /\ Begin(r, "join", "rpc", i)
BeginStart(r, i) == Begin(r, "start", "rpc", i)
BeginEnd(r, i)   == Begin(r, "end", "rpc", i)
\* DeleteMeeting closes the room only of a meeting it saw live.
BeginDelete(r, i) ==
  Begin(r, "delete", IF meetings[i].status = "live" THEN "rpc" ELSE "write", i)

\* DELETE /api/rooms/{room}: names a room, not a meeting.
BeginCloseRoom(r, room) ==
  /\ req[r] = NoRequest
  /\ "closeRoom" \in Ops
  /\ req' = [req EXCEPT ![r] = [op |-> "closeRoom", step |-> "rpc", id |-> 0,
                                room |-> room, wasLive |-> FALSE, num |-> 0]]
  /\ UNCHANGED <<store, nextId, livekit, tokens, history>>

\* AdHocToken: a room with meetings goes through Join, any other needs none.
AdHocToken(room) ==
  /\ "token" \in Ops
  /\ InRoom(meetings, room) = {}
  /\ tokens' = tokens \cup {room}
  /\ UNCHANGED <<store, nextId, req, livekit, history>>

At(r, ops, step) == req[r].op \in ops /\ req[r].step = step
Finish(r)        == req' = [req EXCEPT ![r] = NoRequest]

\* An RPC may fail, or take effect and still be reported as an error.
CreateRoomRpc(r, outcome) ==
  /\ At(r, {"join", "start"}, "rpc")
  /\ IF outcome = "failed" THEN UNCHANGED livekit ELSE OpenRoom(req[r].room)
  /\ req' = [req EXCEPT ![r] = IF outcome = "ok" THEN [@ EXCEPT !.step = "write"]
                               ELSE NoRequest]
  /\ UNCHANGED <<store, nextId, tokens, history>>

\* End and DeleteMeeting ignore the error, DeleteRoom returns it.  Before it, End
\* stops the egresses of the room, which is in module Recording.
DeleteRoomRpc(r, outcome) ==
  /\ At(r, {"end", "delete", "closeRoom"}, "rpc")
  /\ IF outcome = "failed" THEN UNCHANGED livekit ELSE CloseRoom(req[r].room)
  /\ req' = [req EXCEPT ![r] = IF outcome # "ok" /\ req[r].op = "closeRoom"
                               THEN NoRequest
                               ELSE [@ EXCEPT !.step = "write"]]
  /\ UNCHANGED <<store, nextId, tokens, history>>

\* The token is handed out even if the meeting is gone or cannot be saved. The agent
\* dispatch that follows leaves rooms alone; when it fails, the event log saves memory
\* as it is, the commit without an update.
JoinWrite(r, ok) ==
  /\ At(r, {"join"}, "write")
  /\ tokens' = tokens \cup {req[r].room}
  /\ LET i == req[r].id
     IN  Commit(IF req[r].wasLive \/ i \notin DOMAIN meetings THEN meetings
                ELSE [meetings EXCEPT ![i] = MarkLive(@)], ok)
  /\ Finish(r)
  /\ UNCHANGED <<nextId, livekit, history>>

\* UpdateMeeting with the handler's mutation; nothing if the id is gone.
UpdateAt(i, mutated, ok) ==
  IF i \in DOMAIN meetings THEN Commit([meetings EXCEPT ![i] = mutated], ok)
  ELSE UNCHANGED store

StartWrite(r, ok) ==
  /\ At(r, {"start"}, "write")
  /\ LET i == req[r].id
     IN  UpdateAt(i, [MarkLive(meetings[i]) EXCEPT !.stopped = FALSE], ok)
  /\ Finish(r)
  /\ UNCHANGED <<nextId, livekit, tokens, history>>

EndWrite(r, ok) ==
  /\ At(r, {"end"}, "write")
  /\ LET i == req[r].id
     IN  UpdateAt(i, [MarkEnded(meetings[i]) EXCEPT !.num = 0], ok)
  /\ Finish(r)
  /\ UNCHANGED <<nextId, livekit, tokens, history>>

DeleteWrite(r, ok) ==
  /\ At(r, {"delete"}, "write")
  /\ LET i == req[r].id
     IN  IF i \notin DOMAIN meetings THEN UNCHANGED <<store, removed, deleted>>
         ELSE /\ Commit([j \in DOMAIN meetings \ {i} |-> meetings[j]], ok)
              /\ removed' = removed \cup {i}
              /\ deleted' = IF ok THEN deleted \cup {i} ELSE deleted
  /\ Finish(r)
  /\ UNCHANGED <<nextId, livekit, tokens, patched, created>>

\* UpdateMeetingByRoom: looks the meeting up by room name, now; mutated is what
\* each meeting would become.
UpdateByRoom(room, mutated, ok) ==
  \/ /\ InRoom(meetings, room) = {}
     /\ UNCHANGED store
  \/ \E i \in InRoom(meetings, room) :
       /\ FoundByRoom(room, i)
       /\ Commit([meetings EXCEPT ![i] = mutated[i]], ok)

CloseRoomWrite(r, ok) ==
  /\ At(r, {"closeRoom"}, "write")
  /\ UpdateByRoom(req[r].room, [i \in DOMAIN meetings |-> MarkEnded(meetings[i])], ok)
  /\ Finish(r)
  /\ UNCHANGED <<nextId, livekit, tokens, history>>

\* HandleWebhook starts by appending to the event log, which saves everything.
\* Without reordering LiveKit sends a room's webhooks one at a time.
DeliverWebhook(r, room, k, again, ok) ==
  /\ req[r] = NoRequest
  /\ "reorder" \in Faults \/ (k = 1 /\ ~Busy(room, HookEvents))
  /\ again => "duplicate" \in Faults
  /\ hooks' = IF again THEN hooks ELSE [hooks EXCEPT ![room] = RemoveAt(@, k)]
  /\ req' = [req EXCEPT ![r] = [op |-> hooks[room][k].event, step |-> "write",
                                id |-> 0, room |-> room, wasLive |-> FALSE,
                                num |-> hooks[room][k].num]]
  /\ Commit(meetings, ok)
  /\ UNCHANGED <<nextId, up, inRoom, tokens, history>>

HookKeepsLive(h, m) ==  \* mutant: room_finished clears the count only
  CASE h.op = "room_started"  -> MarkLive(m)
    [] h.op = "room_finished" -> [m EXCEPT !.num = 0]
    [] h.op = "participants"  -> [m EXCEPT !.num = h.num]
HookCountsEvents(h, m) ==  \* mutant: counts events, not the people they report
  CASE h.op = "room_started"  -> MarkLive(m)
    [] h.op = "room_finished" -> [MarkEnded(m) EXCEPT !.num = 0]
    [] h.op = "participants"  -> [m EXCEPT !.num = @ + 1]
HookEffect(h, m) ==
  CASE h.op = "room_started"  -> MarkLive(m)
    [] h.op = "room_finished" -> [MarkEnded(m) EXCEPT !.num = 0]
    [] h.op = "participants"  -> [m EXCEPT !.num = h.num]

HandleWebhook(r, ok) ==
  /\ At(r, HookEvents, "write")
  /\ UpdateByRoom(req[r].room,
                  [i \in DOMAIN meetings |-> HookEffect(req[r], meetings[i])], ok)
  /\ Finish(r)
  /\ UNCHANGED <<nextId, livekit, tokens, history>>

\* The process dies between two steps and New() reads the snapshot back.
Crash ==
  /\ "crash" \in Faults
  /\ meetings' = disk
  /\ req' = [r \in Requests |-> NoRequest]
  /\ UNCHANGED <<disk, endedOnce, nextId, livekit, tokens, history>>

-----------------------------------------------------------------------------
Init ==
  /\ meetings = << >> /\ disk = << >>
  /\ nextId = 1
  /\ req = [r \in Requests |-> NoRequest]
  /\ up = {}
  /\ inRoom = [room \in Rooms |-> 0]
  /\ tokens = {}
  /\ hooks = [room \in Rooms |-> << >>]
  /\ endedOnce = {} /\ patched = {} /\ created = {}
  /\ removed = {} /\ deleted = {}

Write(r) == \E ok \in SaveOutcomes :
  \/ JoinWrite(r, ok) \/ StartWrite(r, ok) \/ EndWrite(r, ok)
  \/ DeleteWrite(r, ok) \/ CloseRoomWrite(r, ok) \/ HandleWebhook(r, ok)
Rpc(r) == \E outcome \in RpcOutcomes :
  CreateRoomRpc(r, outcome) \/ DeleteRoomRpc(r, outcome)
Deliver(r) == \E room \in Rooms : \E k \in DOMAIN hooks[room] :
  \E again \in BOOLEAN, ok \in SaveOutcomes : DeliverWebhook(r, room, k, again, ok)
BeginOn(r) ==
  \/ \E i \in DOMAIN meetings :
       BeginJoin(r, i) \/ BeginStart(r, i) \/ BeginEnd(r, i) \/ BeginDelete(r, i)
  \/ \E room \in Rooms : BeginCloseRoom(r, room)
Environment(room) ==
  \/ ParticipantEnters(room) \/ ParticipantLeaves(room) \/ RoomIdle(room)
  \/ TokenExpires(room) \/ AdHocToken(room)
  \/ \E k \in DOMAIN hooks[room] : LoseWebhook(room, k)
StoreOnly == \E ok \in SaveOutcomes :
  \/ \E room \in Rooms : CreateMeeting(room, ok)
  \/ \E i \in DOMAIN meetings, status \in PatchStatuses : PatchStatus(i, status, ok)
  \/ DispatchAgent(ok)

Next ==
  \/ StoreOnly
  \/ \E r \in Requests : BeginOn(r) \/ Rpc(r) \/ Write(r) \/ Deliver(r)
  \/ \E room \in Rooms : Environment(room)
  \/ Crash

Spec == Init /\ [][Next]_vars

\* Goroutines are scheduled, and LiveKit keeps sending a webhook until it is
\* acknowledged (again = FALSE).  net/http starts a goroutine for each: that all of
\* Requests may be busy again and again is a bound of the model, so this is fair in
\* the strong sense.
Fairness ==
  /\ \A r \in Requests : WF_vars(Rpc(r)) /\ WF_vars(Write(r))
  /\ SF_vars(\E r \in Requests, room \in Rooms, ok \in SaveOutcomes :
               \E k \in DOMAIN hooks[room] : DeliverWebhook(r, room, k, FALSE, ok))
FairSpec == Spec /\ Fairness
-----------------------------------------------------------------------------
(* What the application promises about its meetings. *)

\* A room name is given to a second meeting only after the first one was ended,
\* in memory and on disk, whatever fails (the conflict check of CreateMeeting).
\* A clash between two active meetings is thus always a revived older one.
RoomReusedOnlyAfterEnd ==
  \A S \in {meetings, disk} : \A a, b \in DOMAIN S :
    a < b /\ S[a].room = S[b].room => a \in endedOnce

\* Unless a PATCH wrote the status, the stamps agree with it: every path that
\* makes a meeting live stamps StartedAt, every path that ends it stamps EndedAt
\* (join, start, end, room deletion, webhooks), in memory and on disk.
StampsTellStatus ==
  \A S \in {meetings, disk} : \A i \in DOMAIN S \ patched :
    /\ S[i].status = "live"      => S[i].started
    /\ S[i].status = "ended"     => S[i].stopped
    /\ S[i].status = "scheduled" => ~S[i].started /\ ~S[i].stopped

\* A meeting whose creation was acknowledged is on disk, so it survives a crash,
\* until somebody deletes it.
AckedCreateDurable ==
  created \subseteq ((DOMAIN meetings \cap DOMAIN disk) \cup removed)

\* A meeting whose deletion was acknowledged never comes back: not by a crash,
\* nor by the late write of a handler or webhook that saw it before.
DeletedStaysDeleted ==
  deleted \cap (DOMAIN meetings \cup DOMAIN disk) = {}

\* The rooms and statuses of the meetings in one copy of the store.
Listing(S) == [i \in DOMAIN S |-> [room |-> S[i].room, status |-> S[i].status]]
Board == INSTANCE Registry
           WITH listed <- Listing(meetings), kept <- Listing(disk), issued <- nextId - 1

\* However handlers, webhooks, crashes and failed saves are interleaved, each step
\* is at most one legal change to the list of meetings: a late write never brings a
\* removed meeting back, changes a second one, or is saved in part.
ImplementsRegistry == Board!Spec

\* The call in a room is over: all its meetings have ended, LiveKit has no such
\* room, nobody holds a token, and no webhook or opening handler is under way.
Closed(room) ==
  /\ \A S \in {meetings, disk} : InRoom(S, room) # {} /\ InRoom(S, room) \subseteq Ended(S)
  /\ room \notin up \cup tokens
  /\ hooks[room] = << >>
  /\ ~Busy(room, {"join", "start"} \cup HookEvents)

\* What the API offers to open a room again: start, PATCH, a new meeting; and a
\* deletion, which may leave a room without meetings to AdHocToken.
Reopens(room) ==
  \/ \E r \in Requests, i \in InRoom(meetings, room) : BeginStart(r, i)
  \/ \E i \in InRoom(meetings, room), status \in PatchStatuses, ok \in BOOLEAN :
       PatchStatus(i, status, ok)
  \/ \E ok \in BOOLEAN : CreateMeeting(room, ok)
  \/ \E r \in Requests, ok \in BOOLEAN : req[r] # NoRequest /\ req[r].room = room /\ DeleteWrite(r, ok)

\* Once a call is over, the ended status keeps its room shut: neither a join, an
\* ad-hoc token, a late end or room deletion nor a crash opens it again.
ClosedUntilReopened ==
  [][\A room \in Rooms : Closed(room) => Closed(room)' \/ Reopens(room)]_vars

\* Nothing of the room is under way: no handler, no webhook.
Quiet(room) == hooks[room] = << >> /\ ~Busy(room, ClientOps \cup HookEvents)

\* Once a room's webhooks are handled, the participant count of the live meeting
\* in it is the number of people inside (NumParticipants caches the webhooks).
CountCatchesUp ==
  \A room \in Rooms : Quiet(room) =>
    \A i \in InRoom(meetings, room) :
      FoundByRoom(room, i) /\ meetings[i].status = "live" =>
        meetings[i].num = inRoom[room]

\* A join or a start is about to write live while its room is already closed.
Overtaken(room) ==
  room \notin up /\ \E r \in Requests : At(r, {"join", "start"}, "write") /\ req[r].room = room

\* service.go:690: unless a closing of the room ever overtakes a join or a start
\* between its call and its write (then the late write leaves the meeting live for
\* good), the only meeting of a room does not stay live when the room is gone, however
\* it was closed and whether or not the caller learnt of it: room_finished ends it, or
\* the room is opened again.
AbandonedCallEnds ==
  \A room \in Rooms :
    []~Overtaken(room) =>
      \A i \in Ids : LET there == i \in DOMAIN meetings /\ meetings[i].room = room
                     IN  (there /\ meetings[i].status = "live" /\ room \notin up)
                           ~> (there => meetings[i].status # "live" \/ room \in up)

\* End "closes the room and marks the meeting over": when all is quiet, nobody is
\* inside the room of an ended meeting that is the room's only one.
EndedRoomEmpty ==
  \A room \in Rooms :
    /\ Quiet(room)
    /\ InRoom(meetings, room) # {}
    /\ InRoom(meetings, room) \subseteq Ended(meetings)
    => inRoom[room] = 0
=============================================================================

------------------------------- MODULE Access -------------------------------
(***************************************************************************)
(* internal/service/service.go: one meeting, the users who change it, and  *)
(* the tokens they can get.  A PATCH checks the permission on a copy and   *)
(* writes later, to the meeting as it is by then.  A token is decided by   *)
(* the one copy its request reads and changes nothing here; Lifecycle has  *)
(* the calls that follow, and several meetings of one room.                *)
(***************************************************************************)
EXTENDS AccessPolicy, RoomNames

CONSTANTS
  Users,      \* callers, as userFromClaims makes them
  Guest,      \* whoever comes by the guest link
  Texts,      \* what is typed as a room or a title
  Inputs,     \* the fields of a MeetingInput that are given, with their values
  Minutes,    \* lives asked for ad-hoc tokens
  Requests,   \* PATCH requests in flight
  NoInput

NoMeeting == [room |-> << >>]

Fields  == {"open", "kind", "division", "divisions", "invitees"}
Invitee == [id : STRING, username : STRING, role : STRING]

ASSUME AccessAssumption ==
  /\ Minutes \subseteq Int
  /\ \A t \in Texts : t \in Seq(Chars)
  /\ Guest \notin Users /\ NoInput \notin Inputs
  /\ \A in \in Inputs :
       /\ DOMAIN in \subseteq Fields
       /\ "open" \in DOMAIN in => in.open \in BOOLEAN
       /\ "invitees" \in DOMAIN in => in.invitees \in Seq(Invitee)

VARIABLES
  meeting,   \* the meeting, or none
  patch,     \* what each PATCH in flight is going to write
  given,     \* the fields its caller gave (history)
  creator    \* who created the meeting (history)

vars == <<meeting, patch, given, creator>>

Slugs == [t \in Texts |-> SlugRoom(t)]
Names == UNION {Slugs[t] \cup SlugRoomUnique(t) : t \in Texts}

TypeOK ==
  /\ meeting # NoMeeting =>
       /\ meeting.room \in Names
       /\ meeting.host \in {u.id : u \in Users}
       /\ meeting.open \in BOOLEAN
       /\ \A i \in DOMAIN meeting.invitees :
            LET inv == meeting.invitees[i]
            IN  inv.role \in Roles /\ (inv.id # "" \/ inv.username # "")
  /\ patch \in [Requests -> Inputs \cup {NoInput}]
  /\ given \in [Requests -> SUBSET Fields]
  /\ creator \in Users \cup {Guest}

Init ==
  /\ meeting = NoMeeting /\ creator = Guest
  /\ patch = [r \in Requests |-> NoInput]
  /\ given = [r \in Requests |-> {}]

-----------------------------------------------------------------------------
Given(in, field, default) == IF field \in DOMAIN in THEN in[field] ELSE default

\* A division nobody gives is one of the creator's, the first of a Go map.
OwnDivisions(u) == IF DOMAIN u.roles = {} THEN {""} ELSE DOMAIN u.roles

Created(u, room, own, in) ==
  [room |-> room, host |-> u.id, open |-> Given(in, "open", FALSE),
   kind |-> Given(in, "kind", "meeting"), division |-> Given(in, "division", own),
   divisions |-> Given(in, "divisions", {}),
   invitees |-> NormalizeInvitees(Given(in, "invitees", << >>))]

\* CreateMeeting: the room is named in the request or made from the title.
CreateMeeting(u, text, in) ==
  /\ meeting = NoMeeting
  /\ \E room \in Slugs[text] \cup SlugRoomUnique(text), own \in OwnDivisions(u) :
       meeting' = Created(u, room, own, in)
  /\ creator' = u
  /\ UNCHANGED <<patch, given>>

\* The fields that are given, in the meeting as it is.
Patched(m, in) ==
  [f \in DOMAIN m |-> IF f \notin DOMAIN in THEN m[f]
                      ELSE IF f = "invitees" THEN NormalizeInvitees(in[f]) ELSE in[f]]

BeginUpdateWhole(r, u, in) ==  \* mutant: the changed copy is what will be stored
  /\ patch[r] = NoInput /\ meeting # NoMeeting
  /\ CanManage(meeting, u)
  /\ patch' = [patch EXCEPT ![r] = Patched(meeting, in)]
  /\ given' = [given EXCEPT ![r] = DOMAIN in]
  /\ UNCHANGED <<meeting, creator>>
\* UpdateMeeting up to the check.
BeginUpdate(r, u, in) ==
  /\ patch[r] = NoInput /\ meeting # NoMeeting
  /\ CanManage(meeting, u)
  /\ patch' = [patch EXCEPT ![r] = in]
  /\ given' = [given EXCEPT ![r] = DOMAIN in]
  /\ UNCHANGED <<meeting, creator>>

WriteUpdate(r) ==
  /\ patch[r] # NoInput
  /\ meeting' = Patched(meeting, patch[r])
  /\ patch' = [patch EXCEPT ![r] = NoInput] /\ given' = [given EXCEPT ![r] = {}]
  /\ UNCHANGED creator

\* DeleteMeeting; a PATCH in flight will not find the id.
DeleteMeeting(u) ==
  /\ meeting # NoMeeting /\ CanManage(meeting, u)
  /\ meeting' = NoMeeting /\ creator' = Guest
  /\ patch' = [r \in Requests |-> NoInput] /\ given' = [r \in Requests |-> {}]

Next ==
  \/ \E u \in Users :
       \/ \E text \in Texts, in \in Inputs : CreateMeeting(u, text, in)
       \/ \E r \in Requests, in \in Inputs : BeginUpdate(r, u, in)
       \/ DeleteMeeting(u)
  \/ \E r \in Requests : WriteUpdate(r)

Spec == Init /\ [][Next]_vars

-----------------------------------------------------------------------------
(* The tokens that can be had now. *)

Joined(u) ==
  IF meeting # NoMeeting /\ MayEnter(meeting, u) THEN {MeetingGrant(meeting, u)} ELSE {}

\* AdHocToken: the room of a meeting goes through Join.
AdHoc(u, text, role) ==
  UNION {IF meeting # NoMeeting /\ meeting.room = room THEN Joined(u)
         ELSE {FreeGrant(room, u, role)} : room \in Slugs[text]}

ByGuestLink == IF meeting # NoMeeting THEN {GuestGrant(meeting, Guest)} ELSE {}

-----------------------------------------------------------------------------
Deserved(t) == t.admin =>
  /\ t.to # Guest
  /\ \/ IsDirector(t.to)
     \/ meeting # NoMeeting /\ meeting.room = t.room /\ CanManage(meeting, t.to)

\* README "Aturan akses" and service.go:204: RoleFor and CanManage are written
\* apart, and agree: a token that rules the room of the meeting goes to those
\* who manage it, one for another room to directors, and none to a guest.
AdminTokensManage ==
  \A u \in Users :
    /\ \A t \in Joined(u) \cup ByGuestLink : Deserved(t)
    /\ \A text \in Texts, role \in Roles \cup {""} :
         \A t \in AdHoc(u, text, role) : Deserved(t)

\* Neither the user nor some invited host has a username.
BlankNamesMatch(m, u) == u.username = "" /\ \E i \in DOMAIN m.invitees :
  m.invitees[i].role = "host" /\ m.invitees[i].username = ""

\* model.go:184-253: the list shows a user exactly the meetings he may enter, and he
\* may enter those he manages, the ones left out which he manages because model.go:237
\* takes his empty username for that of a host invited by id (README 5).
SeesWhatHeEnters ==
  meeting # NoMeeting => \A u \in Users :
    /\ Visible(meeting, u) <=> MayEnter(meeting, u)
    /\ CanManage(meeting, u) /\ ~BlankNamesMatch(meeting, u) => MayEnter(meeting, u)

\* README, "pembuat meeting -> host": whatever the managers make of the meeting,
\* its creator manages it and enters it as host.
CreatorInControl ==
  meeting # NoMeeting /\ creator.id # "" =>
    CanManage(meeting, creator) /\ MayEnter(meeting, creator)
      /\ RoleFor(meeting, creator) = "host"

\* store.go:364-419 and service.go:374-384: a room keeps its name when it is
\* typed in again, so AdHocToken finds the meeting by it, and LiveKit takes it.
OwnNameFinds ==
  meeting # NoMeeting =>
    SlugRoom(meeting.room) = {meeting.room} /\ Len(meeting.room) <= MaxRoomLen

\* service.go:407-409 and client.go:176-179: whatever number of minutes is asked
\* for in a room without a meeting, also one whose nanoseconds do not fit 64 bits,
\* the token lives for a while, and no longer than asked.
TokensExpire ==
  meeting = NoMeeting => \A n \in Minutes :
    LET life == TokenLife(n)
    IN  0 < life /\ life <= IF n > 0 THEN n * Minute ELSE DefaultLife

\* service.go:208-256: two PATCHes in flight at once do not undo each other: a
\* field changes only by a PATCH that gives it.
PatchesMerge ==
  [][meeting # NoMeeting /\ meeting' # NoMeeting =>
       \A f \in DOMAIN meeting : meeting'[f] # meeting[f] =>
         \E r \in Requests : f \in given[r] /\ given'[r] = {}]_vars
=============================================================================

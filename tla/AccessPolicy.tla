---------------------------- MODULE AccessPolicy ----------------------------
(***************************************************************************)
(* internal/domain/model.go: who may see, enter and manage a meeting, and  *)
(* in which role; internal/service: what a token for the room may then do. *)
(* Names are compared as the code compares them (EqualFold), so they stand *)
(* here in lower case; "" is the empty string.                             *)
(***************************************************************************)
EXTENDS Integers

CONSTANTS
  Half,         \* 2^63: integers and durations are in -Half..(Half - 1)
  Minute,       \* in nanoseconds
  DefaultLife   \* of a token, in nanoseconds (LIVEKIT_TOKEN_TTL_MIN)

ASSUME LifeAssumption ==
  Half \in Nat /\ Minute \in Nat \ {0} /\ DefaultLife \in 1..(Half - 1)

Roles         == {"host", "speaker", "viewer", "agent"}
DirectorRoles == {"ceo", "dirops", "admin", "direktur"}

\* A user has id, username, super and roles, a function from divisions to roles.
InDivision(u, division) == u.super \/ division = "" \/ division \in DOMAIN u.roles
IsDirector(u) == u.super \/ \E d \in DOMAIN u.roles : u.roles[d] \in DirectorRoles

\* A meeting has host, open, kind, division, divisions (the set of those listed)
\* and invitees: records with id, username and role, numbered in their order.
IsHost(m, u) == u.id # "" /\ u.id = m.host

Invited(inv, u) == \/ inv.id # "" /\ inv.id = u.id
                   \/ inv.username # "" /\ inv.username = u.username
Invitations(m, u) == {i \in DOMAIN m.invitees : Invited(m.invitees[i], u)}

InvitedRole(m, u) ==
  LET first == CHOOSE i \in Invitations(m, u) : \A j \in Invitations(m, u) : i <= j
      role  == m.invitees[first].role
  IN  IF role \in Roles THEN role ELSE "viewer"

ByDivision(m, u) ==
  \/ \E d \in m.divisions : InDivision(u, d)
  \/ m.divisions = {} /\ m.division # "" /\ InDivision(u, m.division)

\* The role of those who are neither host nor invited nor director.
Audience(m) == IF m.kind = "stream" THEN "viewer" ELSE "speaker"

MayEnterNamed(m, u) ==  \* mutant: open is not looked at
  IsHost(m, u) \/ Invitations(m, u) # {} \/ IsDirector(u) \/ ByDivision(m, u)
\* RoleFor in two parts: whether there is a role, and which.
MayEnter(m, u) ==
  IsHost(m, u) \/ Invitations(m, u) # {} \/ IsDirector(u) \/ m.open \/ ByDivision(m, u)
RoleForInvitedFirst(m, u) ==  \* mutant: the invitation is looked at before the host
  IF Invitations(m, u) # {} THEN InvitedRole(m, u)
  ELSE IF IsHost(m, u) \/ IsDirector(u) THEN "host"
  ELSE Audience(m)
RoleFor(m, u) ==
  IF IsHost(m, u) THEN "host"
  ELSE IF Invitations(m, u) # {} THEN InvitedRole(m, u)
  ELSE IF IsDirector(u) THEN "host"
  ELSE Audience(m)

\* Here an empty username is compared too.
CanManage(m, u) ==
  \/ IsDirector(u)
  \/ IsHost(m, u)
  \/ \E i \in DOMAIN m.invitees :
       LET inv == m.invitees[i]
       IN  inv.role = "host" /\ ((inv.id # "" /\ inv.id = u.id) \/ inv.username = u.username)

Visible(m, u) == IsDirector(u) \/ m.open \/ MayEnter(m, u)

\* Entries that name nobody are dropped; the others keep their order, which is
\* all that is ever asked of their positions.
Named(list) == {i \in DOMAIN list : list[i].id # "" \/ list[i].username # ""}
NamedInvitees(list) == [i \in Named(list) |-> list[i]]  \* mutant: any role is stored
NormalizeInvitees(list) ==
  [i \in Named(list) |->
     [list[i] EXCEPT !.role = IF @ \in Roles THEN @ ELSE "speaker"]]

-----------------------------------------------------------------------------
(* Tokens. *)

CanPublish(role) == role \in {"host", "speaker", "agent"}

\* grantFor, in the room of a meeting.
MeetingGrant(m, u) ==
  LET role == RoleFor(m, u)
  IN  [to |-> u, room |-> m.room, publish |-> CanPublish(role),
       admin |-> role = "host", create |-> FALSE]

FreeRoleAsked(u, role) == IF role \in Roles THEN role ELSE "speaker"  \* mutant: as asked for
\* AdHocToken, in a room without a meeting: only directors get to be host.
FreeRole(u, role) ==
  LET asked == IF role \in Roles THEN role ELSE "speaker"
  IN  IF asked = "host" /\ ~IsDirector(u) THEN "speaker" ELSE asked
FreeGrant(room, u, role) ==
  [to |-> u, room |-> room, publish |-> CanPublish(FreeRole(u, role)),
   admin |-> FreeRole(u, role) = "host" \/ IsDirector(u), create |-> IsDirector(u)]

\* What a number of minutes comes to: a product that does not fit wraps around.
Wrapped(x) == ((x + Half) % (2 * Half)) - Half
AskedLife(minutes) == IF minutes > 0 THEN Wrapped(minutes * Minute) ELSE 0
TokenLifeGiven(minutes) ==  \* mutant: only a missing life is replaced
  IF AskedLife(minutes) = 0 THEN DefaultLife ELSE AskedLife(minutes)
\* AdHocToken and Token: no life, or none that makes sense, is the default.
TokenLife(minutes) ==
  IF AskedLife(minutes) <= 0 THEN DefaultLife ELSE AskedLife(minutes)

\* JoinAsGuest with guestRole.
GuestGrant(m, guest) ==
  [to |-> guest, room |-> m.room, publish |-> CanPublish(Audience(m)),
   admin |-> FALSE, create |-> FALSE]
=============================================================================

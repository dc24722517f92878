------------------------------ MODULE GuestLink ------------------------------
(***************************************************************************)
(* internal/service/guest.go: the guest link of one meeting and the limit  *)
(* on wrong access codes.  The record of failed attempts is kept per       *)
(* meeting and in memory only; a request tests it, compares the code and   *)
(* writes the outcome down in three separate steps, while managers renew   *)
(* or switch off the link.                                                 *)
(* What JoinAsGuest does after the code is right (CreateRoom, the token,   *)
(* the meeting becoming live) is BeginJoin .. JoinWrite of Lifecycle.      *)
(***************************************************************************)
EXTENDS Integers, FiniteSets

CONSTANTS
  Requests,    \* HTTP requests: guests joining, managers changing the link
  MaxWrong,    \* maxGuestCodeAttempts, 10 in the code
  Cooldown,    \* guestCodeCooldown in ticks, 15 minutes in the code
  MaxLinks     \* bound of the model: how many links are ever made

ASSUME LimitsAssumption ==
  /\ MaxWrong \in Nat \ {0} /\ Cooldown \in Nat \ {0} /\ MaxLinks \in Nat
  /\ IsFiniteSet(Requests) /\ Requests # {}

NoLink == 0
Never  == -1   \* the zero time.Time

VARIABLES
  enabled,   \* Meeting.GuestEnabled
  link,      \* Meeting.GuestToken with its code; links are numbered as made
  made,      \* how many links were made
  tries,     \* Service.guestTries of the meeting
  pc,        \* where each request is
  snap,      \* the link a guest request found
  wrong,     \* wrong codes answered since the record was last dropped (history)
  tried      \* a wrong code was tried on the current link (history)

limiter == <<tries, wrong>>
vars    == <<enabled, link, made, limiter, pc, snap, tried>>

\* percobaanTamu: failures counted, and for how long the link is cooled. No
\* record in the map and a record without failures behave the same.
NoRecord == [gagal |-> 0, sampai |-> Never]

TypeOK ==
  /\ enabled \in BOOLEAN
  /\ made \in 0..MaxLinks /\ link \in 0..made
  /\ tries \in [gagal : 0..(MaxWrong - 1), sampai : Never..Cooldown]
  /\ pc \in [Requests -> {"idle", "found", "allowed", "forgetting"}]
  /\ snap \in [Requests -> 0..made]
  /\ wrong \in Nat
  /\ tried \in BOOLEAN

Init ==
  /\ enabled = FALSE /\ link = NoLink /\ made = 0
  /\ tries = NoRecord /\ wrong = 0 /\ tried = FALSE
  /\ pc = [r \in Requests |-> "idle"]
  /\ snap = [r \in Requests |-> NoLink]

Goto(r, from, to) == pc[r] = from /\ pc' = [pc EXCEPT ![r] = to]

Dropped == tries' = NoRecord /\ wrong' = 0

-----------------------------------------------------------------------------
(* Managers. *)

\* GuestLink's store write: a new token and code, or none at all.
ChangeLink(r) ==
  /\ Goto(r, "idle", "forgetting")
  /\ \/ made < MaxLinks /\ made' = made + 1 /\ link' = made' /\ enabled' = TRUE
     \/ made' = made /\ link' = NoLink /\ enabled' = FALSE
  /\ tried' = FALSE
  /\ UNCHANGED <<limiter, snap>>

ForgetTriesNot(r) ==  \* mutant: the record survives the rotation
  /\ Goto(r, "forgetting", "idle")
  /\ UNCHANGED <<enabled, link, made, limiter, snap, tried>>
\* lupakanPercobaanTamu, after the store write.
ForgetTries(r) ==
  /\ Goto(r, "forgetting", "idle")
  /\ Dropped
  /\ UNCHANGED <<enabled, link, made, snap, tried>>

-----------------------------------------------------------------------------
(* Guests. *)

\* meetingByGuestToken: a copy of the meeting whose token the guest presents.
\* A link has a code whenever it has a token: both are made, dropped and lost
\* together. An ended meeting refuses here and changes nothing.
FindMeeting(r) ==
  /\ Goto(r, "idle", "found")
  /\ enabled /\ link # NoLink
  /\ snap' = [snap EXCEPT ![r] = link]
  /\ UNCHANGED <<enabled, link, made, limiter, tried>>

Done(r, from) == Goto(r, from, "idle") /\ snap' = [snap EXCEPT ![r] = NoLink]

MayTryRenewing(r) ==  \* mutant: a refused attempt renews the cooldown
  /\ pc[r] = "found"
  /\ IF tries.sampai > 0
     THEN Done(r, "found") /\ tries' = [tries EXCEPT !.sampai = Cooldown] /\ UNCHANGED wrong
     ELSE Goto(r, "found", "allowed") /\ UNCHANGED <<snap, limiter>>
  /\ UNCHANGED <<enabled, link, made, tried>>
\* bolehCobaKode: refuse while cooled, drop the record when that time is over.
MayTry(r) ==
  /\ \/ tries.sampai > 0 /\ Done(r, "found") /\ UNCHANGED limiter
     \/ tries.sampai = 0 /\ Goto(r, "found", "allowed") /\ Dropped /\ UNCHANGED snap
     \/ tries.sampai = Never /\ Goto(r, "found", "allowed") /\ UNCHANGED <<snap, limiter>>
  /\ UNCHANGED <<enabled, link, made, tried>>

CountedLate(t) ==  \* mutant: > instead of >=
  IF t.gagal + 1 > MaxWrong THEN [gagal |-> 0, sampai |-> Cooldown]
  ELSE [t EXCEPT !.gagal = @ + 1]
CountedOn(t) ==  \* mutant: the count is not reset when the cooldown begins
  [gagal |-> t.gagal + 1, sampai |-> IF t.gagal + 1 >= MaxWrong THEN Cooldown ELSE t.sampai]
\* catatKodeSalah.
Counted(t) ==
  IF t.gagal + 1 >= MaxWrong THEN [gagal |-> 0, sampai |-> Cooldown]
  ELSE [t EXCEPT !.gagal = @ + 1]

WrongCode(r) ==
  /\ Done(r, "allowed")
  /\ tries' = Counted(tries)
  /\ wrong' = wrong + 1
  /\ tried' = (tried \/ snap[r] = link)
  /\ UNCHANGED <<enabled, link, made>>

\* The code the guest gives is the one of the meeting it found: the record is
\* dropped, whatever it says by now.
RightCode(r) ==
  /\ Done(r, "allowed")
  /\ Dropped
  /\ UNCHANGED <<enabled, link, made, tried>>

-----------------------------------------------------------------------------
(* The environment. *)

Tick ==
  /\ tries.sampai > 0
  /\ tries' = [tries EXCEPT !.sampai = @ - 1]
  /\ UNCHANGED <<enabled, link, made, pc, snap, wrong, tried>>

\* A restart drops the record and, since the token is not in the file, the
\* link; GuestEnabled is in the file.
Restart ==
  /\ link' = NoLink /\ tried' = FALSE
  /\ Dropped
  /\ pc' = [r \in Requests |-> "idle"]
  /\ snap' = [r \in Requests |-> NoLink]
  /\ UNCHANGED <<enabled, made>>

Next ==
  \/ \E r \in Requests : \/ ChangeLink(r) \/ ForgetTries(r) \/ FindMeeting(r)
                         \/ MayTry(r) \/ WrongCode(r) \/ RightCode(r)
  \/ Tick
  \/ Restart

Spec == Init /\ [][Next]_vars
\* Time passes.
FairSpec == Spec /\ WF_vars(Tick)

-----------------------------------------------------------------------------
\* guest.go:53-60 and 280-294: between two moments at which the record is
\* dropped, no more than MaxWrong wrong codes are answered, plus one for every
\* other request that was already past the test when the limit was reached.
AttemptsBounded == wrong <= MaxWrong + Cardinality(Requests) - 1

\* guest.go:62-63: a cooldown ends, however often guests keep trying; a refused
\* attempt does not renew it, and those already past the test run out.
CooldownEnds == tries.sampai > 0 ~> tries.sampai <= 0

\* guest.go:140-141: "the new link is not born cooled", it is cooled only after a
\* wrong code was tried on it, unless MaxWrong requests that found an older link
\* are still in flight: their failures are written down for the meeting.
FreshLinkUncooled ==
  Cardinality(Requests) <= MaxWrong
  /\ link # NoLink /\ (\A r \in Requests : pc[r] # "forgetting") /\ tries.sampai > 0
    => tried
=============================================================================

-------------------------- MODULE GuestLinkProofs --------------------------
(* The limit on wrong codes, for any number of requests and any limits.      *)
EXTENDS GuestLink, FiniteSetTheorems, TLAPS

\* Requests whose next step may count as a failure.
Past == {r \in Requests : pc[r] = "allowed"}

\* Until the limit is reached the record counts every wrong code; from then on
\* only the requests already past the test can add to them.
Counts ==
  IF tries.sampai = Never THEN wrong = tries.gagal
  ELSE wrong + Cardinality(Past) <= MaxWrong + Cardinality(Requests) - 1

IInv == TypeOK /\ Counts

LEMMA PastFinite ==
  /\ IsFiniteSet(Past) /\ Cardinality(Past) \in Nat
  /\ Cardinality(Past) <= Cardinality(Requests)
  /\ Cardinality(Requests) \in Nat \ {0}
<1>1. Past \subseteq Requests
  BY DEF Past
<1>2. Cardinality(Requests) # 0
  BY LimitsAssumption, FS_EmptySet DEF LimitsAssumption
<1> QED BY <1>1, <1>2, LimitsAssumption, FS_Subset, FS_CardinalityType DEF LimitsAssumption

\* A request that leaves the critical part is one less.
LEMMA PastLeaves ==
  ASSUME TypeOK, NEW r \in Requests, Goto(r, "allowed", "idle")
  PROVE  /\ Cardinality(Past') = Cardinality(Past) - 1
         /\ Cardinality(Past') <= Cardinality(Requests) - 1
<1>1. r \in Past /\ Past' = Past \ {r}
  BY DEF Past, Goto, TypeOK
<1>2. Cardinality(Past') = Cardinality(Past) - 1
  BY <1>1, PastFinite, FS_RemoveElement
<1> QED BY <1>2, PastFinite

LEMMA RecordType == NoRecord \in [gagal : 0..(MaxWrong - 1), sampai : Never..Cooldown]
BY LimitsAssumption DEF LimitsAssumption, NoRecord, Never

LEMMA InitIInv == Init => IInv
<1> SUFFICES ASSUME Init PROVE IInv
  OBVIOUS
<1>1. made \in 0..MaxLinks /\ link \in 0..made /\ wrong \in Nat
  BY LimitsAssumption DEF Init, NoLink, LimitsAssumption
<1>2. pc \in [Requests -> {"idle", "found", "allowed", "forgetting"}]
  BY DEF Init
<1>3. snap \in [Requests -> 0..made]
  BY <1>1 DEF Init, NoLink
<1>4. TypeOK
  BY <1>1, <1>2, <1>3, RecordType DEF Init, TypeOK
<1>5. Counts
  BY DEF Init, Counts, NoRecord
<1> QED BY <1>4, <1>5 DEF IInv

-----------------------------------------------------------------------------
(* Every step keeps the invariant. *)

LEMMA DroppedCounts == Dropped => Counts'
BY DEF Dropped, Counts, NoRecord

LEMMA ChangeLinkStep ==
  ASSUME IInv, NEW r \in Requests, ChangeLink(r)
  PROVE  IInv'
<1>1. TypeOK'
  <2>0. made \in 0..MaxLinks /\ MaxLinks \in Nat
    BY LimitsAssumption DEF IInv, TypeOK, LimitsAssumption
  <2>1. made' \in 0..MaxLinks /\ link' \in 0..made' /\ 0..made \subseteq 0..made' /\ enabled' \in BOOLEAN
    <3>1. CASE made < MaxLinks /\ made' = made + 1 /\ link' = made' /\ enabled' = TRUE
      <4>1. made + 1 \in 0..MaxLinks /\ made + 1 \in 0..(made + 1)
        BY <2>0, <3>1
      <4>2. 0..made \subseteq 0..(made + 1)
        BY <2>0
      <4> QED BY <3>1, <4>1, <4>2
    <3>2. CASE made' = made /\ link' = NoLink /\ enabled' = FALSE
      <4>1. 0 \in 0..made
        BY <2>0
      <4> QED BY <2>0, <3>2, <4>1 DEF NoLink
    <3>3. \/ made < MaxLinks /\ made' = made + 1 /\ link' = made' /\ enabled' = TRUE
          \/ made' = made /\ link' = NoLink /\ enabled' = FALSE
      BY DEF ChangeLink
    <3> QED BY <3>1, <3>2, <3>3
  <2>2. snap' \in [Requests -> 0..made']
    BY <2>1 DEF ChangeLink, IInv, TypeOK
  <2>3. pc' \in [Requests -> {"idle", "found", "allowed", "forgetting"}]
    BY DEF ChangeLink, Goto, IInv, TypeOK
  <2> QED BY <2>1, <2>2, <2>3 DEF ChangeLink, IInv, TypeOK, limiter
<1>2. Past' = Past
  BY DEF ChangeLink, Goto, Past, IInv, TypeOK
<1>3. Counts'
  BY <1>2 DEF ChangeLink, Counts, IInv, limiter
<1> QED BY <1>1, <1>3 DEF IInv

LEMMA ForgetTriesStep ==
  ASSUME IInv, NEW r \in Requests, ForgetTries(r)
  PROVE  IInv'
<1>1. TypeOK'
  BY RecordType DEF ForgetTries, Goto, Dropped, IInv, TypeOK
<1> QED BY <1>1, DroppedCounts DEF IInv, ForgetTries

LEMMA FindMeetingStep ==
  ASSUME IInv, NEW r \in Requests, FindMeeting(r)
  PROVE  IInv'
<1>1. TypeOK'
  BY DEF FindMeeting, Goto, IInv, TypeOK, limiter
<1>2. Past' = Past
  BY DEF FindMeeting, Goto, Past, IInv, TypeOK
<1>3. Counts'
  BY <1>2 DEF FindMeeting, Counts, IInv, limiter
<1> QED BY <1>1, <1>3 DEF IInv

LEMMA MayTryStep ==
  ASSUME IInv, NEW r \in Requests, MayTry(r)
  PROVE  IInv'
<1>1. TypeOK'
  BY RecordType DEF MayTry, Done, Goto, Dropped, IInv, TypeOK, limiter, NoLink
<1>2. CASE tries.sampai > 0
  <2>1. Past' = Past /\ UNCHANGED limiter
    BY <1>2 DEF MayTry, Done, Goto, Past, IInv, TypeOK, Never
  <2> QED BY <1>1, <2>1 DEF Counts, IInv, limiter
<1>3. CASE tries.sampai = 0
  BY <1>1, <1>3, DroppedCounts DEF MayTry, IInv, Never
<1>4. CASE tries.sampai = Never
  BY <1>1, <1>4 DEF MayTry, Counts, IInv, Never, limiter
<1> QED BY <1>2, <1>3, <1>4 DEF MayTry

LEMMA WrongCodeStep ==
  ASSUME IInv, NEW r \in Requests, WrongCode(r)
  PROVE  IInv'
<1> USE LimitsAssumption DEF LimitsAssumption
<1>1. /\ Goto(r, "allowed", "idle") /\ snap' = [snap EXCEPT ![r] = NoLink]
      /\ tries' = Counted(tries) /\ wrong' = wrong + 1
      /\ tried' \in BOOLEAN /\ UNCHANGED <<enabled, link, made>>
  BY DEF WrongCode, Done, IInv, TypeOK
<1>2. tries.gagal \in 0..(MaxWrong - 1) /\ tries.sampai \in Never..Cooldown /\ wrong \in Nat
  BY DEF IInv, TypeOK
<1>3. tries' \in [gagal : 0..(MaxWrong - 1), sampai : Never..Cooldown]
  BY <1>1, <1>2 DEF Counted, Never, IInv, TypeOK
<1>4. TypeOK'
  <2>1. pc' \in [Requests -> {"idle", "found", "allowed", "forgetting"}]
    BY <1>1 DEF Goto, IInv, TypeOK
  <2>2. snap' \in [Requests -> 0..made']
    BY <1>1 DEF IInv, TypeOK, NoLink
  <2>3. wrong' \in Nat
    BY <1>1, <1>2
  <2> QED BY <1>1, <1>3, <2>1, <2>2, <2>3 DEF IInv, TypeOK
<1>5. CASE tries.sampai = Never /\ tries.gagal + 1 < MaxWrong
  <2>1. tries' = [tries EXCEPT !.gagal = @ + 1] /\ wrong = tries.gagal
    BY <1>1, <1>2, <1>5 DEF Counted, Counts, IInv
  <2>2. tries'.sampai = Never /\ tries'.gagal = wrong'
    BY <2>1, <1>1, <1>5 DEF IInv, TypeOK
  <2> QED BY <2>2, <1>4 DEF Counts, IInv
<1>6. CASE tries.sampai = Never /\ tries.gagal + 1 >= MaxWrong
  <2>1. wrong' = MaxWrong /\ tries'.sampai # Never
    BY <1>1, <1>2, <1>6 DEF Counted, Counts, IInv, Never
  <2>2. /\ Cardinality(Past') <= Cardinality(Requests) - 1
        /\ Cardinality(Past') = Cardinality(Past) - 1
        /\ Cardinality(Past) \in Nat /\ Cardinality(Requests) \in Nat
    BY <1>1, PastLeaves, PastFinite DEF IInv
  <2>3. wrong' + Cardinality(Past') <= MaxWrong + Cardinality(Requests) - 1
    BY <2>1, <2>2
  <2> QED BY <2>1, <2>3, <1>4 DEF Counts, IInv
<1>7. CASE tries.sampai # Never
  <2>1. tries'.sampai # Never
    <3>1. tries' = [gagal |-> 0, sampai |-> Cooldown] \/ tries' = [tries EXCEPT !.gagal = @ + 1]
      BY <1>1 DEF Counted
    <3>2. Cooldown # Never
      BY DEF Never
    <3> QED BY <3>1, <3>2, <1>7 DEF IInv, TypeOK
  <2>2. wrong' + Cardinality(Past') = wrong + Cardinality(Past)
    <3>1. Cardinality(Past') = Cardinality(Past) - 1 /\ Cardinality(Past) \in Nat
      BY <1>1, PastLeaves, PastFinite DEF IInv
    <3> QED BY <1>1, <1>2, <3>1
  <2> QED BY <1>4, <1>7, <2>1, <2>2 DEF Counts, IInv
<1> QED BY <1>2, <1>4, <1>5, <1>6, <1>7 DEF IInv

LEMMA RightCodeStep ==
  ASSUME IInv, NEW r \in Requests, RightCode(r)
  PROVE  IInv'
<1>1. TypeOK'
  BY RecordType DEF RightCode, Done, Goto, Dropped, IInv, TypeOK, NoLink
<1> QED BY <1>1, DroppedCounts DEF IInv, RightCode

LEMMA EnvironmentStep ==
  ASSUME IInv, Tick \/ Restart
  PROVE  IInv'
<1>1. CASE Tick
  <2>1. TypeOK' /\ tries'.sampai # Never /\ tries.sampai # Never
    BY <1>1, LimitsAssumption DEF Tick, IInv, TypeOK, Never, LimitsAssumption
  <2>2. Past' = Past
    BY <1>1 DEF Tick, Past
  <2> QED BY <1>1, <2>1, <2>2 DEF Tick, Counts, IInv
<1>2. CASE Restart
  <2>1. link' \in 0..made' /\ snap' \in [Requests -> 0..made']
    BY <1>2, LimitsAssumption DEF Restart, IInv, TypeOK, NoLink, LimitsAssumption
  <2>2. pc' \in [Requests -> {"idle", "found", "allowed", "forgetting"}]
    BY <1>2 DEF Restart
  <2>3. TypeOK'
    BY <1>2, <2>1, <2>2, RecordType DEF Restart, Dropped, IInv, TypeOK
  <2> QED BY <1>2, <2>3, DroppedCounts DEF Restart, IInv
<1> QED BY <1>1, <1>2

LEMMA NextIInv == IInv /\ [Next]_vars => IInv'
<1> SUFFICES ASSUME IInv, [Next]_vars PROVE IInv'
  OBVIOUS
<1>1. CASE Next
  BY <1>1, ChangeLinkStep, ForgetTriesStep, FindMeetingStep, MayTryStep, WrongCodeStep,
     RightCodeStep, EnvironmentStep DEF Next
<1>2. CASE UNCHANGED vars
  BY <1>2 DEF vars, limiter, IInv, TypeOK, Counts, Past
<1> QED BY <1>1, <1>2

\* guest.go:53-60 and 174-207: no more wrong codes are answered in a row than
\* the limit and the other requests, whatever managers, time and restarts do.
THEOREM AttemptLimit == Spec => []AttemptsBounded
<1>1. IInv => AttemptsBounded
  BY PastFinite, LimitsAssumption
  DEF IInv, TypeOK, Counts, AttemptsBounded, LimitsAssumption
<1> QED BY <1>1, InitIInv, NextIInv, PTL DEF Spec

\* guest.go:163-214: the record of failed attempts keeps its type: a count
\* below the limit and a cooldown of at most Cooldown.
THEOREM LimiterTypes == Spec => []TypeOK
<1>1. IInv => TypeOK
  BY DEF IInv
<1> QED BY <1>1, InitIInv, NextIInv, PTL DEF Spec

-----------------------------------------------------------------------------
(* A new link is not born cooled. *)

\* Requests past the lookup that found a link which is no longer the meeting's.
Stale == {r \in Requests : pc[r] \in {"found", "allowed"} /\ snap[r] # link}

\* The rotation is complete and nobody has missed the new link's code yet.
Untouched ==
  /\ Cardinality(Requests) <= MaxWrong
  /\ link # NoLink /\ ~tried
  /\ \A r \in Requests : pc[r] # "forgetting"

\* What the record holds and what stale requests may still add to it stay below
\* the limit together.
Slack ==
  Untouched => tries.sampai <= 0 /\ tries.gagal + Cardinality(Stale) < MaxWrong

LEMMA SomeRequests ==
  ASSUME NEW S, S \subseteq Requests
  PROVE  /\ IsFiniteSet(S) /\ Cardinality(S) \in Nat /\ Cardinality(Requests) \in Nat
         /\ \A r \in Requests : S \subseteq Requests \ {r} => Cardinality(S) < Cardinality(Requests)
<1>1. IsFiniteSet(S) /\ Cardinality(S) \in Nat /\ Cardinality(Requests) \in Nat
  BY LimitsAssumption, FS_Subset, FS_CardinalityType DEF LimitsAssumption
<1>2. ASSUME NEW r \in Requests, S \subseteq Requests \ {r}
      PROVE  Cardinality(S) < Cardinality(Requests)
  <2>1. IsFiniteSet(Requests \ {r}) /\ Cardinality(Requests \ {r}) = Cardinality(Requests) - 1
    BY LimitsAssumption, FS_RemoveElement DEF LimitsAssumption
  <2>2. Cardinality(S) <= Cardinality(Requests \ {r})
    BY <2>1, <1>2, FS_Subset
  <2> QED BY <2>1, <2>2, <1>1
<1> QED BY <1>1, <1>2

LEMMA StaleRequests == Stale \subseteq Requests /\ Stale' \subseteq Requests
BY DEF Stale

\* Fewer stale requests are no more of them.
LEMMA StaleShrinks ==
  ASSUME Stale' \subseteq Stale
  PROVE  /\ Cardinality(Stale') \in Nat /\ Cardinality(Stale) \in Nat
         /\ Cardinality(Stale') <= Cardinality(Stale)
BY StaleRequests, SomeRequests, FS_Subset

\* A request that is done is not stale any more.
LEMMA DoneShrinks ==
  ASSUME TypeOK, NEW r \in Requests, NEW from, Done(r, from), link' = link
  PROVE  Stale' = Stale \ {r}
BY DEF Done, Goto, TypeOK, Stale

\* Until the link changes or a request leaves "forgetting", what made the link
\* untouched still does.
LEMMA GuestStepUntouched ==
  ASSUME TypeOK, NEW r \in Requests, NEW from, NEW to, Goto(r, from, to), from # "forgetting",
         link' = link, ~tried' => ~tried, Untouched'
  PROVE  Untouched
BY DEF Untouched, Goto, TypeOK

LEMMA DroppedSlack ==
  ASSUME Dropped, Untouched' => Cardinality(Stale') < MaxWrong
  PROVE  Slack'
<1>1. tries'.sampai = -1 /\ tries'.gagal = 0
  BY DEF Dropped, NoRecord, Never
<1>2. Cardinality(Stale') \in Nat
  BY StaleRequests, SomeRequests
<1> QED BY <1>1, <1>2 DEF Slack

LEMMA ManagersKeepSlack ==
  ASSUME IInv, Slack, NEW r \in Requests, ChangeLink(r) \/ ForgetTries(r)
  PROVE  Slack'
<1>1. CASE ChangeLink(r)
  <2>1. pc'[r] = "forgetting"
    BY <1>1 DEF ChangeLink, Goto, IInv, TypeOK
  <2> QED BY <2>1 DEF Slack, Untouched
<1>2. CASE ForgetTries(r)
  <2>1. Stale' \subseteq Requests \ {r} /\ Dropped
    BY <1>2 DEF ForgetTries, Goto, Stale, IInv, TypeOK
  <2>2. /\ Cardinality(Stale') \in Nat /\ Cardinality(Requests) \in Nat
        /\ Cardinality(Stale') < Cardinality(Requests)
    BY <2>1, SomeRequests
  <2>3. Untouched' => Cardinality(Stale') < MaxWrong
    BY <2>1, <2>2, LimitsAssumption DEF Untouched, LimitsAssumption
  <2> QED BY <2>1, <2>3, DroppedSlack
<1> QED BY <1>1, <1>2

LEMMA GuestsKeepSlack ==
  ASSUME IInv, Slack, NEW r \in Requests,
         FindMeeting(r) \/ MayTry(r) \/ WrongCode(r) \/ RightCode(r)
  PROVE  Slack'
<1> USE LimitsAssumption DEF LimitsAssumption
<1>t. /\ TypeOK /\ tries.gagal \in 0..(MaxWrong - 1) /\ tries.sampai \in Never..Cooldown
      /\ MaxWrong \in Nat
  BY DEF IInv, TypeOK
<1>1. CASE FindMeeting(r)
  <2>1. Stale' = Stale /\ tries' = tries
    BY <1>t, <1>1 DEF FindMeeting, Goto, Stale, TypeOK, limiter
  <2>2. Untouched' => Untouched
    BY <1>t, <1>1, GuestStepUntouched DEF FindMeeting
  <2> QED BY <2>1, <2>2 DEF Slack
<1>2. CASE MayTry(r)
  <2>1. Untouched' => Untouched
    BY <1>t, <1>2, GuestStepUntouched DEF MayTry, Done
  <2>2. Stale' \subseteq Stale
    BY <1>t, <1>2 DEF MayTry, Done, Goto, Stale, TypeOK
  <2>3. /\ Cardinality(Stale') \in Nat /\ Cardinality(Stale) \in Nat
        /\ Cardinality(Stale') <= Cardinality(Stale)
    BY <2>2, StaleShrinks
  <2>4. CASE UNCHANGED limiter
    BY <1>t, <2>1, <2>3, <2>4 DEF Slack, limiter
  <2>5. CASE Dropped
    BY <1>t, <2>1, <2>3, <2>5, DroppedSlack DEF Slack
  <2> QED BY <1>2, <2>4, <2>5 DEF MayTry
<1>3. CASE WrongCode(r)
  <2>1. /\ Done(r, "allowed") /\ tries' = Counted(tries) /\ link' = link
        /\ tried' = (tried \/ snap[r] = link)
    BY <1>3 DEF WrongCode
  <2>2. SUFFICES ASSUME Untouched' PROVE tries'.sampai <= 0 /\ tries'.gagal + Cardinality(Stale') < MaxWrong
    BY DEF Slack
  <2>3. Untouched /\ snap[r] # link
    BY <1>t, <2>1, <2>2, GuestStepUntouched DEF Done, Untouched
  <2>4. r \in Stale /\ Stale' = Stale \ {r}
    BY <1>t, <2>1, <2>3, DoneShrinks DEF Stale, Done, Goto
  <2>5. Cardinality(Stale') = Cardinality(Stale) - 1 /\ Cardinality(Stale) \in Nat /\ Cardinality(Stale) # 0
    BY <2>4, StaleRequests, SomeRequests, FS_RemoveElement, FS_EmptySet
  <2>6. tries.sampai <= 0 /\ tries.gagal + Cardinality(Stale) < MaxWrong
    BY <2>3 DEF Slack
  <2>7. tries.gagal + 1 < MaxWrong
    BY <1>t, <2>5, <2>6
  <2>8. tries'.sampai = tries.sampai /\ tries'.gagal = tries.gagal + 1
    BY <1>t, <2>1, <2>7 DEF Counted, TypeOK
  <2> QED BY <1>t, <2>5, <2>6, <2>8
<1>4. CASE RightCode(r)
  <2>1. Untouched' => Untouched
    BY <1>t, <1>4, GuestStepUntouched DEF RightCode, Done
  <2>2. Stale' \subseteq Stale /\ Dropped
    BY <1>t, <1>4, DoneShrinks DEF RightCode
  <2>3. /\ Cardinality(Stale') \in Nat /\ Cardinality(Stale) \in Nat
        /\ Cardinality(Stale') <= Cardinality(Stale)
    BY <2>2, StaleShrinks
  <2> QED BY <1>t, <2>1, <2>2, <2>3, DroppedSlack DEF Slack
<1> QED BY <1>1, <1>2, <1>3, <1>4

LEMMA EnvironmentKeepsSlack ==
  ASSUME IInv, Slack, Tick \/ Restart
  PROVE  Slack'
<1>1. CASE Tick
  <2>1. Untouched' => Untouched
    BY <1>1 DEF Tick, Untouched
  <2> QED BY <1>1, <2>1, LimitsAssumption DEF Tick, Slack, IInv, TypeOK, LimitsAssumption
<1>2. CASE Restart
  BY <1>2 DEF Restart, Slack, Untouched
<1> QED BY <1>1, <1>2

LEMMA NextSlack == IInv /\ Slack /\ [Next]_vars => Slack'
<1> SUFFICES ASSUME IInv, Slack, [Next]_vars PROVE Slack'
  OBVIOUS
<1>1. CASE Next
  BY <1>1, ManagersKeepSlack, GuestsKeepSlack, EnvironmentKeepsSlack DEF Next
<1>2. CASE UNCHANGED vars
  BY <1>2 DEF vars, limiter, Slack, Untouched, Stale
<1> QED BY <1>1, <1>2

\* guest.go:140-141 and 163-214: once the rotation has dropped the record, the
\* failures of requests that found the old link cannot cool the new one, as long
\* as no more than MaxWrong requests are in flight.
THEOREM FreshLinks == Spec => []FreshLinkUncooled
<1>1. Init => Slack
  BY DEF Init, Slack, Untouched
<1>2. IInv /\ Slack => FreshLinkUncooled
  BY LimitsAssumption
  DEF IInv, TypeOK, Slack, Untouched, FreshLinkUncooled, LimitsAssumption, Never
<1> QED BY <1>1, <1>2, InitIInv, NextIInv, NextSlack, PTL DEF Spec
=============================================================================

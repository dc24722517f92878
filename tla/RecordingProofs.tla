-------------------------- MODULE RecordingProofs --------------------------
(* Recordings, for any number of meetings, egresses and requests.            *)
EXTENDS Recording, SequenceTheorems, FiniteSetTheorems, WellFoundedInduction, TLAPS

-----------------------------------------------------------------------------
(* Lists of entries, and the statuses as a tuple that grows. *)

LEMMA Tuples ==
  ASSUME NEW S, NEW n \in Nat, NEW f \in [1..n -> S]
  PROVE  f \in Seq(S) /\ Len(f) = n
<1>1. f \in Seq(S)
  BY SeqDef
<1> QED BY <1>1, LenProperties

LEMMA AttachedList ==
  ASSUME NEW list \in Seq(Entry), NEW e \in Egresses
  PROVE  /\ Attached(list, e) \in Seq(Entry)
         /\ DOMAIN Attached(list, e) = DOMAIN list \cup {Len(list) + 1}
         /\ \A i \in DOMAIN list : Attached(list, e)[i] = list[i] /\ i # Len(list) + 1
         /\ Attached(list, e)[Len(list) + 1].egress = e
<1> DEFINE x == [egress |-> e, status |-> "STARTING", ended |-> FALSE]
<1>1. x \in Entry
  BY DEF Entry, Statuses, Active
<1>2. Len(list) \in Nat /\ DOMAIN list = 1..Len(list)
  BY LenProperties
<1>3. /\ Append(list, x) \in Seq(Entry) /\ Len(Append(list, x)) = Len(list) + 1
      /\ \A i \in 1..Len(list) : Append(list, x)[i] = list[i]
      /\ Append(list, x)[Len(list) + 1] = x
  BY <1>1, AppendProperties
<1>4. DOMAIN Append(list, x) = 1..(Len(list) + 1)
  BY <1>3, LenProperties
<1>5. 1..(Len(list) + 1) = 1..Len(list) \cup {Len(list) + 1}
  BY <1>2
<1> QED BY <1>2, <1>3, <1>4, <1>5 DEF Attached

LEMMA UpdatedList ==
  ASSUME NEW list \in Seq(Entry), NEW e, NEW status \in Statuses
  PROVE  /\ Updated(list, e, status) \in Seq(Entry)
         /\ DOMAIN Updated(list, e, status) = DOMAIN list
         /\ \A i \in DOMAIN list :
              /\ Updated(list, e, status)[i].egress = list[i].egress
              /\ list[i].ended => Updated(list, e, status)[i].ended
              /\ list[i].egress = e /\ status \in EndStatuses => Updated(list, e, status)[i].ended
<1>1. Len(list) \in Nat /\ DOMAIN list = 1..Len(list)
  BY LenProperties
<1>2. \A i \in DOMAIN list : list[i] \in Entry
  BY <1>1, ElementOfSeq
<1>3. \A i \in DOMAIN list : Updated(list, e, status)[i] \in Entry
  BY <1>2 DEF Updated, Entry
<1>4. Updated(list, e, status) \in [1..Len(list) -> Entry]
  BY <1>1, <1>3 DEF Updated
<1>5. Updated(list, e, status) \in Seq(Entry)
  BY <1>1, <1>4, SeqDef
<1>6. ASSUME NEW i \in DOMAIN list
      PROVE  /\ Updated(list, e, status)[i].egress = list[i].egress
             /\ list[i].ended => Updated(list, e, status)[i].ended
             /\ list[i].egress = e /\ status \in EndStatuses => Updated(list, e, status)[i].ended
  <2>1. CASE list[i].egress = e
    <3>1. Updated(list, e, status)[i] =
            [list[i] EXCEPT !.status = status, !.ended = @ \/ status \in EndStatuses]
      BY <2>1 DEF Updated
    <3> QED BY <3>1, <1>2 DEF Entry
  <2>2. CASE list[i].egress # e
    BY <2>2 DEF Updated
  <2> QED BY <2>1, <2>2
<1> QED BY <1>1, <1>4, <1>5, <1>6

-----------------------------------------------------------------------------
(* The invariant. *)

StoreTypes ==
  /\ created \in 0..MaxMeetings /\ open \subseteq 1..created
  /\ recs \in [Meetings -> Seq(Entry)]
ServerTypes ==
  /\ started \in 0..MaxEgress
  /\ egress \in [1..started -> Statuses]
  /\ hooks \in [1..started -> Seq(Statuses)]
LocalTypes ==
  /\ pc \in [Requests -> {"idle", "starting", "attaching", "listing", "stopping", "replied",
                         "surveying", "sweeping"}]
  /\ mine \in [Requests -> Meetings \cup {NoMeeting}]
  /\ targets \in [Requests -> SUBSET Egresses] /\ asked \in [Requests -> SUBSET Egresses]
  /\ at \in [Requests -> Egresses \cup {NoEgress}]

\* No two entries share an egress.
Unique ==
  /\ \A m \in Meetings : \A i \in DOMAIN recs[m] : recs[m][i].egress \in 1..started
  /\ \A m, k \in Meetings : \A i \in DOMAIN recs[m], j \in DOMAIN recs[k] :
       recs[m][i].egress = recs[k][j].egress => m = k /\ i = j

\* An egress that is still to be attached has no entry, and one request has it.
Attaching ==
  /\ \A r \in Requests : pc[r] # "idle" => mine[r] \in 1..created
  /\ \A r \in Requests : pc[r] = "attaching" =>
       /\ at[r] \in 1..started
       /\ \A m \in Meetings : \A i \in DOMAIN recs[m] : recs[m][i].egress # at[r]
  /\ \A r, q \in Requests :
       pc[r] = "attaching" /\ pc[q] = "attaching" /\ at[r] = at[q] => r = q

\* What a stop request need not stop any more no longer runs.  What ending a
\* meeting still has to stop was started.
Stopping ==
  /\ \A r \in Requests : pc[r] = "sweeping" => targets[r] \subseteq 1..started
  /\ \A r \in Requests : pc[r] \in {"stopping", "replied"} =>
       /\ asked[r] \subseteq 1..started /\ targets[r] \subseteq 1..started
       /\ \A e \in asked[r] : e \in targets[r] \/ egress[e] \notin Active
  /\ \A r \in Requests : pc[r] = "replied" => at[r] \in 1..started /\ egress[at[r]] \notin Active

IInv == StoreTypes /\ ServerTypes /\ LocalTypes /\ Unique /\ Attaching /\ Stopping

\* The last webhook of an egress tells its status; one that is over and has no
\* webhook left has the end in its entry, and its entry is attached.
Following ==
  \A e \in 1..started : hooks[e] # << >> => hooks[e][Len(hooks[e])] = egress[e]
Ended ==
  \A e \in 1..started : hooks[e] = << >> /\ egress[e] \in Finals =>
    /\ \A r \in Requests : ~(pc[r] = "attaching" /\ at[r] = e)
    /\ \A m \in Meetings : \A i \in DOMAIN recs[m] :
         recs[m][i].egress = e => recs[m][i].ended
\* A meeting that has an entry exists.
Stored == \A m \in Meetings : DOMAIN recs[m] # {} => m \in 1..created

Settled == Following /\ Ended /\ Stored

LEMMA Bounds ==
  ASSUME StoreTypes, ServerTypes
  PROVE  /\ started \in Nat /\ 1..started \subseteq Egresses /\ MaxEgress \in Nat
         /\ created \in Nat /\ 1..created \subseteq Meetings /\ MaxMeetings \in Nat
         /\ Finals \cap Active = {} /\ NoMeeting \notin Meetings /\ NoEgress \notin Egresses
BY BoundsAssumption, FinalsAssumption
   DEF BoundsAssumption, FinalsAssumption, StoreTypes, ServerTypes, Egresses, Meetings, NoMeeting, NoEgress

LEMMA TypesSplit == TypeOK <=> StoreTypes /\ ServerTypes /\ LocalTypes
BY DEF TypeOK, StoreTypes, ServerTypes, LocalTypes

LEMMA InitIInv == Init => IInv /\ Settled
<1> SUFFICES ASSUME Init PROVE IInv /\ Settled
  OBVIOUS
<1>1. << >> \in Seq(Entry) /\ << >> \in [1..0 -> Statuses] /\ << >> \in [1..0 -> Seq(Statuses)]
      /\ DOMAIN << >> = {}
  BY SeqDef
<1>2. StoreTypes /\ ServerTypes /\ LocalTypes
  BY <1>1, BoundsAssumption
     DEF BoundsAssumption, Init, StoreTypes, ServerTypes, LocalTypes, Meetings, Egresses
<1>3. \A m \in Meetings : DOMAIN recs[m] = {} /\ recs[m] = << >>
  BY <1>1 DEF Init
<1>4. Unique /\ Attaching /\ Stopping
  BY <1>3 DEF Init, Unique, Attaching, Stopping
<1>5. Settled
  BY <1>3 DEF Init, Settled, Following, Ended, Stored
<1> QED BY <1>2, <1>4, <1>5 DEF IInv

-----------------------------------------------------------------------------
(* What the steps of the server do. *)

LEMMA StartEgressServer ==
  ASSUME StoreTypes, ServerTypes, StartEgress
  PROVE  /\ ServerTypes' /\ started' = started + 1 /\ started' \in Egresses
         /\ \A e \in 1..started : egress'[e] = egress[e] /\ hooks'[e] = hooks[e]
         /\ egress'[started'] = "STARTING" /\ hooks'[started'] = <<"STARTING">>
         /\ 1..started' = 1..started \cup {started'} /\ started' \notin 1..started
<1>1. "STARTING" \in Statuses
  BY DEF Statuses, Active
<1>2. <<"STARTING">> \in Seq(Statuses)
  BY <1>1
<1>3. started \in Nat /\ started' = started + 1 /\ started' \in 0..MaxEgress /\ started' \in Egresses
  BY Bounds, BoundsAssumption DEF BoundsAssumption, StartEgress, ServerTypes, Egresses
<1>4. /\ egress' \in [1..started' -> Statuses] /\ egress'[started'] = "STARTING"
      /\ \A e \in 1..started : egress'[e] = egress[e]
  <2>1. egress \in Seq(Statuses) /\ Len(egress) = started
    BY <1>3, Tuples DEF ServerTypes
  <2>2. /\ Append(egress, "STARTING") \in Seq(Statuses) /\ Len(Append(egress, "STARTING")) = started + 1
        /\ \A e \in 1..started : Append(egress, "STARTING")[e] = egress[e]
        /\ Append(egress, "STARTING")[started + 1] = "STARTING"
    BY <1>1, <2>1, AppendProperties
  <2>3. Append(egress, "STARTING") \in [1..(started + 1) -> Statuses]
    BY <2>2, LenProperties
  <2> QED BY <1>3, <2>2, <2>3 DEF StartEgress
<1>5. /\ hooks' \in [1..started' -> Seq(Statuses)] /\ hooks'[started'] = <<"STARTING">>
      /\ \A e \in 1..started : hooks'[e] = hooks[e]
  <2>1. hooks \in Seq(Seq(Statuses)) /\ Len(hooks) = started
    BY <1>3, Tuples DEF ServerTypes
  <2>2. /\ Append(hooks, <<"STARTING">>) \in Seq(Seq(Statuses)) /\ Len(Append(hooks, <<"STARTING">>)) = started + 1
        /\ \A e \in 1..started : Append(hooks, <<"STARTING">>)[e] = hooks[e]
        /\ Append(hooks, <<"STARTING">>)[started + 1] = <<"STARTING">>
    BY <1>2, <2>1, AppendProperties
  <2>3. Append(hooks, <<"STARTING">>) \in [1..(started + 1) -> Seq(Statuses)]
    BY <2>2, LenProperties
  <2> QED BY <1>3, <2>2, <2>3 DEF StartEgress
<1>6. 1..started' = 1..started \cup {started'} /\ started' \notin 1..started
  BY <1>3
<1> QED BY <1>3, <1>4, <1>5, <1>6 DEF ServerTypes

LEMMA ReportServer ==
  ASSUME ServerTypes, NEW e \in 1..started, NEW status \in Statuses, Report(e, status)
  PROVE  /\ ServerTypes' /\ started' = started
         /\ \A d \in 1..started : d # e => egress'[d] = egress[d] /\ hooks'[d] = hooks[d]
         /\ egress'[e] = status /\ hooks'[e] # << >> /\ hooks'[e][Len(hooks'[e])] = status
<1>1. hooks[e] \in Seq(Statuses)
  BY DEF ServerTypes
<1>2. /\ Append(hooks[e], status) \in Seq(Statuses)
      /\ Len(Append(hooks[e], status)) = Len(hooks[e]) + 1
      /\ Append(hooks[e], status)[Len(hooks[e]) + 1] = status
      /\ Len(hooks[e]) \in Nat
  BY <1>1, AppendProperties, LenProperties
<1>3. hooks'[e] = Append(hooks[e], status) /\ egress'[e] = status
  BY DEF Report, ServerTypes
<1>4. hooks'[e] # << >>
  BY <1>2, <1>3, EmptySeq
<1>5. ServerTypes'
  BY <1>2 DEF Report, ServerTypes
<1> QED BY <1>2, <1>3, <1>4, <1>5 DEF Report, ServerTypes

\* Nothing of the server changes except that egresses start or come closer to
\* their end: requests that stop keep what they have reached.
Proceeds ==
  /\ started \in Nat /\ started' \in Nat /\ 1..started \subseteq 1..started'
  /\ \A e \in 1..started : egress[e] \notin Active => egress'[e] \notin Active

LEMMA StoppingKept ==
  ASSUME Stopping, Proceeds, UNCHANGED locals
  PROVE  Stopping'
BY DEF Stopping, Proceeds, locals

LEMMA UniqueKept == ASSUME Unique, Proceeds, UNCHANGED recs PROVE Unique'
BY DEF Unique, Proceeds

LEMMA AttachingKept ==
  ASSUME Attaching, Proceeds, UNCHANGED <<store, locals>> PROVE Attaching'
BY DEF Attaching, Proceeds, locals, store

LEMMA ReturnLocals ==
  ASSUME LocalTypes, NEW r \in Requests, NEW from, Return(r, from)
  PROVE  LocalTypes'
BY DEF LocalTypes, Return, Goto

\* A request that returns takes nothing with it.
LEMMA ReturnKeeps ==
  ASSUME StoreTypes, ServerTypes, LocalTypes, Unique, Attaching, Stopping, Proceeds,
         UNCHANGED <<created, recs>>, NEW r \in Requests, NEW from, Return(r, from)
  PROVE  LocalTypes' /\ Unique' /\ Attaching' /\ Stopping'
<1>1. LocalTypes' /\ Unique'
  BY ReturnLocals, UniqueKept
<1>2. Attaching'
  BY DEF LocalTypes, Return, Goto, Attaching, Proceeds
<1>3. Stopping'
  BY DEF LocalTypes, Return, Goto, Stopping, Proceeds
<1> QED BY <1>1, <1>2, <1>3

-----------------------------------------------------------------------------
(* Every step keeps the invariant. *)

LEMMA ServerStands ==
  ASSUME StoreTypes, ServerTypes, UNCHANGED server
  PROVE  ServerTypes' /\ Proceeds /\ started' = started
<1>1. started \in Nat
  BY Bounds
<1> QED BY <1>1 DEF ServerTypes, Proceeds, server

LEMMA MeetingStep ==
  ASSUME IInv, CreateMeeting \/ \E m \in Meetings : MeetingEnds(m) \/ MeetingRevived(m)
  PROVE  IInv'
<1>1. UNCHANGED <<recs, server, locals>>
  BY DEF CreateMeeting, MeetingEnds, MeetingRevived
<1>2. ServerTypes' /\ Proceeds
  BY <1>1, ServerStands DEF IInv
<1>3. StoreTypes' /\ 1..created \subseteq 1..created'
  <2>1. created \in Nat /\ MaxMeetings \in Nat /\ created \in 0..MaxMeetings /\ open \subseteq 1..created
        /\ recs' \in [Meetings -> Seq(Entry)]
    BY <1>1, Bounds DEF IInv, StoreTypes
  <2>2. CASE CreateMeeting
    <3>1. created' = created + 1 /\ created < MaxMeetings /\ open' = {created'}
      BY <2>2 DEF CreateMeeting
    <3> QED BY <2>1, <3>1 DEF StoreTypes
  <2>3. CASE \E m \in Meetings : MeetingEnds(m) \/ MeetingRevived(m)
    BY <2>1, <2>3 DEF MeetingEnds, MeetingRevived, StoreTypes
  <2> QED BY <2>2, <2>3
<1>4. Unique' /\ Stopping'
  BY <1>1, <1>2, UniqueKept, StoppingKept DEF IInv
<1>5. Attaching' /\ LocalTypes'
  BY <1>1, <1>2, <1>3 DEF IInv, LocalTypes, Attaching, Proceeds, locals
<1> QED BY <1>2, <1>3, <1>4, <1>5 DEF IInv

LEMMA BeginStartStep ==
  ASSUME IInv, NEW m \in Meetings, NEW r \in Requests, BeginStart(r, m)
  PROVE  IInv'
<1>1. ServerTypes' /\ Proceeds /\ StoreTypes'
  BY ServerStands DEF IInv, StoreTypes, BeginStart, store
<1>2. LocalTypes' /\ Attaching'
  BY DEF IInv, LocalTypes, Attaching, BeginStart, Goto, store, server
<1>3. Unique' /\ Stopping'
  BY DEF IInv, LocalTypes, Unique, Stopping, BeginStart, Goto, store, server
<1> QED BY <1>1, <1>2, <1>3 DEF IInv

LEMMA StartRpcStep ==
  ASSUME IInv, NEW r \in Requests, StartRpc(r)
  PROVE  IInv'
<1>1. StoreTypes' /\ UNCHANGED store
  BY DEF IInv, StoreTypes, StartRpc, store
<1>2. CASE StartEgress
  <2>1. /\ ServerTypes' /\ started' = started + 1 /\ started' \in Egresses
        /\ \A e \in 1..started : egress'[e] = egress[e] /\ hooks'[e] = hooks[e]
        /\ 1..started' = 1..started \cup {started'} /\ started' \notin 1..started
    BY <1>2, StartEgressServer DEF IInv
  <2>2. Proceeds
    BY <2>1, Bounds DEF IInv, Proceeds
  <2>3. CASE Return(r, "starting")
    BY <1>1, <2>1, <2>2, <2>3, ReturnKeeps DEF IInv, store
  <2>4. CASE /\ Goto(r, "starting", "attaching")
             /\ at' = [at EXCEPT ![r] = started'] /\ UNCHANGED <<mine, targets, asked>>
    <3>1. LocalTypes'
      BY <2>1, <2>4 DEF IInv, LocalTypes, Goto
    <3>2. Unique' /\ Stopping'
      BY <1>1, <2>1, <2>2, <2>4, UniqueKept DEF IInv, LocalTypes, Stopping, Goto, Proceeds, store
    <3>3. Attaching'
      <4>1. \A m \in Meetings : \A i \in DOMAIN recs[m] : recs[m][i].egress # started'
        BY <2>1 DEF IInv, Unique
      <4>2. pc[r] = "starting" /\ pc'[r] = "attaching" /\ at'[r] = started' /\ mine' = mine
            /\ \A q \in Requests \ {r} : pc'[q] = pc[q] /\ at'[q] = at[q]
        BY <2>4 DEF IInv, LocalTypes, Goto
      <4>3. recs' = recs /\ created' = created
        BY <1>1 DEF store
      <4> QED BY <2>1, <4>1, <4>2, <4>3 DEF IInv, Attaching
    <3> QED BY <1>1, <2>1, <3>1, <3>2, <3>3 DEF IInv
  <2>5. Return(r, "starting") \/ (/\ Goto(r, "starting", "attaching")
             /\ at' = [at EXCEPT ![r] = started'] /\ UNCHANGED <<mine, targets, asked>>)
    BY DEF StartRpc
  <2> QED BY <2>3, <2>4, <2>5
<1>3. CASE UNCHANGED server /\ Return(r, "starting")
  BY <1>1, <1>3, ServerStands, ReturnKeeps DEF IInv, store
<1> QED BY <1>2, <1>3 DEF StartRpc

LEMMA AttachStep ==
  ASSUME IInv, NEW r \in Requests, Attach(r)
  PROVE  IInv'
<1> DEFINE m == mine[r]
<1> DEFINE new == Len(recs[m]) + 1
<1>1. /\ pc[r] = "attaching" /\ m \in Meetings /\ at[r] \in 1..started /\ at[r] \in Egresses
      /\ \A k \in Meetings : \A i \in DOMAIN recs[k] : recs[k][i].egress # at[r]
      /\ recs[m] \in Seq(Entry)
  BY Bounds DEF IInv, StoreTypes, Attaching, Attach, Return, Goto
<1>2. /\ recs'[m] = Attached(recs[m], at[r])
      /\ \A k \in Meetings \ {m} : recs'[k] = recs[k]
  <2>1. recs \in [Meetings -> Seq(Entry)] /\ recs' = [recs EXCEPT ![m] = Attached(recs[m], at[r])]
    BY DEF IInv, StoreTypes, Attach
  <2> QED BY <1>1, <2>1, Zenon
<1>3. /\ recs'[m] \in Seq(Entry) /\ DOMAIN recs'[m] = DOMAIN recs[m] \cup {new}
      /\ \A i \in DOMAIN recs[m] : recs'[m][i] = recs[m][i] /\ i # new
      /\ recs'[m][new].egress = at[r]
  <2> DEFINE list == Attached(recs[m], at[r])
  <2>1. /\ list \in Seq(Entry) /\ DOMAIN list = DOMAIN recs[m] \cup {new}
        /\ \A i \in DOMAIN recs[m] : list[i] = recs[m][i] /\ i # new
        /\ list[new].egress = at[r]
    <3>1. recs[m] \in Seq(Entry) /\ at[r] \in Egresses
      BY <1>1
    <3> HIDE DEF m
    <3> QED BY <3>1, AttachedList
  <2>2. recs'[m] = list
    BY <1>2
  <2> HIDE DEF list
  <2> QED BY <2>1, <2>2
<1>4. ServerTypes' /\ Proceeds /\ started' = started
  BY ServerStands DEF IInv, Attach
<1>5. StoreTypes'
  BY <1>1, <1>3 DEF IInv, StoreTypes, Attach
<1>6. LocalTypes' /\ pc' = [pc EXCEPT ![r] = "idle"] /\ Return(r, "attaching")
  <2>1. Return(r, "attaching")
    BY DEF Attach
  <2>2. LocalTypes'
    BY <2>1, ReturnLocals DEF IInv
  <2> QED BY <2>1, <2>2 DEF Return, Goto
<1> HIDE DEF m, new
<1>7. Unique'
  <2>1. ASSUME NEW k \in Meetings, NEW i \in DOMAIN recs'[k]
        PROVE  \/ i \in DOMAIN recs[k] /\ recs'[k][i] = recs[k][i]
               \/ k = m /\ i = new /\ recs'[k][i].egress = at[r]
    BY <1>2, <1>3
  <2>2. ASSUME NEW k \in Meetings, NEW i \in DOMAIN recs'[k] PROVE recs'[k][i].egress \in 1..started'
    BY <1>1, <1>4, <2>1 DEF IInv, Unique
  <2>3. ASSUME NEW k \in Meetings, NEW i \in DOMAIN recs'[k],
               NEW l \in Meetings, NEW j \in DOMAIN recs'[l],
               recs'[k][i].egress = recs'[l][j].egress
        PROVE  k = l /\ i = j
    BY <1>1, <2>1, <2>3 DEF IInv, Unique
  <2> QED BY <2>2, <2>3 DEF Unique
<1>8. Attaching'
  <2>1. ASSUME NEW q \in Requests, pc'[q] # "idle"
        PROVE  q # r /\ pc'[q] = pc[q] /\ at'[q] = at[q] /\ mine'[q] = mine[q]
    BY <1>6, <2>1 DEF IInv, LocalTypes, Return
  <2>2. ASSUME NEW q \in Requests, pc'[q] = "attaching",
               NEW k \in Meetings, NEW i \in DOMAIN recs'[k]
        PROVE  recs'[k][i].egress # at'[q]
    <3>1. q # r /\ pc[q] = "attaching" /\ at'[q] = at[q] /\ at[q] # at[r]
      BY <1>1, <2>1, <2>2 DEF IInv, Attaching
    <3> QED BY <1>2, <1>3, <2>2, <3>1 DEF IInv, Attaching
  <2>3. created' = created
    BY DEF Attach
  <2> QED BY <1>4, <2>1, <2>2, <2>3 DEF IInv, Attaching
<1>9. Stopping'
  BY <1>6 DEF IInv, LocalTypes, Stopping, Attach, Return, Goto, server
<1> QED BY <1>4, <1>5, <1>6, <1>7, <1>8, <1>9 DEF IInv

\* updateRecording adds no entry and gives none another egress.
LEMMA UpdateRecs ==
  ASSUME StoreTypes, NEW m \in Meetings, NEW e, NEW status \in Statuses,
         recs' = [recs EXCEPT ![m] = Updated(@, e, status)]
  PROVE  /\ recs' \in [Meetings -> Seq(Entry)]
         /\ \A k \in Meetings : DOMAIN recs'[k] = DOMAIN recs[k]
         /\ \A k \in Meetings : \A i \in DOMAIN recs[k] :
              /\ recs'[k][i].egress = recs[k][i].egress
              /\ recs[k][i].ended => recs'[k][i].ended
              /\ k = m /\ recs[k][i].egress = e /\ status \in EndStatuses => recs'[k][i].ended
<1> DEFINE list == Updated(recs[m], e, status)
<1>1. recs \in [Meetings -> Seq(Entry)] /\ recs[m] \in Seq(Entry)
  BY DEF StoreTypes
<1>2. /\ list \in Seq(Entry) /\ DOMAIN list = DOMAIN recs[m]
      /\ \A i \in DOMAIN recs[m] :
           /\ list[i].egress = recs[m][i].egress
           /\ recs[m][i].ended => list[i].ended
           /\ recs[m][i].egress = e /\ status \in EndStatuses => list[i].ended
  BY <1>1, UpdatedList
<1>3. recs' = [recs EXCEPT ![m] = list]
  OBVIOUS
<1> HIDE DEF list
<1>4. recs'[m] = list /\ recs' \in [Meetings -> Seq(Entry)]
      /\ \A k \in Meetings \ {m} : recs'[k] = recs[k]
  BY <1>1, <1>2, <1>3
<1> QED BY <1>2, <1>4

LEMMA UpdateKeeps ==
  ASSUME StoreTypes, Unique, Proceeds, NEW m \in Meetings, NEW e, NEW status \in Statuses,
         recs' = [recs EXCEPT ![m] = Updated(@, e, status)], UNCHANGED <<created, open>>
  PROVE  StoreTypes' /\ Unique'
<1>1. /\ recs' \in [Meetings -> Seq(Entry)]
      /\ \A k \in Meetings : DOMAIN recs'[k] = DOMAIN recs[k]
      /\ \A k \in Meetings : \A i \in DOMAIN recs[k] : recs'[k][i].egress = recs[k][i].egress
  BY UpdateRecs
<1>2. StoreTypes'
  BY <1>1 DEF StoreTypes
<1>3. ASSUME NEW k \in Meetings, NEW i \in DOMAIN recs'[k]
      PROVE  i \in DOMAIN recs[k] /\ recs'[k][i].egress = recs[k][i].egress
  BY <1>1
<1>4. Unique'
  BY <1>3 DEF Unique, Proceeds
<1> QED BY <1>2, <1>4

LEMMA BeginStopStep ==
  ASSUME IInv, NEW m \in Meetings, NEW r \in Requests, BeginStop(r, m)
  PROVE  IInv'
<1>1. ServerTypes' /\ Proceeds /\ StoreTypes' /\ Unique'
  BY ServerStands, UniqueKept DEF IInv, StoreTypes, BeginStop, store
<1>2. LocalTypes'
  <2>1. pc' \in [Requests -> {"idle", "starting", "attaching", "listing", "stopping", "replied",
                             "surveying", "sweeping"}]
        /\ mine' \in [Requests -> Meetings \cup {NoMeeting}] /\ at' = at
    BY DEF IInv, LocalTypes, BeginStop, Goto
  <2>2. 1..started \subseteq Egresses
    BY Bounds DEF IInv
  <2>3. targets' \in [Requests -> SUBSET Egresses] /\ asked' \in [Requests -> SUBSET Egresses]
    BY <2>2 DEF IInv, LocalTypes, BeginStop
  <2> QED BY <2>1, <2>3 DEF IInv, LocalTypes
<1>3. Attaching'
  BY DEF IInv, LocalTypes, Attaching, BeginStop, Goto, store, server
<1>4. Stopping'
  BY DEF IInv, LocalTypes, Stopping, BeginStop, Goto, store, server
<1> QED BY <1>1, <1>2, <1>3, <1>4 DEF IInv

LEMMA ListRpcStep ==
  ASSUME IInv, NEW r \in Requests, ListRpc(r)
  PROVE  IInv'
<1> DEFINE running == {e \in 1..started : egress[e] \in Active}
<1>1. ServerTypes' /\ Proceeds /\ StoreTypes' /\ Unique' /\ UNCHANGED store
  BY ServerStands, UniqueKept DEF IInv, StoreTypes, ListRpc, store
<1>2. CASE Return(r, "listing")
  BY <1>1, <1>2, ReturnKeeps DEF IInv, store
<1>3. CASE /\ Goto(r, "listing", "stopping")
           /\ targets' = [targets EXCEPT ![r] = running]
           /\ asked' = [asked EXCEPT ![r] = running]
           /\ UNCHANGED <<mine, at>>
  <2>1. running \subseteq 1..started /\ running \subseteq Egresses
    BY Bounds DEF IInv
  <2> HIDE DEF running
  <2>2. LocalTypes' /\ Attaching'
    BY <1>3, <2>1 DEF IInv, LocalTypes, Attaching, ListRpc, Goto, store, server
  <2>3. Stopping'
    BY <1>3, <2>1 DEF IInv, LocalTypes, Stopping, ListRpc, Goto, store, server
  <2> QED BY <1>1, <2>2, <2>3 DEF IInv
<1> QED BY <1>2, <1>3 DEF ListRpc

LEMMA ReportProceeds ==
  ASSUME IInv, NEW e \in 1..started, NEW status \in Statuses, Report(e, status),
         egress[e] \in Active \/ status \notin Active
  PROVE  ServerTypes' /\ Proceeds
<1>1. /\ ServerTypes' /\ started' = started /\ egress'[e] = status
      /\ \A d \in 1..started : d # e => egress'[d] = egress[d]
  BY ReportServer DEF IInv
<1>2. started \in Nat
  BY Bounds DEF IInv
<1> QED BY <1>1, <1>2 DEF Proceeds

LEMMA StopRpcStep ==
  ASSUME IInv, NEW r \in Requests, StopRpc(r)
  PROVE  IInv'
<1>1. StoreTypes' /\ UNCHANGED store
  BY DEF IInv, StoreTypes, StopRpc, store
<1>2. PICK e \in targets[r] :
        \/ /\ egress[e] \in Active /\ Report(e, "ENDING")
           /\ \/ /\ Goto(r, "stopping", "replied")
                 /\ at' = [at EXCEPT ![r] = e] /\ UNCHANGED <<mine, targets, asked>>
              \/ Return(r, "stopping")
        \/ Return(r, "stopping") /\ UNCHANGED server
  BY DEF StopRpc
<1>3. CASE Return(r, "stopping") /\ UNCHANGED server
  BY <1>1, <1>3, ServerStands, ReturnKeeps DEF IInv, store
<1>4. CASE egress[e] \in Active /\ Report(e, "ENDING")
  <2>1. pc[r] = "stopping" /\ e \in 1..started /\ e \in Egresses
    BY <1>2, Bounds DEF IInv, Stopping, Goto, Return
  <2>2. ServerTypes' /\ Proceeds /\ started' = started /\ egress'[e] = "ENDING"
    BY <1>4, <2>1, ReportProceeds, ReportServer DEF IInv, Statuses
  <2>3. CASE Return(r, "stopping")
    BY <1>1, <2>2, <2>3, ReturnKeeps DEF IInv, store
  <2>4. CASE /\ Goto(r, "stopping", "replied")
             /\ at' = [at EXCEPT ![r] = e] /\ UNCHANGED <<mine, targets, asked>>
    <3>1. LocalTypes' /\ Unique'
      BY <1>1, <2>1, <2>2, <2>4, UniqueKept DEF IInv, LocalTypes, Goto, store
    <3>2. Attaching'
      BY <1>1, <2>2, <2>4 DEF IInv, LocalTypes, Attaching, Goto, store
    <3>3. Stopping'
      BY <2>1, <2>2, <2>4 DEF IInv, LocalTypes, Stopping, Goto, Proceeds, Active
    <3> QED BY <1>1, <2>2, <3>1, <3>2, <3>3 DEF IInv
  <2> QED BY <1>2, <1>3, <2>3, <2>4
<1> QED BY <1>2, <1>3, <1>4

LEMMA WriteReplyStep ==
  ASSUME IInv, NEW r \in Requests, WriteReply(r)
  PROVE  IInv'
<1>1. pc[r] = "replied" /\ mine[r] \in Meetings /\ "ENDING" \in Statuses
  BY Bounds DEF IInv, Attaching, WriteReply, Statuses
<1>2. recs' = [recs EXCEPT ![mine[r]] = Updated(@, at[r], "ENDING")] /\ UNCHANGED <<created, open, server>>
  BY DEF WriteReply
<1>3. ServerTypes' /\ Proceeds /\ started' = started
  BY <1>2, ServerStands DEF IInv
<1>4. StoreTypes' /\ Unique'
  BY <1>1, <1>2, <1>3, UpdateKeeps DEF IInv
<1>5. /\ \A k \in Meetings : DOMAIN recs'[k] = DOMAIN recs[k]
      /\ \A k \in Meetings : \A i \in DOMAIN recs[k] : recs'[k][i].egress = recs[k][i].egress
  BY <1>1, <1>2, UpdateRecs DEF IInv
<1>6. LocalTypes'
  <2>1. CASE Return(r, "replied")
    BY <2>1, ReturnLocals DEF IInv
  <2>2. CASE /\ Goto(r, "replied", "stopping")
             /\ targets' = [targets EXCEPT ![r] = @ \ {at[r]}] /\ UNCHANGED <<mine, at, asked>>
    BY <2>2 DEF IInv, LocalTypes, Goto
  <2> QED BY <2>1, <2>2 DEF WriteReply
<1>7. /\ \A q \in Requests \ {r} : pc'[q] = pc[q] /\ at'[q] = at[q] /\ mine'[q] = mine[q]
      /\ pc'[r] \in {"idle", "stopping"} /\ (pc'[r] = "stopping" => mine'[r] = mine[r])
  BY DEF IInv, LocalTypes, WriteReply, Return, Goto
<1>8. Attaching'
  BY <1>1, <1>2, <1>3, <1>5, <1>7 DEF IInv, Attaching
<1>9. Stopping'
  <2>1. CASE Return(r, "replied")
    BY <1>2, <2>1 DEF IInv, LocalTypes, Stopping, Return, Goto, server
  <2>2. CASE /\ Goto(r, "replied", "stopping")
             /\ targets' = [targets EXCEPT ![r] = @ \ {at[r]}] /\ UNCHANGED <<mine, at, asked>>
    BY <1>2, <2>2 DEF IInv, LocalTypes, Stopping, Goto, server
  <2> QED BY <2>1, <2>2 DEF WriteReply
<1> QED BY <1>3, <1>4, <1>6, <1>8, <1>9 DEF IInv

\* End, up to the list of what it has to stop.
LEMMA EndListStep ==
  ASSUME IInv, NEW r \in Requests, EndList(r) \/ \E m \in Meetings : BeginEnd(r, m)
  PROVE  IInv'
<1>1. ServerTypes' /\ Proceeds /\ StoreTypes' /\ Unique' /\ UNCHANGED <<store, server>>
  BY ServerStands, UniqueKept DEF IInv, StoreTypes, EndList, BeginEnd, store
<1>2. CASE \E m \in Meetings : BeginEnd(r, m)
  <2>1. LocalTypes' /\ Attaching'
    BY <1>2 DEF IInv, LocalTypes, Attaching, BeginEnd, Goto, store, server
  <2>2. Stopping'
    BY <1>2 DEF IInv, LocalTypes, Stopping, BeginEnd, Goto, store, server
  <2> QED BY <1>1, <2>1, <2>2 DEF IInv
<1>3. CASE EndList(r)
  <2>1. PICK found \in {{e \in 1..started : egress[e] \in Active}, {}} :
          targets' = [targets EXCEPT ![r] = found]
    BY <1>3 DEF EndList
  <2>2. found \subseteq 1..started /\ found \subseteq Egresses
    BY Bounds DEF IInv
  <2>3. LocalTypes' /\ Attaching'
    BY <1>1, <1>3, <2>1, <2>2 DEF IInv, LocalTypes, Attaching, EndList, Goto, store, server
  <2>4. Stopping'
    BY <1>1, <1>3, <2>1, <2>2 DEF IInv, LocalTypes, Stopping, EndList, Goto, store, server
  <2> QED BY <1>1, <2>3, <2>4 DEF IInv
<1> QED BY <1>2, <1>3

LEMMA EndStopStep ==
  ASSUME IInv, NEW r \in Requests, EndStop(r)
  PROVE  IInv'
<1>1. PICK e \in targets[r] :
        /\ targets' = [targets EXCEPT ![r] = targets[r] \ {e}]
        /\ (egress[e] \in Active /\ Report(e, "ENDING")) \/ UNCHANGED server
  BY DEF EndStop
<1>2. pc[r] = "sweeping" /\ UNCHANGED <<store, pc, mine, at, asked>>
  BY DEF EndStop
<1>3. ServerTypes' /\ Proceeds
  <2>1. CASE UNCHANGED server
    BY <2>1, ServerStands DEF IInv
  <2>2. CASE egress[e] \in Active /\ Report(e, "ENDING")
    <3>1. e \in 1..started
      BY <1>1, <1>2 DEF IInv, Stopping
    <3> QED BY <2>2, <3>1, ReportProceeds DEF Statuses
  <2> QED BY <1>1, <2>1, <2>2
<1>4. StoreTypes' /\ Unique'
  BY <1>2, <1>3, UniqueKept DEF IInv, StoreTypes, store
<1>5. LocalTypes' /\ Attaching'
  BY <1>1, <1>2, <1>3 DEF IInv, LocalTypes, Attaching, Proceeds, store
<1>6. Stopping'
  BY <1>1, <1>2, <1>3 DEF IInv, LocalTypes, Stopping, Proceeds
<1> QED BY <1>3, <1>4, <1>5, <1>6 DEF IInv

LEMMA EndWriteStep ==
  ASSUME IInv, NEW r \in Requests, EndWrite(r)
  PROVE  IInv'
<1>1. ServerTypes' /\ Proceeds
  BY ServerStands DEF IInv, EndWrite
<1>2. StoreTypes'
  BY DEF IInv, StoreTypes, EndWrite
<1>3. LocalTypes' /\ Unique' /\ Attaching' /\ Stopping'
  BY <1>1, ReturnKeeps DEF IInv, EndWrite
<1> QED BY <1>1, <1>2, <1>3 DEF IInv

LEMMA FirstOf ==
  ASSUME NEW S, S \subseteq Nat, S # {}
  PROVE  \E m \in S : \A k \in S : m <= k
<1> DEFINE less == {p \in Nat \X Nat : p[1] < p[2]}
<1>1. IsWellFoundedOn(less, Nat)
  BY NatLessThanWellFounded DEF OpToRel
<1>2. \E m \in S : \A k \in S : <<k, m>> \notin less
  <2> HIDE DEF less
  <2> QED BY <1>1, WFMin
<1>3. \A m, k \in S : m \in Nat /\ k \in Nat /\ (<<k, m>> \notin less => m <= k)
  OBVIOUS
<1> QED BY <1>2, <1>3

LEMMA FoundMeeting ==
  ASSUME StoreTypes, FoundByRoom # NoMeeting
  PROVE  FoundByRoom \in 1..created
<1>1. created \in Nat /\ open \subseteq 1..created /\ open \subseteq Nat
  BY DEF StoreTypes
<1>2. CASE open # {}
  BY <1>1, <1>2, FirstOf DEF FoundByRoom
<1>3. CASE open = {}
  BY <1>1, <1>3 DEF FoundByRoom, NoMeeting
<1> QED BY <1>2, <1>3

LEMMA WebhookServer ==
  ASSUME ServerTypes, NEW e \in 1..started, HandleWebhook(e)
  PROVE  /\ ServerTypes' /\ started' = started /\ egress' = egress
         /\ hooks[e] \in Seq(Statuses) /\ hooks[e] # << >> /\ Head(hooks[e]) \in Statuses
         /\ hooks'[e] = Tail(hooks[e])
         /\ \A d \in 1..started : d # e => hooks'[d] = hooks[d]
<1>1. hooks[e] \in Seq(Statuses) /\ hooks[e] # << >> /\ hooks' = [hooks EXCEPT ![e] = Tail(@)]
      /\ started' = started /\ egress' = egress
  BY DEF ServerTypes, HandleWebhook
<1>2. Head(hooks[e]) \in Statuses /\ Tail(hooks[e]) \in Seq(Statuses)
  BY <1>1, HeadTailProperties
<1> QED BY <1>1, <1>2 DEF ServerTypes

LEMMA WebhookStep ==
  ASSUME IInv, NEW e \in 1..started, HandleWebhook(e)
  PROVE  IInv'
<1>1. /\ ServerTypes' /\ started' = started /\ egress' = egress
      /\ Head(hooks[e]) \in Statuses
  BY WebhookServer DEF IInv
<1>2. Proceeds
  BY <1>1, Bounds DEF IInv, Proceeds
<1>3. LocalTypes' /\ Stopping'
  BY <1>2, StoppingKept DEF IInv, LocalTypes, HandleWebhook, locals
<1>4. CASE recs' = recs
  <2>1. StoreTypes' /\ UNCHANGED <<store, locals>>
    BY <1>4 DEF IInv, StoreTypes, HandleWebhook, store
  <2> QED BY <1>1, <1>2, <1>3, <2>1, UniqueKept, AttachingKept DEF IInv, store
<1>5. CASE /\ FoundByRoom # NoMeeting
           /\ recs' = [recs EXCEPT ![FoundByRoom] = Updated(@, e, Head(hooks[e]))]
  <2>1. FoundByRoom \in Meetings
    BY <1>5, FoundMeeting, Bounds DEF IInv
  <2>2. UNCHANGED <<created, open, locals>>
    BY DEF HandleWebhook
  <2>3. StoreTypes' /\ Unique'
    BY <1>1, <1>2, <1>5, <2>1, <2>2, UpdateKeeps DEF IInv
  <2>4. /\ \A k \in Meetings : DOMAIN recs'[k] = DOMAIN recs[k]
        /\ \A k \in Meetings : \A i \in DOMAIN recs[k] : recs'[k][i].egress = recs[k][i].egress
    BY <1>1, <1>5, <2>1, UpdateRecs DEF IInv
  <2>5. Attaching'
    BY <1>1, <2>2, <2>4 DEF IInv, Attaching, locals
  <2> QED BY <1>1, <1>3, <2>3, <2>5 DEF IInv
<1> QED BY <1>4, <1>5 DEF HandleWebhook

LEMMA EgressStep ==
  ASSUME IInv, NEW e \in 1..started, EgressRuns(e) \/ EgressEnds(e)
  PROVE  IInv'
<1>1. ServerTypes' /\ Proceeds
  <2>1. CASE EgressRuns(e)
    BY <2>1, ReportProceeds DEF EgressRuns, Statuses, Active
  <2>2. CASE EgressEnds(e)
    BY <2>2, ReportProceeds, Bounds DEF EgressEnds, Statuses, IInv
  <2> QED BY <2>1, <2>2
<1>2. UNCHANGED <<store, locals>>
  BY DEF EgressRuns, EgressEnds
<1>3. Unique' /\ Attaching' /\ Stopping'
  BY <1>1, <1>2, UniqueKept, AttachingKept, StoppingKept DEF IInv, store
<1> QED BY <1>1, <1>2, <1>3 DEF IInv, StoreTypes, LocalTypes, store, locals

LEMMA NextIInv == IInv /\ [Next]_vars => IInv'
<1> SUFFICES ASSUME IInv, [Next]_vars PROVE IInv'
  OBVIOUS
<1>1. CASE UNCHANGED vars
  <2>1. UNCHANGED <<store, server, locals>>
    BY <1>1 DEF vars
  <2>2. ServerTypes' /\ Proceeds
    BY <2>1, ServerStands DEF IInv
  <2>3. Unique' /\ Attaching' /\ Stopping'
    BY <2>1, <2>2, UniqueKept, AttachingKept, StoppingKept DEF IInv, store
  <2> QED BY <2>1, <2>2, <2>3 DEF IInv, StoreTypes, LocalTypes, store, locals
<1>2. CASE Next
  BY <1>2, MeetingStep, BeginStartStep, BeginStopStep, StartRpcStep, AttachStep, ListRpcStep,
     StopRpcStep, WriteReplyStep, EndListStep, EndStopStep, EndWriteStep, WebhookStep,
     EgressStep DEF Next
<1> QED BY <1>1, <1>2

LEMMA Invariance == Spec => []IInv
BY InitIInv, NextIInv, PTL DEF Spec

\* The recordings of a meeting, service.go:744-785, and the requests under way.
THEOREM RecordingTypes == Spec => []TypeOK
<1>1. IInv => TypeOK
  BY TypesSplit DEF IInv
<1> QED BY <1>1, Invariance, PTL

\* service.go:744-785: however many requests and webhooks interleave, and however
\* many meetings share the room, no egress has two entries.
THEOREM OneEntry == Spec => []OneEntryPerEgress
<1>1. IInv => OneEntryPerEgress
  <2> SUFFICES ASSUME IInv, NEW e \in 1..started PROVE Cardinality(Places(e)) <= 1
    BY DEF OneEntryPerEgress
  <2>1. \A p, q \in Places(e) : p = q
    BY DEF Places, IInv, Unique
  <2>2. CASE Places(e) = {}
    BY <2>2, FS_EmptySet
  <2>3. CASE Places(e) # {}
    <3>1. \E p : Places(e) = {p}
      BY <2>1, <2>3
    <3> QED BY <3>1, FS_Singleton
  <2> QED BY <2>2, <2>3
<1> QED BY <1>1, Invariance, PTL

\* service.go:573-602: a stop request that returns without an error has stopped
\* all it was asked to stop, whatever else starts, stops and ends meanwhile.
THEOREM StopComplete == Spec => StopStopsAll
<1>1. IInv /\ [Next]_vars =>
        [\A r \in Requests : pc[r] = "replied" /\ pc'[r] = "idle" =>
           \A e \in asked[r] : egress[e] \notin Active]_vars
  <2> SUFFICES ASSUME IInv, Next, NEW r \in Requests, pc[r] = "replied", pc'[r] = "idle",
                      NEW e \in asked[r]
               PROVE  egress[e] \notin Active
    OBVIOUS
  <2>1. targets[r] = {at[r]}
    <3>1. CASE \E m \in Meetings :
                 \/ MeetingEnds(m) \/ MeetingRevived(m)
                 \/ \E q \in Requests : BeginStart(q, m) \/ BeginStop(q, m) \/ BeginEnd(q, m)
      BY <3>1 DEF MeetingEnds, MeetingRevived, BeginStart, BeginStop, BeginEnd, Goto, locals,
         IInv, LocalTypes
    <3>2. CASE \E q \in Requests : StartRpc(q) \/ Attach(q) \/ ListRpc(q) \/ StopRpc(q)
      BY <3>2 DEF StartRpc, Attach, ListRpc, StopRpc, Return, Goto, IInv, LocalTypes
    <3>3. CASE \E q \in Requests : WriteReply(q)
      BY <3>3 DEF WriteReply, Return, Goto, IInv, LocalTypes
    <3>4. CASE CreateMeeting \/ \E d \in 1..started : HandleWebhook(d) \/ EgressRuns(d) \/ EgressEnds(d)
      BY <3>4 DEF CreateMeeting, HandleWebhook, EgressRuns, EgressEnds, locals
    <3>5. CASE \E q \in Requests : EndList(q) \/ EndStop(q) \/ EndWrite(q)
      BY <3>5 DEF EndList, EndStop, EndWrite, Return, Goto, IInv, LocalTypes
    <3> QED BY <3>1, <3>2, <3>3, <3>4, <3>5 DEF Next
  <2> QED BY <2>1 DEF IInv, Stopping
<1> QED BY <1>1, Invariance, PTL DEF Spec, StopStopsAll

-----------------------------------------------------------------------------
(* A room with one meeting: its recordings settle. *)

OneMeeting == MaxMeetings = 1 /\ RoomFields = {TRUE} /\ AttachFirst /\ Finals \subseteq EndStatuses

\* Steps that report nothing and attach nothing.
LEMMA SettledKept ==
  ASSUME IInv, Settled, UNCHANGED <<recs, server>>, created' \in Nat, created <= created',
         \A r \in Requests : pc'[r] = "attaching" => pc[r] = "attaching" /\ at'[r] = at[r]
  PROVE  Settled'
<1>1. Following'
  BY DEF Settled, Following, server
<1>2. Ended'
  BY DEF Settled, Ended, server
<1>3. created \in Nat
  BY Bounds DEF IInv
<1>4. Stored'
  BY <1>3 DEF Settled, Stored
<1> QED BY <1>1, <1>2, <1>4 DEF Settled

LEMMA SettledReport ==
  ASSUME IInv, Settled, NEW e \in 1..started, NEW status \in Statuses, Report(e, status),
         UNCHANGED store,
         \A r \in Requests : pc'[r] = "attaching" => pc[r] = "attaching" /\ at'[r] = at[r]
  PROVE  Settled'
<1>1. /\ started' = started
      /\ \A d \in 1..started : d # e => egress'[d] = egress[d] /\ hooks'[d] = hooks[d]
      /\ egress'[e] = status /\ hooks'[e] # << >> /\ hooks'[e][Len(hooks'[e])] = status
  BY ReportServer DEF IInv
<1>2. Following'
  BY <1>1 DEF Settled, Following
<1>3. Ended' /\ Stored'
  BY <1>1 DEF Settled, Ended, Stored, store
<1> QED BY <1>2, <1>3 DEF Settled

LEMMA SettledStart ==
  ASSUME IInv, Settled, NEW r \in Requests, StartEgress, UNCHANGED store,
         \/ Return(r, "starting")
         \/ Goto(r, "starting", "attaching") /\ at' = [at EXCEPT ![r] = started']
  PROVE  Settled'
<1>1. /\ \A e \in 1..started : egress'[e] = egress[e] /\ hooks'[e] = hooks[e]
      /\ egress'[started'] = "STARTING" /\ hooks'[started'] = <<"STARTING">>
      /\ 1..started' = 1..started \cup {started'} /\ started' \notin 1..started
  BY StartEgressServer DEF IInv
<1>2. hooks'[started'] # << >> /\ hooks'[started'][Len(hooks'[started'])] = egress'[started']
  BY <1>1
<1>3. Following'
  BY <1>1, <1>2 DEF Settled, Following
<1>4. \A q \in Requests : pc'[q] = "attaching" => (pc[q] = "attaching" /\ at'[q] = at[q]) \/ at'[q] = started'
  BY DEF IInv, LocalTypes, Return, Goto
<1>5. Ended'
  <2> SUFFICES ASSUME NEW e \in 1..started', hooks'[e] = << >>, egress'[e] \in Finals
               PROVE  /\ \A q \in Requests : ~(pc'[q] = "attaching" /\ at'[q] = e)
                      /\ \A m \in Meetings : \A i \in DOMAIN recs'[m] :
                           recs'[m][i].egress = e => recs'[m][i].ended
    BY DEF Ended
  <2>1. e \in 1..started /\ e # started' /\ hooks[e] = << >> /\ egress[e] \in Finals
    BY <1>1, <1>2
  <2>2. recs' = recs
    BY DEF store
  <2> QED BY <1>4, <2>1, <2>2 DEF Settled, Ended
<1>6. Stored'
  BY DEF Settled, Stored, store
<1> QED BY <1>3, <1>5, <1>6 DEF Settled

LEMMA SettledAttach ==
  ASSUME IInv, Settled, NEW r \in Requests, Attach(r)
  PROVE  Settled'
<1> DEFINE m == mine[r]
<1> DEFINE list == Attached(recs[m], at[r])
<1>1. /\ pc[r] = "attaching" /\ m \in Meetings /\ m \in 1..created
      /\ at[r] \in 1..started /\ at[r] \in Egresses /\ recs[m] \in Seq(Entry)
  BY Bounds DEF IInv, StoreTypes, Attaching, Attach, Return, Goto
<1>2. recs' = [recs EXCEPT ![m] = list] /\ recs \in [Meetings -> Seq(Entry)]
      /\ UNCHANGED <<created, server>>
  BY DEF IInv, StoreTypes, Attach
<1>3. \A i \in DOMAIN list : \/ i \in DOMAIN recs[m] /\ list[i] = recs[m][i]
                            \/ list[i].egress = at[r]
  <2> DEFINE new == Len(recs[m]) + 1
  <2>1. /\ list \in Seq(Entry) /\ DOMAIN list = DOMAIN recs[m] \cup {new}
        /\ \A i \in DOMAIN recs[m] : list[i] = recs[m][i] /\ i # new
        /\ list[new].egress = at[r]
    <3>1. recs[m] \in Seq(Entry) /\ at[r] \in Egresses
      BY <1>1
    <3> HIDE DEF m
    <3> QED BY <3>1, AttachedList
  <2> HIDE DEF list, new
  <2> QED BY <2>1
<1> HIDE DEF list
<1>4. recs'[m] = list /\ \A k \in Meetings \ {m} : recs'[k] = recs[k]
  BY <1>1, <1>2, Zenon
<1>5. \A q \in Requests : pc'[q] = "attaching" => pc[q] = "attaching" /\ at'[q] = at[q]
  BY DEF IInv, LocalTypes, Attach, Return, Goto
<1> HIDE DEF m
<1>6. Following'
  BY <1>2 DEF Settled, Following, server
<1>7. Ended'
  BY <1>1, <1>2, <1>3, <1>4, <1>5 DEF Settled, Ended, server
<1>8. Stored'
  BY <1>1, <1>2, <1>4 DEF Settled, Stored
<1> QED BY <1>6, <1>7, <1>8 DEF Settled

LEMMA SettledUpdate ==
  ASSUME IInv, Settled, NEW r \in Requests, WriteReply(r)
  PROVE  Settled'
<1>1. pc[r] = "replied" /\ mine[r] \in Meetings /\ "ENDING" \in Statuses
  BY Bounds DEF IInv, Attaching, WriteReply, Statuses
<1>2. recs' = [recs EXCEPT ![mine[r]] = Updated(@, at[r], "ENDING")] /\ UNCHANGED <<created, open, server>>
  BY DEF WriteReply
<1>3. /\ \A k \in Meetings : DOMAIN recs'[k] = DOMAIN recs[k]
      /\ \A k \in Meetings : \A i \in DOMAIN recs[k] :
           /\ recs'[k][i].egress = recs[k][i].egress
           /\ recs[k][i].ended => recs'[k][i].ended
  BY <1>1, <1>2, UpdateRecs DEF IInv
<1>4. \A q \in Requests : pc'[q] = "attaching" => pc[q] = "attaching" /\ at'[q] = at[q]
  BY DEF IInv, LocalTypes, WriteReply, Return, Goto
<1>5. Following'
  BY <1>2 DEF Settled, Following, server
<1>6. Ended'
  BY <1>2, <1>3, <1>4 DEF Settled, Ended, server
<1>7. Stored'
  BY <1>2, <1>3 DEF Settled, Stored
<1> QED BY <1>5, <1>6, <1>7 DEF Settled

\* The webhook that brings the end finds the entry attached, in the one meeting.
LEMMA SettledWebhook ==
  ASSUME OneMeeting, IInv, Settled, NEW e \in 1..started, HandleWebhook(e)
  PROVE  Settled'
<1>1. /\ started' = started /\ egress' = egress
      /\ hooks[e] \in Seq(Statuses) /\ hooks[e] # << >> /\ Head(hooks[e]) \in Statuses
      /\ hooks'[e] = Tail(hooks[e])
      /\ \A d \in 1..started : d # e => hooks'[d] = hooks[d]
  BY WebhookServer DEF IInv
<1>2. UNCHANGED <<created, open, locals>> /\ \A r \in Requests : ~(pc[r] = "attaching" /\ at[r] = e)
  BY DEF HandleWebhook, OneMeeting
<1>3. /\ FoundByRoom # NoMeeting => recs' = [recs EXCEPT ![FoundByRoom] = Updated(@, e, Head(hooks[e]))]
      /\ FoundByRoom = NoMeeting => recs' = recs
  BY DEF HandleWebhook, OneMeeting
<1>4. created \in 0..1 /\ Meetings = {1} /\ open \subseteq 1..created
  BY DEF OneMeeting, IInv, StoreTypes, Meetings
<1>5. /\ \A k \in Meetings : DOMAIN recs'[k] = DOMAIN recs[k]
      /\ \A k \in Meetings : \A i \in DOMAIN recs[k] :
           /\ recs'[k][i].egress = recs[k][i].egress
           /\ recs[k][i].ended => recs'[k][i].ended
           /\ recs[k][i].egress = e /\ Head(hooks[e]) \in EndStatuses => recs'[k][i].ended
  <2>1. CASE FoundByRoom # NoMeeting
    <3>1. FoundByRoom \in 1..created /\ FoundByRoom \in Meetings
      BY <2>1, FoundMeeting, Bounds DEF IInv
    <3>2. \A k \in Meetings : k = FoundByRoom
      BY <1>4, <3>1
    <3>3. recs' = [recs EXCEPT ![FoundByRoom] = Updated(@, e, Head(hooks[e]))]
      BY <1>3, <2>1
    <3>4. StoreTypes /\ Head(hooks[e]) \in Statuses
      BY <1>1 DEF IInv
    <3> QED BY <3>1, <3>2, <3>3, <3>4, UpdateRecs
  <2>2. CASE FoundByRoom = NoMeeting
    <3>1. created = 0
      <4>1. CASE open # {}
        <5>1. open \subseteq Nat /\ 0 \notin open
          BY <1>4
        <5>2. FoundByRoom \in open
          BY <4>1, <5>1, FirstOf DEF FoundByRoom
        <5> QED BY <2>2, <5>1, <5>2 DEF NoMeeting
      <4>2. CASE open = {}
        BY <1>4, <2>2, <4>2 DEF FoundByRoom, NoMeeting
      <4> QED BY <4>1, <4>2
    <3>2. \A k \in Meetings : DOMAIN recs[k] = {}
      BY <1>4, <3>1 DEF Settled, Stored
    <3> QED BY <1>3, <2>2, <3>2
  <2> QED BY <2>1, <2>2
<1>6. hooks'[e] = << >> => Head(hooks[e]) = egress[e]
  <2> SUFFICES ASSUME Tail(hooks[e]) = << >> PROVE Head(hooks[e]) = egress[e]
    BY <1>1
  <2>1. Len(hooks[e]) \in Nat /\ Len(Tail(hooks[e])) = Len(hooks[e]) - 1 /\ Len(Tail(hooks[e])) = 0
    BY <1>1, HeadTailProperties, LenProperties
  <2>2. Len(hooks[e]) = 1
    BY <2>1
  <2> QED BY <1>1, <2>2 DEF Settled, Following
<1>7. Following'
  <2> SUFFICES ASSUME Tail(hooks[e]) # << >>
               PROVE  Tail(hooks[e])[Len(Tail(hooks[e]))] = hooks[e][Len(hooks[e])]
    BY <1>1 DEF Settled, Following
  <2>1. /\ Tail(hooks[e]) \in Seq(Statuses) /\ Len(Tail(hooks[e])) = Len(hooks[e]) - 1
        /\ \A i \in 1..Len(Tail(hooks[e])) : Tail(hooks[e])[i] = hooks[e][i + 1]
        /\ Len(hooks[e]) \in Nat
    BY <1>1, HeadTailProperties, LenProperties
  <2>2. Len(Tail(hooks[e])) \in Nat \ {0}
    BY <2>1, EmptySeq
  <2> QED BY <2>1, <2>2
<1>8. Ended'
  <2> SUFFICES ASSUME NEW d \in 1..started, hooks'[d] = << >>, egress[d] \in Finals
               PROVE  /\ \A r \in Requests : ~(pc[r] = "attaching" /\ at[r] = d)
                      /\ \A m \in Meetings : \A i \in DOMAIN recs'[m] :
                           recs'[m][i].egress = d => recs'[m][i].ended
    BY <1>1, <1>2 DEF Ended, locals
  <2>1. CASE d = e
    <3>1. Head(hooks[e]) \in EndStatuses
      BY <1>6, <2>1 DEF OneMeeting
    <3> QED BY <1>2, <1>5, <2>1, <3>1
  <2>2. CASE d # e
    BY <1>1, <1>5, <2>2 DEF Settled, Ended
  <2> QED BY <2>1, <2>2
<1>9. Stored'
  BY <1>2, <1>5 DEF Settled, Stored
<1> QED BY <1>7, <1>8, <1>9 DEF Settled

LEMMA NextSettled ==
  ASSUME OneMeeting
  PROVE  IInv /\ Settled /\ [Next]_vars => Settled'
<1> SUFFICES ASSUME IInv, Settled, [Next]_vars PROVE Settled'
  OBVIOUS
<1>1. created \in Nat
  BY Bounds DEF IInv
<1>2. CASE UNCHANGED vars
  BY <1>1, <1>2, SettledKept DEF vars, store, locals
<1>3. CASE CreateMeeting \/ \E m \in Meetings : MeetingEnds(m) \/ MeetingRevived(m)
  <2>1. UNCHANGED <<recs, server, locals>> /\ created' \in Nat /\ created <= created'
    BY <1>1, <1>3 DEF CreateMeeting, MeetingEnds, MeetingRevived
  <2> QED BY <2>1, SettledKept DEF locals
<1>4. ASSUME NEW m \in Meetings, NEW r \in Requests,
             BeginStart(r, m) \/ BeginStop(r, m) \/ BeginEnd(r, m)
      PROVE  Settled'
  <2>1. UNCHANGED <<recs, created, server, at>>
    BY <1>4 DEF BeginStart, BeginStop, BeginEnd, store
  <2>2. \A q \in Requests : pc'[q] = "attaching" => pc[q] = "attaching"
    BY <1>4 DEF BeginStart, BeginStop, BeginEnd, Goto, IInv, LocalTypes
  <2> QED BY <1>1, <2>1, <2>2, SettledKept
<1>5. ASSUME NEW r \in Requests, StartRpc(r) PROVE Settled'
  <2>1. UNCHANGED store
    BY <1>5 DEF StartRpc
  <2>2. CASE StartEgress
    BY <1>5, <2>1, <2>2, SettledStart DEF StartRpc
  <2>3. CASE UNCHANGED server /\ Return(r, "starting")
    <3>1. \A q \in Requests : pc'[q] = "attaching" => pc[q] = "attaching" /\ at'[q] = at[q]
      BY <2>3 DEF Return, Goto, IInv, LocalTypes
    <3> QED BY <1>1, <2>1, <2>3, <3>1, SettledKept DEF store
  <2> QED BY <1>5, <2>2, <2>3 DEF StartRpc
<1>6. ASSUME NEW r \in Requests, ListRpc(r) PROVE Settled'
  <2>1. \A q \in Requests : pc'[q] = "attaching" => pc[q] = "attaching" /\ at'[q] = at[q]
    BY <1>6 DEF ListRpc, Return, Goto, IInv, LocalTypes
  <2> QED BY <1>1, <1>6, <2>1, SettledKept DEF ListRpc, store
<1>7. ASSUME NEW r \in Requests, StopRpc(r) PROVE Settled'
  <2>1. UNCHANGED store
        /\ \A q \in Requests : pc'[q] = "attaching" => pc[q] = "attaching" /\ at'[q] = at[q]
    BY <1>7 DEF StopRpc, Return, Goto, IInv, LocalTypes
  <2>2. CASE UNCHANGED server
    BY <1>1, <2>1, <2>2, SettledKept DEF store
  <2>3. CASE \E e \in targets[r] : Report(e, "ENDING")
    <3>1. PICK e \in targets[r] : Report(e, "ENDING")
      BY <2>3
    <3>2. e \in 1..started /\ "ENDING" \in Statuses
      BY <1>7 DEF StopRpc, Return, Goto, IInv, Stopping, Statuses
    <3> QED BY <2>1, <3>1, <3>2, SettledReport
  <2> QED BY <1>7, <2>2, <2>3 DEF StopRpc
<1>8. ASSUME NEW e \in 1..started, EgressRuns(e) \/ EgressEnds(e) PROVE Settled'
  <2>1. UNCHANGED <<store, locals>> /\ \E status \in Statuses : Report(e, status)
    BY <1>8 DEF EgressRuns, EgressEnds, Statuses, Active
  <2> QED BY <2>1, SettledReport DEF locals
<1>9. ASSUME NEW r \in Requests, EndList(r) \/ EndWrite(r) PROVE Settled'
  <2>1. \A q \in Requests : pc'[q] = "attaching" => pc[q] = "attaching" /\ at'[q] = at[q]
    BY <1>9 DEF EndList, EndWrite, Return, Goto, IInv, LocalTypes
  <2>2. UNCHANGED <<recs, server, created>>
    BY <1>9 DEF EndList, EndWrite, store
  <2> QED BY <1>1, <2>1, <2>2, SettledKept
<1>10. ASSUME NEW r \in Requests, EndStop(r) PROVE Settled'
  <2>1. UNCHANGED <<store, pc, at>>
    BY <1>10 DEF EndStop
  <2>2. CASE UNCHANGED server
    BY <1>1, <2>1, <2>2, SettledKept DEF store
  <2>3. CASE \E e \in targets[r] : Report(e, "ENDING")
    <3>1. PICK e \in targets[r] : Report(e, "ENDING")
      BY <2>3
    <3>2. e \in 1..started /\ "ENDING" \in Statuses
      BY <1>10 DEF EndStop, IInv, Stopping, Statuses
    <3> QED BY <2>1, <3>1, <3>2, SettledReport
  <2> QED BY <1>10, <2>2, <2>3 DEF EndStop
<1> QED BY <1>2, <1>3, <1>4, <1>5, <1>6, <1>7, <1>8, <1>9, <1>10,
           SettledAttach, SettledUpdate, SettledWebhook DEF Next

\* service.go:672 and 698-706: when LiveKit names the room, no webhook overtakes
\* the reply that started its egress and the room has one meeting, every
\* recording gets its end.  The run recording_next_meeting has a second meeting.
THEOREM RecordingsEnd ==
  ASSUME OneMeeting
  PROVE  Spec => []RecordingsSettle
<1>1. IInv /\ Settled => RecordingsSettle
  BY DEF IInv, Unique, Settled, Ended, RecordingsSettle, Quiet
<1>2. Spec => []Settled
  BY InitIInv, NextSettled, Invariance, PTL DEF Spec
<1> QED BY <1>1, <1>2, Invariance, PTL
=============================================================================

# Greenpark LiveKit service: models, checks and proofs

The service (Go, `src/`) keeps meetings in memory and in one JSON file, opens and
closes rooms on a LiveKit server, hands out access tokens to employees and guests,
and follows the server's webhooks. This directory holds TLA+ models of its
stateful parts, TLC runs over small instances, and theorems checked by TLAPS for
every value of the constants.

## 1. The system

| Part | Code | State | Operations |
|---|---|---|---|
| Meeting lifecycle | `internal/service/service.go` | none of its own; the meetings of the store | create, PATCH, delete, join, start, end, delete room, dispatch an agent, ad-hoc token, webhooks |
| Persistent store | `internal/store/store.go` | meetings, the last 500 events, one JSON file, an `RWMutex` | mutations under the lock, each followed by a snapshot (write `.tmp`, rename); reads of copies; `New` |
| Guest links | `internal/service/guest.go` | token and code in the meeting; failed attempts per meeting, in memory | switch on, renew, switch off, look up, test the code, count failures |
| Egress and recordings | `internal/service/service.go` 527-602, 703-785 | `Meeting.Recordings` | start a recording or a stream, stop one or all, egress webhooks |
| WebSocket hub | `internal/transport/http/ws.go` | set of clients, a channel per client | broadcast, register, read pump, write pump, drop |
| SSO key cache | `internal/authmw/authmw.go` | a map from key id to key | look up, fetch, replace |
| Access policy | `internal/domain/model.go`, PATCH and token paths of `service.go` and `guest.go` | none of its own; what a meeting says of its host, audience and invitees | `RoleFor`, `CanManage`, `Visible`, `normalizeInvitees`, the grants of the three token paths |
| Room names | `internal/store/store.go` 364-419 | none | `SlugRoom`, `SlugRoomUnique` |
| LiveKit client | `internal/lk/client.go` | none | one wrapper per LiveKit call, webhook parsing |
| HTTP, configuration, startup | `internal/transport/http`, `internal/config`, `cmd/server` | none | decoding, routing, wiring |

How they interact. A request runs in its own goroutine: it reads a *copy* of a
meeting under the store's read lock, calls LiveKit without any lock, and writes the
meeting back under the write lock, by id or by room name. Webhooks are requests too,
and find their meeting by room name when they arrive. Every write to the store
saves all of memory. After a write the changed meeting is pushed to the hub.

What is hard: the gap between the snapshot and the write, in which the meeting may
be ended, deleted or replaced; two LiveKit operations on one room at once; calls that
take effect although they report an error; late, repeated, reordered and lost
webhooks; a save that fails after memory changed; a crash between any two of these;
matching by room name when rooms are used again; a counter tested and increased in
different critical sections; two goroutines per client that must end each other.
`PROJECT.json` lists each of them under `hazards`, at its line.

## 2. Modules

| Module | Models | Used with |
|---|---|---|
| `Lifecycle` | meetings, handlers in flight, LiveKit rooms, participants, tokens, webhooks | `MCLifecycle`, `LifecycleProofs`, `CallProofs` |
| `Registry` | what the service promises about its list of meetings | the refinement target of `Lifecycle` |
| `StoreState` | what a store holds, a mutation, what `save` keeps, what `New` reads | the next two |
| `AtomicStore` | what package store promises: every mutation is one step | the refinement target |
| `Store` | the lock, memory, the temporary file, the rename, failures, crashes | `MCStore`, `StoreProofs` |
| `GuestLink` | the guest link of one meeting and the limit on wrong codes | `MCGuestLink`, `GuestLinkProofs` |
| `Recording` | the egresses of one room and the meetings that use it in turn | `MCRecording`, `RecordingProofs` |
| `Hub` | clients, their channels and goroutines, broadcasts | `MCHub`, `HubProofs` |
| `KeyCache` | the SSO's keys, the cached copy, requests that verify a token | `MCKeyCache`, `KeyCacheProofs` |
| `AccessPolicy` | who sees, enters and manages a meeting; what a token may do and how long it lives | the next but one |
| `RoomNames` | `SlugRoom` and `SlugRoomUnique` | the next |
| `Access` | one meeting, its changes by several users, and the tokens they can get | `MCAccess`, `AccessProofs` |

### Lifecycle

`meetings` is `Store.meetings` by id (ids grow with the position in the slice),
`disk` the last snapshot renamed into place, `req` the goroutines in flight with the
locals that matter (which meeting, its room, whether the snapshot was live), `up`,
`inRoom`, `tokens` and `hooks` the LiveKit side. The remaining variables are history,
read only by properties.

A handler is up to three steps. `BeginJoin` .. `BeginCloseRoom` are the reads with
their checks, `CreateRoomRpc` and `DeleteRoomRpc` the calls (with outcomes *ok*,
*failed* and *replyLost*, the last for a call that took effect and still reports an
error), `JoinWrite` .. `CloseRoomWrite` the writes. `DeliverWebhook` is the arrival
(with the event log's save, which flushes all of memory) and `HandleWebhook` its
effect. A store operation is one step since it runs under the lock from its lookup to
its save; module `Store` shows that this is justified. `CreateMeeting` and
`PatchStatus` call LiveKit not at all, so they are one step. `DispatchAgent` is one step too: its
call leaves rooms alone, and its write sets only `AgentEnabled` and `AgentName`
(`service.go:629-633`), so what is left of it is a save of all meetings. Kick and mute write
nothing.

Of a meeting the model keeps the room, the status, whether `StartedAt` and `EndedAt`
are set, and the participant count. Who may call what is left to `Access`: here any
request may be made. A status written by PATCH is not validated (`service.go:252`), so
one status stands for all the unknown ones.

Assumed of LiveKit, from how the code uses it: `CreateRoom` of an existing room and
`DeleteRoom` of a missing one change nothing; a client with a valid token makes the
server create the room again; an agent dispatch neither opens nor closes a room; an empty room
is closed after a while; without the fault *reorder* a room's webhooks are sent one at a time in
order, with the count at the moment of the event. `IdleWaits` assumes that the empty timeout
(minutes) outlasts a request in flight (seconds). `lifecycle_end_closes` has it, so that its
counterexample is not due to an impatient server, and `lifecycle_crash`, where it makes no
difference; the other runs do without it.

`AbandonedCallEnds` has a proviso, `[]~Overtaken(room)`: no closing of the room ever comes between
the call and the write of a join or a start. It is needed, because neither write looks at the room
again (section 5). What is left is every other way of losing a room: closed by `DELETE /api/rooms`
or by the idle timeout, with people inside or none, whatever the call reported and whichever
webhooks were still on the way.

`Registry` is the same list of meetings with everything else left out: rooms and statuses in
memory (`listed`) and in the last save (`kept`). Its steps are a creation in a free room, one
status changed, one meeting removed, a save, a restart; a change and its save are one step, and
the save may fail. `Lifecycle` refines it by dropping stamps, counts, handlers and LiveKit
(`Listing`): what a handler writes late, after others have written, is still one of these steps.

### Store

A writer is `Call`, `Lock`, `Change`, `BeginWrite` (the temporary file is truncated),
`EndWrite`, `Rename`; `Refuse` is a lookup or a mutation that reports an error, and
`SaveFails` a failure of any of the four calls in `save`, after memory has changed.
Every return runs the deferred `Unlock`. `Crash` may happen at any point; what has not
been written completely to the temporary file is lost, and `New` reads the file.

The refinement mapping shows `AtomicStore` the memory that can be read: while a writer
holds the lock this is `before`, the memory at `Lock`, a variable kept for the mapping.
A mutation thus happens, for everybody else, when its call returns.

### GuestLink

One meeting is enough because the record of attempts and the link are per meeting.
`FindMeeting` is the lookup by token, `MayTry` is `bolehCobaKode`, `WrongCode` is the
comparison with `catatKodeSalah`, `RightCode` the comparison with
`lupakanPercobaanTamu`; `ChangeLink` and `ForgetTries` are the two steps of `GuestLink`.
The 15 minutes are `Cooldown` ticks. What a guest does after the right code is the join
of `Lifecycle`.

### Recording

Meetings of one room are created one after the other; they end (`MeetingEnds`) and become active
again (`MeetingRevived`) as `Lifecycle` says. `End` is `BeginEnd`, `EndList`, `EndStop` and
`EndWrite`: it stops what it finds running, ignores every error and writes nothing about the
egresses. `BeginStart`,
`StartRpc` and `Attach` are `StartRecord` and `StartStream`; `BeginStop`, `ListRpc`,
`StopRpc` and `WriteReply` are `StopEgress` with its loop; `HandleWebhook` is the egress
branch. Each egress reports its statuses in order. `AttachFirst` assumes that no webhook
overtakes the reply of the call that started its egress, `RoomFields` says whether an
egress event names its room (the code relies on it).

### Hub

`Accept` and `Register` are `serve`, `ReadFails` and `Drop` the end of `readPump`,
`Take`, `Ping`, `Written` and `Leave` the `writePump`, `BeginBroadcast`, `Send` and
`EndBroadcast` the loop of `Broadcast` under the read lock. `WriterWaits` is the rule of
`sync.RWMutex` that a waiting writer keeps new readers out; without it overlapping
broadcasts could keep a client registered for ever. Messages are counted, not looked at.

### KeyCache

`Begin`, `Lookup`, `Answered`, `FetchFails`, `Replace`, `LookAgain` and `Respond` are the
path of a request through `Verify`, `keyFor` and `fetchJWKS`; the fetch holds no lock, so
another request may replace the cache between any two of them, also with an older set.
`Rotate` is the SSO publishing another set, which may overlap with the old one or contain a
key without an id. Of a token the model keeps its key id, the key that signed it, and
whether the other checks (expiry, issuer) pass.

### AccessPolicy, RoomNames and Access

`AccessPolicy` and `RoomNames` are operators without state, each translated from the function
it is named for. `RoleFor` is split into whether there is a role (`MayEnter`) and which one.
Users and invitees are records with the fields the code compares; names stand in lower case
because the code compares them with `EqualFold`. Room names are sequences of characters,
since cutting and trimming are what the property is about; random parts are any of a set.
A lifetime is an integer that wraps at a constant width (`Wrapped`).

`Access` holds one meeting. `BeginUpdate` is a PATCH up to its permission check on a copy,
`WriteUpdate` the merge into the meeting as it is by then, so two of them overlap.
`CreateMeeting` and `DeleteMeeting` are one step each. A token is decided by the one copy its
request reads and changes no meeting field of this module, so the tokens of a state are an
operator (`Joined`, `AdHoc`, `ByGuestLink`) and no actions; the calls that follow are in
`Lifecycle`.

## 3. Runs

| Run | Instance | Shows |
|---|---|---|
| `lifecycle_safety` | 1 room, 2 meetings, 2 requests, all operations, failing calls, lossy webhooks; 3.7 M states | `StampsTellStatus`: the time stamps agree with the status in memory and on disk. `ClosedUntilReopened`: when the call is over for good, only start, PATCH, a new meeting or a deletion can open the room again |
| `lifecycle_crash` | 2 meetings, end and delete, PATCH to live or to an unknown status, failing saves, crashes; 1.0 M | acknowledged creations and deletions survive (`AckedCreateDurable`, `DeletedStaysDeleted`); a room is used again only after its meeting ended (`RoomReusedOnlyAfterEnd`); each step is one legal change of the list (`ImplementsRegistry`) |
| `lifecycle_webhooks` | 1 meeting, 3 requests, join, start and room deletion, failing calls, an impatient idle timeout, ordered webhooks sent once or twice, fairness; 0.87 M | `CountCatchesUp`: when nothing is under way, the cached count is the number of people inside. `AbandonedCallEnds`: unless a join or a start is overtaken by a closing of its room, a meeting whose room is gone does not stay live |
| `store_atomic` | 2 writers, 1 reader, 2 events, ring buffer of 1; 71 k | `ImplementsAtomicStore`, `FileIsSnapshot`, `CallsReturn`; the type invariant bounds the ring buffer |
| `guest_limiter` | 4 requests, limit 4, 2 links; 32 k | `AttemptsBounded`: at most limit + 3 wrong codes in a row. `FreshLinkUncooled`: a link that nobody has tried is not cooled by what failed on the old one. `CooldownEnds` |
| `recording_one_meeting` | 1 meeting that ends and is revived, 2 egresses, 2 requests; 1.7 M | `OneEntryPerEgress`, `StopStopsAll`, `RecordingsSettle` |
| `hub` | 2 clients, 2 broadcasters, channels of 1; 9 k | `NeverSendsOnClosed`, `BroadcastEnds`, `LostClientsGo`. `QueueDrains`: a full channel does not stay full while its client is registered, so a page is not skipped for ever |
| `key_cache` | 2 requests, 4 tokens, 4 key sets, 2 rotations; 400 k | `PublishedKeyFound`: a key that stays published is refused as unknown only while somebody sits on an older answer. `OnlyPublishedKeys`. `RefusalsEnd`: a good token is not refused for ever, as unknown or for its signature, if in the end no key without an id is cached |
| `access` | 5 users, 9 inputs, 2 PATCHes in flight, 5 texts, words of 8 bits; 410 k | `AdminTokensManage`, `SeesWhatHeEnters`, `CreatorInControl`: the policy's functions and the token paths, written apart, agree after any changes. `PatchesMerge`. `OwnNameFinds`. `TokensExpire` |

Three runs show where the code departs from what it says:

| Run | What happens |
|---|---|
| `lifecycle_end_closes` | A join between the call and the write of `End` opens the room again; when all is quiet the meeting is ended with people inside |
| `store_restart` | The token and the code of a guest link are not in the file and are lost at a restart, although the package says that the whole state is loaded from it |
| `recording_next_meeting` | Egress webhooks are matched by room name: once the meeting that recorded has ended, they reach another meeting of the room and the recording never gets its end |

**Why the bounds are enough.** Two meetings in one room are the least for reuse, for the
conflict check and for the search by room to matter, and different rooms share nothing
but the snapshot, in which their meetings are independent. Two requests give every pair
of handlers in every interleaving; the webhook run has three, so that two handlers and a
webhook meet. One or two participants tell full from empty and a count from a flag. Three
undelivered webhooks hold all that closing a room with two people inside sends; two are enough to
be lost and to overtake each other, and `lifecycle_crash`, which opens no room, needs none. A call
that finds no place for its webhooks waits in the model, or fails. A ring buffer of one is
full after one event and tells which of two it keeps. A limit of four with four requests
lets three be past the test when the limit is reached, and is the least for which requests
in flight at a rotation cannot cool the new link by themselves; `FreshLinkUncooled` needs
no more requests than the limit (section 5 says what happens otherwise). A channel of one is
full after one message. Two requests, two rotations and a set that overlaps both others give
a slow fetch that brings the old set after a newer one. The users of `access` are one of each
kind the policy tells apart (host, invited, director, other division, no username, no id);
lives of up to 300 minutes wrap a word of 8 bits three times, and room names of at most 5
characters are cut by the shortest titles. The theorems of section 4 remove the bounds for what they cover.

**Deadlock.** It is checked for `Store`, `GuestLink`, `Recording`, `Hub`, `KeyCache` and `Access`. In `Lifecycle`
the counters of the model run out (meetings, undelivered webhooks), and the model may then
stop, so it is switched off there.

**Fairness.** `Lifecycle`: goroutines in flight proceed (weak fairness of calls, which have
timeouts, and of writes), and LiveKit goes on sending a webhook until it is acknowledged; strong
fairness there only makes up for the small set of request slots, since `net/http` starts a
goroutine for each. Clients, participants, time and faults are not fair. `Store`: a writer
proceeds, and strong fairness of `Lock` is the fairness of `sync.RWMutex`. `GuestLink`: time
passes. `Hub`: goroutines proceed, and a write returns or meets its 10 second deadline, a
read its 90 second deadline; taking a message is strongly fair, because `select` chooses at random
among the ready cases and a ping is ready once in 30 seconds at most; nobody has to connect, to
publish or to go away. `KeyCache`: goroutines proceed, and a fetch
is answered or fails within the 5 seconds of its client; nobody has to send a request, and the
SSO need neither answer nor keep its keys.

## 4. Theorems

TLAPS checks the following for any values of the constants that satisfy the assumptions of
the modules (bounds are positive, model values are distinct from what they stand beside).

- `LifecycleProofs`: `TypeInvariance`, `RoomReuse`, `AckedCreate`, `AckedDelete`, `StampsAgree` and
  `RegistryRefinement` (`Spec` implements `Registry`). The
  inductive invariant is `StoreInv`: types, every id in memory and on disk was issued
  (`IdsIssued`, so that a new meeting never takes an old id), every ended meeting is
  remembered as such (`EndedRemembered`, which the conflict check rests on), and the three
  properties themselves. `RoomReusedOnlyAfterEnd` speaks of the disk as well because a crash
  makes the disk the memory. `StoreStep` sorts all actions into the few ways a step can touch
  memory and disk, and the properties are proved per way. The refinement uses `StoreInv` only
  for the ids; each write is a `SetStatus`, or a `Save` when it leaves the status alone.
- `CallProofs`: `StaysClosed` (`ClosedUntilReopened`). `CallInv` adds to `StoreInv` that a
  meeting in memory and its snapshot on disk name the same room, that a request in flight holds an
  issued id and the room of its meeting, and that nobody is inside a room that is gone. A room is `Shut` when
  every meeting of it has ended, in memory and on disk, and no request holds a live snapshot of
  it; one lemma per action shows that a step that is not a reopening keeps the call over.
- `CallProofs` also proves `CountsAgree` (`CountCatchesUp`), under the premises `OrderedCalls`
  (clients join, start and close rooms, anybody may PATCH; webhooks may come twice, but in order
  and none is lost; no crash) and `Unshared` (every meeting has a room of its own). Calls and
  saves may fail in any way. The invariant `CountInv` follows every webhook from LiveKit to the
  meeting: those not yet delivered, handled one after the other, turn the count that the meeting
  will show once the webhook under way is handled (`Shows`) into the number of people inside
  (`Tells`). Since `room_started` leaves the count as it is, it must always find 0, also after a
  room is closed with people in it and joined again. `LoneMeetingCounts` is the case of a single
  meeting, for which `Unshared` holds by itself. TLC finds a counterexample without each premise:
  `End` writes 0 and a start may then revive the meeting while people are back inside; an ad-hoc
  token fills a room before its meeting exists, and so does a token left from a deleted meeting;
  of two meetings in one room the webhooks reach only one; a crash drops a webhook that is being
  handled; a webhook that overtakes another leaves the older count. Rooms named by
  `SlugRoomUnique` are unshared, rooms named by the caller need not be.
- `StoreProofs`: `StoreTypes`, `SnapshotOnDisk` and `Refinement` (`Spec` implements
  `AtomicStore`). The inductive invariant `IInv` says who is inside the critical section
  (`LockOwned`), that memory is then `before` with the mutation or without it, and that the
  temporary file is the snapshot when it is about to be renamed (`HolderProgress`), and that
  the file is whole (`FileWhole`). One lemma per action proves both that `IInv` is kept and
  that the step is a step of `AtomicStore` or none: `Rename` and `SaveFails` are its `Update`,
  `Crash` its `Restart`, `Read` its `Read`.
- `GuestLinkProofs`: `AttemptLimit`, `LimiterTypes` and `FreshLinks`. Before the limit is
  reached the record counts every wrong code; from then on, wrong codes so far plus the
  requests still past the test stay within the bound (`Counts`), because no new request passes
  the test. `FreshLinks` rests on `Slack`: while nobody has missed the code of the
  new link, the failures on record and the requests that looked up the old link and may still
  add one are together fewer than the limit.
- `HubProofs`: `ClosedUntouched` (`NeverSendsOnClosed`). The clients a broadcast has still to serve are
  registered as long as it holds the read lock, and a registered client's channel is open.
- `RecordingProofs`: `RecordingTypes`, `OneEntry`, `StopComplete`, and `RecordingsEnd` under the
  premise `OneMeeting` (one meeting in the room, egress events name their room, no webhook
  overtakes the reply of the start, final statuses are those the code knows). Run
  `recording_next_meeting` shows that the first of them is needed.
- `KeyCacheProofs`: `CacheTypes`, `KeyFound`, `KeyPublished`. Every set in the cache or in an
  answer was published; for a request whose key stayed published and that started when nobody
  held an answer, every answer fetched since holds its key.
- `AccessProofs`: `AccessTypes`, `AdminsManage`, `ListAgrees`, `CreatorStays`, `LifeAsAsked`,
  `PatchesOnlyMerge`, `OwnNames`, for any users, inputs and word size. `ListAgrees` says that the list
  shows exactly what the caller may enter, and that managing a meeting implies entering it, except for
  a user without a username and a host invited without one (section 5). The invariant `AccessInv` is the types
  together with the creator being the host of the stored meeting and `given` naming the fields
  of each PATCH in flight. `OwnNames` says that a name which `SlugRoom` or `SlugRoomUnique` gave to a
  meeting is left alone by `SlugRoom`, for texts of any length. What the loop over the characters
  computes is shown for each number of characters read, by the least number for which it
  would fail (`FirstOf`, from the well-foundedness of the naturals): written names have no dash
  first or twice, trimming and cutting keep that, and a name without such dashes is written
  again as it is.

Only model-checked: every liveness property (`AbandonedCallEnds`, `CallsReturn`,
`CooldownEnds`, `BroadcastEnds`, `QueueDrains`, `LostClientsGo`, `RefusalsEnd`), because the prover has
neither fairness nor `ENABLED`. Every safety property of a passing run is a theorem;
`RecordingsSettle` and `CountCatchesUp` under the premises named above, which their runs satisfy.

## 5. Not modelled

- A power failure that loses a rename which was not synced; `Crash` is the death of the process.
  A graceful stop (`main.go:85-90`) waits up to 10 seconds for requests; what it cuts off is a
  `Crash` at worst.
- The memory-only store (`path == ""`) and the service without LiveKit: both only leave steps out.
- The order in which pushes reach a page, and a page that missed one: nothing promises it.
- Kick, mute and the listings: one call each, no state. The fields that agent dispatch writes.
- Token contents other than the grant, formatting, logging, HTTP decoding and the mapping of
  errors to status codes; configuration and wiring.
- `KeyCache`: a pinned key and the role gates of the package, which this service does not use.
- Deleting a meeting that has recordings.

Things met while modelling that no run is about, because the repository does not clearly
promise otherwise or because they follow from one line:

- A join or a start writes live without looking again at the status or the room (`service.go:330`,
  `482`). Let a join create the room, `End` delete it, both webhooks be handled, `End` write ended
  and the join write live: the meeting stays live without a room, and no webhook will correct it.
  The same happens with `DELETE /api/rooms` or an idle timeout in between. Dropping the proviso of
  `AbandonedCallEnds` makes TLC find it.
- The conflict check runs only at creation: start, join, PATCH and `room_started` can make an older
  meeting of a room active again after a newer one took the room (create, end, create, start the
  first). Two active meetings then share a room that `model.go:133` calls unique.
- `End` writes the count 0 (`service.go:517`) while a join may be letting people in again; if the
  meeting is then started once more, it shows 0 with people inside until the next event.
- With more than `MaxWrong` requests in flight at a rotation, wrong codes for the old link alone
  can cool the new one (`guest.go:290`).
- `CanManage` compares usernames even when both are empty (`model.go:237`), `RoleFor` does not:
  a user without a username manages a meeting with a host invited by id only, but has no role in
  it. `SeesWhatHeEnters` leaves out exactly that case (`BlankNamesMatch`).
- `model.go:140` says of the invited divisions "kosong = semua" (empty means all), but an empty
  list lets in the owning division only (`model.go:219-224`); rule 4 of the repository's README
  names the listed divisions and not the owning one.
- `service.go:390` says of others than directors "sisanya viewer saja" (viewers only); they get
  to be speakers.
- The test for an empty room name in `AdHocToken` (`service.go:376`) cannot fail: `SlugRoom`
  returns a generated name for an empty one.
- `AdHocToken` in a meeting's room ignores the lifetime that was asked for.
- `lk.ErrDisabled` is not `domain.ErrDisabled`, so handlers that get it answer 500, not 503.
- A key without an id in the fetched set is cached like a pinned one and answers for every id
  (`authmw.go:253`), so that unknown ids are not fetched any more, against `authmw.go:93-94`. If the
  SSO publishes such a key and then keys with ids, good tokens are refused for their signature as
  long as the process runs. `RefusalsEnd` has the proviso that no such key stays in the cache.
- Final egress statuses other than complete, failed and aborted (`LIMIT_REACHED`) do not count as
  an end (`service.go:772-774`), so such a recording never gets its end time.

## 6. Plan

Done: the core (`Lifecycle`) with its refinement of `Registry`, the store with its refinement, the
guest link, recordings, the hub, the key cache, the access policy with room names and tokens;
proofs of every safety property of the passing runs.

Left:

1. Composition of `Lifecycle` and `GuestLink` (a guest's join after a rotation) and of
   `Lifecycle` with `Hub` (a page that misses a push).
2. A count that survives `End`: whether `CountCatchesUp` holds for a meeting that is never started
   again after its end.
3. Deleting a meeting while its room records.

# Verification of the intercom server

TLA+ models of the intercom server in this repository: a FastAPI backend between
Asterisk, a cloud service, a parking barrier and browsers.  TLC checks the models on
small instances; TLAPS proves theorems about every component for every value of the
constants, in the eight modules whose names end in `Proofs`.

    tlc -config Calls.cfg MCCallTracking       # a run: configuration and MC module
    tlapm CloudProofs.tla                      # the proofs of a module

`PROJECT.json` lists components, runs, mutants, findings, hazards and theorems, and maps
every definition to the lines of source it models.

Contents: 1 the system, 2 what is hard about it, 3 the modules, 4 the runs, 5 fairness,
6 the proofs, 7 where the code and its comments disagree, 8 assumptions and limits,
9 the plan.

## 1. The system

The backend (`backend/app`) is one asyncio process.  Its parts run as tasks of one event
loop, so that code between two `await`s is atomic; file writes and reloads run in threads
of the default executor.

| Component | State it keeps | Operations | What makes it correct |
|---|---|---|---|
| AMI call tracking (`ami/consumer.py`, `ami/client.py`, `services/call_store.py`, webhook in `api/routes/calls.py`) | one slot with the active call; suspended handlers; the AMI session | DialBegin, Newchannel, BridgeEnter, Hangup, the webhooks of an older dialplan, loss of the session | every call that is registered ends exactly once, at the panel's hangup; it is announced once; no answer after the end; browser and cloud hear the same |
| Cloud link (`cloud/bridge.py`: `_reconnect_loop`, `_run_session`, `_send_loop`, `_recv_loop`, `_dispatch_command`; `core/runtime_token.py`) | session, backoff, bounded send queue, message in hand, bridge token in memory and on disk | connect, handshake, snapshot, send, drop of stale rings, receive, dispatch, acknowledge, rotate the token, reconnect | order kept and nothing delivered twice; a stale ring never; one answer per command, in order; never an older token |
| Cloud mirror (`emit_*_upserted`, `_cmd_*_upserted_ack`, `resync_pending`, admin API) | `cloud_synced`, `last_cloud_sync_error` of rows; upserts and acknowledgements on their way | create, edit, delete, emit, acknowledge, resync after a restart | an unacknowledged edit is marked so; a row marked as synced is at the cloud; every edit arrives |
| SSE stream (`events/bus.py`, `api/routes/events.py`, `useCallEvents.ts`) | subscribers with bounded queues; the banner of each browser | connect, greet, publish, yield, keep alive, leave | the browser ends up showing the active call; places are bounded |
| WebRTC endpoints (`sip_service.py`, `routes/sip.py`, cloud commands) | rows, `pjsip_webrtc.conf`, what Asterisk loaded, reload timer | provision, revoke, regenerate, debounced reload | file follows rows; no revoked endpoint returns; the file gets loaded |
| Apartment dialplan (`routes/apartments.py`, `routes/routing_rules.py`, cloud commands) | apartments with monitors, rules, `extensions_apartments.conf`, what Asterisk loaded | create, edit, delete, set monitors, rebuild | a call code rings exactly the monitors of its apartment |
| Parking (`anpr_service.py`, `barrier_service.py`, `plate_service.py`, cloud commands) | cameras, whitelist, listeners, recent plates, relays, access log | reconcile, recognise, pulse, log, whitelist commands | the relay is released; every pass is logged |
| Call commands (`reject_call`, `answer_call`, `re_invite_apartment`, `unlock_door`) | none of their own; channels of Asterisk | commands of the cloud | they act on the call they name, or say that they did not |
| Bootstrap (`_cmd_bootstrap_snapshot`, `_cmd_plate_upsert`, `_cmd_plate_delete`) | entrances, entrances of devices and apartments, whitelist | snapshot of the cloud's view, commands in between | the bridge ends up with what the cloud has; no reference dangles |
| Devices (`routes/devices.py`, `device_service.py`, `polling_service.py`, `connectivity_service.py`, `sip_service.apply_credentials`) | rows with password and status, `pjsip.conf`, sessions with their row locks | create, edit, delete, test, sip-apply, poll | every request ends; the status becomes that of the network; row, file and Asterisk agree on an applied password |
| Door unlocking, drivers, QR relay | none | HTTP requests to panels, one event | the door of the active call opens |
| go2rtc | one generated file | rewrite from the database | the file is that of the rows |
| Authentication, dashboard, plate queries, configuration, logging | users, settings | stateless requests | out of scope |
| Frontend (pages, data hooks, SIP client) | React state | queries | presentation, except the banner |

How they interact:

- Asterisk sends AMI events to the consumer.  It updates `CallStore`, publishes on the
  `EventBus` (to browsers) and hands events to the cloud bridge (`send_event`).
- The cloud sends commands over the same socket.  The receive loop runs them one at a
  time; they write database and files, pulse relays, talk to Asterisk, and are
  acknowledged through the send queue.
- The admin API changes the same tables, concurrently with the commands, and emits upserts
  to the cloud after its commit.
- The cloud sends its own state, entrances, placements and plates, as snapshots and commands,
  while an admin edits the same rows.
- The poll of the devices holds rows of the same table in one transaction per cycle.
- Generated files are bind mounts shared with the Asterisk container, reloaded through
  `docker exec`.
- `lifespan` in `main.py` starts it all, regenerates the endpoints' file, and schedules
  `resync_pending`.

## 2. What is hard about it

`PROJECT.json` lists each hazard with its line and the properties that watch it.  In short:

- **One slot for many calls.**  `CallStore` holds one call, panels are several.  Handlers
  read the slot, wait for the database and publish after that.
- **Lost events.**  AMI events of an outage never come; the slot outlives its call.
- **A bounded queue in front of an unreliable link.**  Messages are lost with the session,
  dropped when the queue is full, or too old when they are sent.
- **Commands cut off.**  A session that ends cancels the command that runs, with
  `CancelledError`, between any two awaits.
- **Acknowledgements without a version**, and snapshots that overwrite what was edited after
  they were taken.
- **Transactions that last.**  A poll cycle locks the rows it has probed while it probes the
  others; requests and handlers of the cloud want the same rows.
- **Commit, then write, then reload**, by several tasks at once, each step able to fail, on
  a file that is truncated before it is filled.
- **Crashes** between any two of these steps, and a start that repairs some of them only.
- **Subscription, greeting and loop** of an SSE connection as separate steps.

## 3. The modules

Ten components have a module each, and `CallBridge` composes two of them.  Their variables are named after what they stand for,
their actions after the functions they model; a function with an `await` at which others
can interfere is split there, and the place at which a task waits is a field of its record
(`task[t].at`), with the data read before it kept in the record.

**Slips.**  Beside some definitions stands a variant whose comment begins with "Slip": the
same definition with an error one could well make there (a guard forgotten, a reset left
out, two steps swapped).  No specification uses them.  Put in place of the definition, they
show that a property notices that error (`mutants` in `PROJECT.json`).

**History variables** record that something happened from which a property is exempt.
Each one is named here, as it says what is *not* promised.

### CallTracking

State: the panel's channel, dial legs and bridge of each call (`chan`, `dials`, `legs`,
`bridged`), the AMI session (`ami`), the slot (`active` = `CallStore._active`), handlers
suspended in `_lookup_caller_device` (`lookups`), and what was published to browsers (`sse`)
and the cloud (`cloud`).

Actions: what Asterisk does to a call, with the handler it triggers when the session is up.
`CallDetected` is the part of `on_dial_begin` and `on_newchannel` up to the lookup; the
publication after it is a later step, so that any other event can come between.
`OnBridgeEnter`, `OnHangup` and the webhook of a `Legacy` call are single steps.
`AMI` loss and restart of the backend: `outages`, `restarts`, and what they discard is
counted in `dropped` and `lost`.

- `RegistrationsAccounted`: each `on_call_started` is either in the slot, ended towards the
  cloud, or counted in `dropped`: overwritten, cleared by the webhook, or lost in a restart.
- `AnnouncementsAccounted`: each registration is announced to the cloud exactly once, is
  waiting for its lookup, died with the process, or is the webhook's.
- `NoAnswerAfterEnd`: the cloud does not hear that a finished call is answered.

`SinksAgree` (browsers and cloud are told the same, up to the webhook, which tells browsers
only), `EndedOnlyAfterPanelHangup` (legs hang up one by one, and the call ends with the panel
only), `AtMostOneCallEnded` and `RegisteredAgainOnlyAfterLoss` are proved (section 6) and in
no run.  `ExactlyOneCallEnded` is a comment's statement that does not hold (section 7).

### CallBridge

The composition of `CallTracking` with the link: it EXTENDS `CallTracking`, each of whose
steps hands at most one event to the bridge (`CallEvent`), and adds what the link does to
those events; what it defines anew has a name with `Bridge` (`BridgeInit`, `BridgeNext`,
`BridgeSpec`).  `BridgeSpec` implies `CallTracking`'s `Spec`, which is proved.  State: the `session` of `_run_session` up to the snapshot (`"devices"` while
`_collect_devices` waits, `"lookup"` while `_active_call_to_cloud` does, with the call in
`snap`), the `queue` with the ages of its messages (`stale`), the messages in `flight`, and the
last that the cloud `heard` of each call.

- `NoRingAfterEnd`: the cloud hears of no call that begins after its end, whatever was lost,
  became stale or was announced again by a snapshot.
- `CloudAgrees`: when all is delivered, the cloud knows the call in the slot, and believes of
  no other call that it goes on.  Exempt from the first is a `Legacy` call: its webhook tells
  browsers only, and if no event of it comes before the snapshot, the cloud hears of it later.

History: `raced` (the panel hung up while a handler or the snapshot was looking up that very
call), `endLost` (its `call_ended` was lost with a session or the process), `overflowed` (one
of its messages found the queue full); and `dropped` of `CallTracking`.

### CloudLink and LossyFifo

State: where `_run_session` is (`session`), `backoff`, the send queue, the message the send
loop has in hand (`sender`), the `wire`, what the cloud `received`, the commands in the
`inbox`, the one `running` and those `done`, and the bridge token in memory (`token`) and in
the file (`stored`).  Messages carry their number and kind, answers the command; what they say
is left out.  `expired` is the number of the youngest message older than the TTL of a ring.

`LossyFifo` is the abstract specification: a channel that accepts messages, loses some
consecutive ones at any time (`Cut`) and delivers the rest once and in order.  `CloudLink` implements it with
`pending` = wire, message in hand and queue, and `delivered` = `received` (`FifoSpec`).

- `StaleRingNeverDelivered`: a ring older than 60 s is never handed to the network.
- `QueuedIsDelivered`: what is queued arrives, unless it is a stale ring or was taken from the
  queue when the session or process ended (`lost`).
- `RepliesInOrder`: the answers come in the order of the commands, one for each at most,
  although unknown commands are refused without a handler.
- `NeverOlderToken`: attempts to connect never go back to an older token, whenever the handler
  of `update_bridge_token` fails, its session ends or the process dies.

History: `unread` (the last start could not read the token's file, and `load_persisted_token` left
it with the token of the environment; until the next token).  The environment's token is
`NoCommand`, older than every rotation.

### CloudMirror

State: rows with a `version` (how often edited), `code` and entrance (`placed`); `synced` and
`failed`; the requests (`task`), `resync_pending` (`phase`, `pending`), the handler of the
receive loop between its reads and its commit (`handler`), upserts (`up`) and what the cloud
sent (`down`) under way, and the version the cloud applied.  Requests for one row may overlap,
acknowledgements may be late, a snapshot of a new session may mark any device, and
`EditSilently` changes a row and emits nothing, as `set_apartment_monitors` and sip-apply do.

- `UnackedStaysDirty`: a row whose newest emitted upsert is not acknowledged is not `synced`.
- `SyncedMeansMirrored`: a `synced` row is at the cloud in its newest version.
- `EditReachesCloud`: the last edit of a row is eventually applied by the cloud.

History: `dropped` (an upsert was lost since the last restart, only the next start sends it
again), `orphaned` (the last edit was committed and not emitted: its request died first, it
emits nothing, or it had read the row before a snapshot placed it), `overacked` (marked by the
acknowledgement of an older version or of another row, or by a snapshot before the cloud has
it) and `misordered` (older content was queued after newer, until the cloud applied the newest
with none older behind it).  Two overlapping requests and the resync can queue newest, older,
newest: when the first is acknowledged the row is marked as synced, and the cloud applies the
older one once more before it gets the last.

### SseStream

State: `active` and the handlers still to announce a call, per connection its stage (`conn`),
queue and the `banner` of the browser, and the registered subscribers.  `Connect`, `Greet`,
`EnterLoop`, `Yield`, `KeepAlive`, `Close` are the stages of the generator of
`events.py`; `Refuse` is the answer at the limit.
`InSync`: once everything queued has been shown, the banner is the call in `CallStore`.
History: `late` (a call ended before it was announced), `missed` (a full queue dropped an
event), `idled` (the keep-alive cleared the banner of a call that goes on).
`BannerClears` then says that even those do not leave a finished call on the screen.
That there are never more subscribers than the 50 places is part of `TypeOK`.

### Endpoints

State: the rows (`db`), the `file`, what Asterisk `loaded`, the debounce `timer`, and one
record per task.  Provisioning is select / commit / write; a revocation is select / commit /
read / rewrite; the start is read / rewrite.  `SessionEnds` cancels the command of the receive
loop at any of these awaits, also after its commit.  A crash during a write leaves an empty file.
`FileFollowsRows`: with no request running, the file has the rows.
`NoResurrection`: an extension that was revoked comes back into the file only by a
provisioning request that committed before and writes after the revocation.
`FileGetsLoaded`: what stays in the file is loaded, unless a reload fails.
History: `overlapped` (two requests ran at once since the last start) and `unwritten` (the
extensions whose committed change no write of the file followed, because it failed, the session
ended first, or a regeneration found no rows; until they are written).  When a write fails after
the file was truncated, all extensions are `unwritten`.

### Dialplan

State: apartments with their monitors' rows (`db`), `rules`, `provisioned` extensions, `file`
and `loaded`, and one record per task.  A rebuild is read / truncate / fill / reload; `Torn`
is the truncated file.  All operations of the admin API and of the cloud that change
apartments, monitors or rules are actions.
`LoadedIsFile`: with no request running, Asterisk has loaded what is in the file.
`RingsMonitors`: it rings the monitors of each apartment, and no other extension.
History: `stale` (a fault cut a rebuild short), `overlapped` (requests ran at once, until a
rebuild of one alone), `written` (the file is made from apartments, from rules, or shipped).

### Parking

State: cameras, whitelist, the supervisor between reading and applying, `listening`, the
plates seen within the window, one record per task, the `relay`s, and counters of passes.
A pulse is two requests with a pause; each may raise, and the camera may refuse.
`RelayReleased`: one failing request does not leave the relay closed, even if pulses overlap.
`PassesAccounted`: each pass is logged, unless rows it refers to were deleted or the backend
restarted.  The counters `deletions`, `failed`, `refused`, `drops` and `restarts` name the
exemptions.

### CallCommands

State: the channels of each call at its ends, panel and phones (`chan`), phones that were
invited again, `contacts`, the AMI session, the slot, what may be unlocked (`unlock`), and one
record per task: the receive loop (`Cloud`) and a request of the admin API (`Operator`).  A
record keeps what its handler has read, and what the properties compare its result with: the
slot, the devices and the channels of the moment the command came (`slot`, `switched`,
`stale`), and whether an AMI action got no answer (`missed`).

Each AMI action, query or request to a panel is a step.  `Answers` and `NoAnswer` are
`send_action`: without a session, or after ten seconds, it returns `None`, and Asterisk may
have done what it was asked for.  `HangUp` of a panel takes any part of its legs along, as the
comment of `reject_call` tells of `Dial()`.  Whatever goes wrong around a handler is a
`Mishap`.  Specification, type invariant and the like are named `Commands...`.

- `RejectEndsCall`: an acknowledged `reject_call` leaves none of the channels it listed.
- `NoFalseSuccess`: a command about a call without channels is refused, and an answer is
  acknowledged only for a phone that this very call had a leg to, whatever other calls do.
- `CallersDoor`: as long as one call keeps the slot, `unlock_door` and `unlock_during_call`
  open the door of its panel, and `door_opened` names it.

### Devices

State: the committed rows (`exists`, `password`, `online`), `pjsip.conf` in the file and in
Asterisk (`file`, `loaded`), one record per request, the poll and the handler of the receive
loop with the rows they have locked, and what can be reached (`reach`).

`Steps` lists the suspensions and file accesses of each route; `Begin` reads the row, `Flush`
locks it, `Commit` stores what differs from what was read, `Emit` is `emit_device_upserted` in
a session of its own.  `FreeForRequest` and its like say whom a lock keeps waiting: `"share"`
is the lock that the foreign key of a log entry takes, `"all"` the one that a new value of the unique
`cloud_id` takes (`HandlerMode`) and that keeps it waiting.  A poll cycle is `PollLoad`, then
`PollProbe` and `PollFlush` per device, then `PollCommit`.  sip-apply runs in the event loop
without giving it up (`LoopFree`): `OpenConf` reads and truncates, `WriteConf` fills, `Reload`
asks Asterisk; `Stored` is what `_apply_to_text` makes of a password.  `ReloadHangs` is a reload over
AMI that never returns, by sip-apply or by the debounced reload of the endpoints: from then on
(`hung`) the event loop runs nothing until the backend is restarted.  Specification, type
invariant and the like are named `Devices...`.

- `RequestsEnd`: every request ends, whatever rows the poll and the handler hold, unless the
  backend hangs.
- `StatusConverges`: the poll stores in the end whether each device answers, although a deleted
  device or a deadlock throws away all that a cycle has found; a backend that hangs does so after
  its restart.
- `AppliedAgrees`: after a sip-apply that updated the device, the row, the file and Asterisk
  have the same password until the device gets another one.

History: `told` (the password that was reported as applied, forgotten when the device gets
another one or two requests re-key it at once), `half` (Asterisk loaded a file that was being
written), `wiped` (the process died while the file was being written).

### Bootstrap

State: `entrances`, `entrance_id` of every row, the `whitelist`, the handler of a snapshot
between its SELECTs and its commit, what the cloud sent (`down`), placements on their way to it
(`told`), and the cloud's own `cEntrances`, `cPlace`, `cWhitelist`.

`SnapshotReads` and `SnapshotCommits` are `_cmd_bootstrap_snapshot`: what it selects is what
was committed before, what it writes is committed at once or not at all.  `Kept`, `InKept`,
`Resolved`, `Unlinked` and `Swept` are its sweeps.  `NewSession` begins with a snapshot and
sends unanswered commands again behind it, each in its place (`Resent`).  `Move` and `Remove` are the admin's.

- `TypeOK` includes that no row and no plate refers to an entrance that is not there.
- `CloudOwnedFollows`: when the receive loop has taken all that was sent, entrances and plates
  are those of the cloud.
- `PlacementsAgree`: when nothing is on its way either way, a device is where the cloud has it.

History: `fresh` (entrances that the last snapshot added, to which it could not link anything),
`failed` (the last snapshot was rolled back, because a device it writes was deleted), `crossed`
(devices that an admin placed while a snapshot was on its way, or whose placement the cloud
never got).

## 4. The runs

| Run | Checks | Instance | States |
|---|---|---|---|
| Calls | `TypeOK`, `RegistrationsAccounted`, `AnnouncementsAccounted`, `NoAnswerAfterEnd` | two calls, one of a legacy dialplan, at the same time or not; two dial legs and one bridge each, two outages, one restart | 11.0 M |
| CallBridge | `CloudAgrees`, `NoRingAfterEnd` | two calls, one dial leg each, a queue of two, one session that ends, one restart | 6.8 M, up to symmetry |
| Link | `TypeOK`, `StaleRingNeverDelivered`, `RepliesInOrder`, `FifoSpec`, `QueuedIsDelivered`, `NeverOlderToken` | queue of two, an event or ring besides snapshots, a rotation and an unknown command, one refused or failed attempt, lost session or restart, with or without its token | 1.2 M |
| Mirror | `TypeOK`, `UnackedStaysDirty`, `SyncedMeansMirrored`, `EditReachesCloud` | an apartment and a device, two admin requests beside the resync, two edits, one loss, new session or restart | 1.0 M |
| Stream | `TypeOK`, `InSync`, `BannerClears` | two calls, two browsers, one place, queue of two | 57 k |
| Endpoints | `TypeOK`, `FileFollowsRows`, `NoResurrection`, `FileGetsLoaded` | two extensions, two passwords, one admin request beside the cloud and the start, four requests, one fault, one restart, sessions that end at any time | 1.2 M |
| Dialplan | `TypeOK`, `LoadedIsFile`, `RingsMonitors` | two codes, two extensions, one admin request beside the cloud, three requests, two faults | 3.0 M, up to symmetry |
| Parking | `TypeOK`, `RelayReleased`, `PassesAccounted` | one camera, one plate, two handlers beside one admin request and the cloud, three passes, three edits, one or two of each fault | 4.2 M |
| Commands | `CommandsTypeOK`, `RejectEndsCall`, `NoFalseSuccess`, `CallersDoor` | two calls of two panels, one phone, one command and one request at once, one mishap of any kind | 6.7 M |
| Devices | `DevicesTypeOK`, `AppliedAgrees`, `RequestsEnd`, `StatusConverges` | a panel and another device, two passwords, one of them special, two requests beside the poll, one handler, reload, reload that hangs, change of the network or restart | 0.75 M |
| Bootstrap | `TypeOK`, `CloudOwnedFollows`, `PlacementsAgree` | two entrances, one device, one apartment, one plate, three edits of the cloud, two of an admin, two new sessions or losses | 8.9 M, up to symmetry |
| CallsOverlapEnded | `ExactlyOneCallEnded` | two calls, one dial leg each | refuted (section 7) |

Why these bounds are enough to meet the interesting cases:

- The slot holds one call, so two calls already show displacement in both directions.  A
  third adds another displacement of the same kind.  Two dial legs suffice for the order
  DialBegin, Newchannel, leg hangup, panel hangup, and a restart or an outage between any
  two of them; the theorems of section 6 hold without bounds.
- A queue of two is full after two messages and can hold a ring behind or before another
  message.  With one failure the backoff is doubled once; that it stays within its cap after any
  number of them is part of what `LinkTypeCorrect` proves.
- In `CallBridge` a queue of two overflows while the session is down, and one session that ends
  meets every place between the slot and the cloud; two calls displace each other.
- Rows of the mirror are independent except for the code by which an acknowledgement finds an
  apartment; two versions distinguish old from new; two requests beside the resync are the least
  that can emit newest, older, newest.
- With one SSE place and two browsers, each can be the one that is refused; two queued
  events overflow at the third.
- Two tasks of each kind of file writer are enough to write in the wrong order; with three
  requests one can start alone after two that overlapped.
- Two plates handled at once overlap their pulses on one relay.
- Two devices are the least with which a poll cycle holds one row while it waits for another, in
  the order opposite to the handler's; two requests meet each other and both of these.
- Two entrances are enough for one to be deleted while another is added; snapshots, commands and
  placements in flight are bounded by the edits that cause them.
- Two calls and two panels show a command that meets the wrong call or opens the wrong door.
  `MaxMishaps` = 1 is one AMI action without an answer, edited device, changed contact, lost
  session or restart; calls start, displace each other and end without a bound besides.

Counters such as `MaxDials`, `MaxRequests`, `MaxFaults` bound how often the environment acts.
They appear in guards of environment actions only and never in a handler.  `MayStart` of a
request is such a guard, and in `CallCommands` `issued` (each task has one command) and
`NoAnswer`; `MaxPolls` counts polls before the deadline.  `CHECK_DEADLOCK FALSE` is in every configuration as the environment
may stop: when all calls, requests and faults are used up, nothing is left to do.  `Dialplan`,
`CallBridge` and `Bootstrap` are checked under symmetry, as they have no liveness properties.

## 5. Fairness

Weak fairness is assumed of what the event loop or a library schedules by itself, and of
nothing that a person, a network or Asterisk may or may not do:

- *CloudLink*: the reconnect loop dials again, a handshake gets an answer, the send loop and
  the network move on.  Failures are bounded, so a session comes to be eventually: delivery
  is promised only under that condition.
- *CloudMirror*: requests and the resync task run on, and the link delivers.  Nothing is
  assumed of acknowledgements.
- *SseStream*: generators run on, a lookup is answered.  Browsers may leave or not.
- *Endpoints*: tasks run on and the reload timer fires.  Sessions end or not.
- *Devices*: requests, the poll and the handler run on, as probes, statements and reloads through
  `docker exec` time out.  A reload over AMI may hang the event loop (`ReloadHangs`), after which
  none of them is enabled; that somebody restarts a backend that hangs is not assumed.
  Requests and the handler have strong fairness, as PostgreSQL grants a row to those who wait
  for it in their order while the poll comes back to it in every cycle.  Deadlocks are detected.
- *CallTracking*, *CallBridge*, *Dialplan*, *Parking*, *CallCommands*, *Bootstrap*: none, as only
  safety is checked.

## 6. The proofs

The proofs about a component hold for any value of its constants under the one assumption that
its module states (`CloudLinkAssumption` and so on).  `CallBridgeProofs` has those about
`CallTracking` and `CallBridge`, `CloudProofs` those about `CloudLink` and `CallCommands`,
`DeviceProofs` those about `Parking` and `Devices`; in the last two the components share neither
constants nor variables.  The others are named after their component.  What the assumptions ask for beyond natural numbers
as bounds and tasks that differ from each other is the code's: commands of the cloud are numbered
in the order in which it sends them and none has the number `NoCommand` of no command
(`CloudLink`), handlers of recognised plates are finitely many (`Parking`, which counts them),
there is a call code (`CloudMirror`) and a password (`Devices`), and `None`, `NoRow`, `NoValue`, `Torn` are no row, no device and no content.

| Module | Theorem | States |
|---|---|---|
| CallTracking | `TypeCorrect` | `Spec => []TypeOK` |
| | `RegistrationsAlwaysAccounted` | `[]RegistrationsAccounted`: no call that was registered goes missing |
| | `AnnouncementsAlwaysAccounted` | `[]AnnouncementsAccounted`: each registration has one announcement, pending or made, or died with the process |
| | `SinksAlwaysAgree` | `[]SinksAgree` |
| | `AtMostOneEnd` | at most one `call_ended` reaches the cloud per registration |
| | `EndedAfterHangup` | `[]EndedOnlyAfterPanelHangup` |
| | `NeverAnsweredAfterEnd` | `NoAnswerAfterEnd` |
| | `RegisteredAgain` | a call is registered a second time only after its slot was overwritten or lost |
| CallBridge | `BridgeImplementsTracking` | `BridgeSpec => Spec`: seen from the backend the composition is `CallTracking`, so that the theorems above hold of it |
| | `NeverRingsAfterEnd` | `NoRingAfterEnd`: no call rings at the cloud after its end |
| | `CloudAlwaysAgrees` | `[]CloudAgrees`: when all is delivered, the cloud knows the call in the slot and no other |
| CloudLink | `LinkTypeCorrect` | `[]TypeOK` |
| | `LinkImplementsFifo` | `FifoSpec`: the link is a `LossyFifo` |
| | `RepliesAlwaysInOrder` | `[]RepliesInOrder`: one answer per command at most, in the order of the commands |
| | `StaleRingsNeverDelivered` | `[]StaleRingNeverDelivered` |
| | `TokenNeverOlder` | `NeverOlderToken` |
| CloudMirror | `MirrorTypeCorrect` | `[]TypeOK` |
| | `UnackedAlwaysDirty` | `[]UnackedStaysDirty`: what is not acknowledged will be sent again by a restart |
| | `SyncedAlwaysMirrored` | `[]SyncedMeansMirrored`: a row marked as synced is at the cloud |
| SseStream | `StreamTypeCorrect` | `[]TypeOK`, with the cap on subscribers |
| | `BannersInSync` | `[]InSync` |
| Endpoints | `EndpointsTypeCorrect` | `[]TypeOK` |
| | `NeverResurrected` | `NoResurrection` |
| | `FileAlwaysFollowsRows` | `[]FileFollowsRows` |
| Dialplan | `DialplanTypeCorrect` | `[]TypeOK` |
| | `LoadedAlwaysFile` | `[]LoadedIsFile` |
| | `AlwaysRingsMonitors` | `[]RingsMonitors` |
| Parking | `ParkingTypeCorrect` | `[]TypeOK` |
| | `RelayAlwaysReleased` | `[]RelayReleased` |
| | `PassesAlwaysAccounted` | `[]PassesAccounted` |
| CallCommands | `CommandsTypeCorrect` | `[]CommandsTypeOK` |
| | `RejectsForGood` | `[]RejectEndsCall`: an acknowledged reject leaves no leg that it listed |
| | `AcknowledgesWhatWasDone` | `[]NoFalseSuccess` |
| | `OpensCallersDoor` | `[]CallersDoor`: the door of the call that keeps the slot |
| Devices | `DevicesTypeCorrect` | `[]DevicesTypeOK` |
| | `AppliedEverywhere` | `[]AppliedAgrees`: an applied password is the same in the row, the file and Asterisk |
| Bootstrap | `ReferencesHold` | `[]TypeOK`, that is, no dangling reference |
| | `CloudOwnedAlwaysFollows` | `[]CloudOwnedFollows` |
| | `PlacementsAlwaysAgree` | `[]PlacementsAgree` |

Every proof has the same plan.  Lemmas say what an operator or an action does to the state that
the invariant speaks of; a lemma `...Step` proves that a step preserves one conjunct, given the
others; the theorem combines them.  Most properties speak of moments at which nothing runs, and
say nothing of the steps between: the inductive invariants below do.

### CallTracking (`CallBridgeProofs`)

1. *Types.*  `TypeOK` is inductive.  Each handler has its lemma (`PublishType`,
   `OnCallStartedType`, `CallDetectedType`), and `DeliverCases` says what delivery of an
   event comes to: the handler's effect, or no effect while the session is down.
2. *Effects.*  `StepEffect` reduces the many disjuncts of `Next` to the few ways in which a
   step changes slot, registrations and published events (`DetectedEffect` does so for the
   two detection paths).  What follows argues over these effects and not over actions.
3. *Registrations.*  `RegistrationsAccounted` is a balance: for each call, registrations
   equal the `call_ended` to the cloud plus the dropped ones plus one if the call holds the
   slot.  With `TypeOK` it is inductive (`RegistrationsStep`): `on_call_started` moves the
   previous holder to dropped and adds one for the new, `on_hangup` moves the holder to
   ended.  `AtMostOneEnd` and `RegisteredAgain` follow from the balance.
4. *Announcements.*  `AnnouncementsAccounted` and `SinksAgree` are balances too, each
   inductive with `TypeOK` alone; the webhook has a term of its own (`Hooked`), as it
   registers calls and tells browsers only.
5. *Ends.*  `EndedOnlyAfterPanelHangup` needs that a panel's channel, once gone, stays gone
   (`GoneStays`) and that a step which publishes `call_ended` is the originating channel's
   Hangup (`EndedStep`).
6. *Answers.*  `NoAnswerAfterEnd` is an action property: a step that publishes
   `call_answered` finds the call in the slot.  It follows from `StepEffect` under `TypeOK`.

### CallBridge (`CallBridgeProofs`)

`BridgeImplementsTracking` needs no refinement mapping: the variables of `CallTracking` are its
own, and each step of the bridge is a step of the consumer or leaves it alone.  With it, the
invariants of `CallTracking` (`TrackingInv`) are at hand for the other two.

- `NoRingAfterEnd` speaks of what the cloud heard; the order comes about earlier.  `OrderInv` says
  for each call which is not `raced`: once its `call_ended` has been published, no handler and no
  snapshot is looking the call up (`NobodyLooksItUp`), and its `ended` is its last message in the
  queue, in flight, and behind what the cloud has heard (`EndComesLast`).  It is inductive because
  `call_ended` is published at the panel's hangup, after which the slot never holds the call again
  (`EndedInv`).
- `CloudAgrees` needs `AnnouncedInv`, on what is under way.  `SlotAnnounced`: the cloud has heard
  of the call in the slot, or it will from a message that is not stale, a handler still
  looking it up, or a snapshot to come.  `EndAnnounced`: the end of a call that was not lost was
  heard or is on its way.  `OnlyRegistered`: nothing speaks of a call that was never in the slot.
  At rest nothing is under way, and the balance of `RegistrationsAccounted` tells which of the
  registered calls can still go on.

### CloudLink (`CloudProofs`)

`IdsInv`: the numbers of the messages increase along what was received, the wire, the message in
hand and the queue, put behind each other (`History`); none has a number not given yet.
Everything else rests on it.  A step appends one message with a new number (`EnqueueEffect`),
moves the boundary between received and outgoing (`ReceiveEffect`), or takes a run of
consecutive messages out: one on its way, one dropped from the full queue, all of them at a
restart.  That is what a `LossyFifo` may do, so `FifoStep` maps each of these to a step of it or
a stutter (`LinkImplementsFifo`).

- *Answers.*  `RepliesInOrder` is about what was received only.  `CommandInv` orders the commands
  that wait, and `ReplyInv` says of all answers anywhere that later ones are to later commands, and
  that nothing which waits was sent before a command that has an answer.  An unknown command is
  refused without a handler, but by the same loop, which takes the next one from the inbox only
  when none is running.
- *Stale rings.*  `DoomedInv`: a ring that became too old in the queue is in no place behind it.
- *Token.*  `StoredInv`: each rotation that waits is newer than the token in the file.  `TokenInv`:
  the token in memory is the one in the file, unless the file could not be read at the last start.

### CallCommands (`CloudProofs`)

What a handler has read may change while it waits.  The proof rests on what cannot change back:
`Forward` says that a channel which has gone stays so, that a call without a channel whose panel has
hung up (`Dead`) gets none any more, that a call comes into the slot only as its panel begins to
call, and that an edit of a device is counted in `switched`.  `CommandsInv` says of the record of
each task (`CommandOK`):

- `Placed`: its place belongs to its kind of command, with the arguments needed there.
- `NotStale`: a call that was dead when the command came is dead, and no handler gets past its
  look at the channels for it.
- `HungUp`: what was listed and is not left to be hung up has gone; this turns a loop over a stale
  list into `RejectEndsCall`.
- `Reached`: a phone for which an answer was acknowledged has had a leg of this call.
- `OpensOwn`: while the slot and the panel are those of the moment the command came (`Steady`),
  the task never gets to the fallback, and the door it picked is that of the call's panel.

### CloudMirrorProofs

- `Versions`: nothing that the link, the cloud or an acknowledgement has of a row is newer than
  the row, or than what was sent of a row that exists.
- `Unmarked`, for `UnackedStaysDirty`: a version not acknowledged leaves its row unmarked, and so
  does one that a request has marked as dirty and is about to send (`Fresh`).  It is the order
  "mark, then send" of the emitters that makes it inductive.
- `SyncedMeansMirrored` compares the mark of the bridge with the cloud's copy; each hears of the
  other through a queue.  `Unsent`: a marked row whose newest version was not sent has a request that will
  remove the mark (`Clearing`).  `Ordered`: what waits in the queue follows the newest version
  (`Orderly`), and the newest is acknowledged only while the cloud has it (`Attested`).
  `Mirrored`: a marked row is at the cloud, or excused.  `Ordered` fails for `misordered` rows,
  which is why the property exempts them.

### SseStreamProofs

`InSync` speaks of browsers whose queue is empty.  `Follows` says of every other one what its
banner will be when the queue has been shown (`Prospect`): the call of the slot, for each
connection that was greeted or has something in its queue.  It needs `SubsInv` (an open
connection is registered) and `OneLookup` (a lookup that runs is for the call in the slot, unless
the call ended first).  The cap of the subscribers needs that their set is finite.

### EndpointsProofs

- `NeverResurrected` needs `RewriteInv`: nothing runs beside the start (`StartsAlone`), and rows
  that were read to be written to the file are committed (`RowsCommitted`).
- `FileFollowsRows` needs `FollowInv`: unless requests overlapped, at most one task runs, and
  `Pending` says for each place of that task which extensions are in the file as in the table, but
  for the one it serves and those that are `unwritten`.

### DialplanProofs

- `LoadedIsFile` needs `FollowsFile`: what is loaded is the file, or a task will reload it.  It is
  inductive without any order among the tasks.
- `RingsMonitors` needs `InTurn`.  `OneTask`: unless requests overlapped, there is one at most;
  `UpToDate`: such a task writes what the rows say; `Steady`: before it edits them, the file fits
  them.  A rebuild that starts alone after an overlap establishes it again.

### Parking (`DeviceProofs`)

- `RelayInv`: with few faults, a closed relay has a task that will open it (`Releases`), and a
  second attempt means that a request failed.
- `RowsInv`: as long as nothing was deleted, what a handler read is still in the tables, so that
  its log entry meets no missing row.  `Balance` counts handlers, for any finite number of them.

### Devices (`DeviceProofs`)

`AppliedAgrees` speaks of moments at which nobody is inside `_apply_local`.  Between them, the file
is truncated, and the account that other devices have is only in the memory of the request that
is going to write it back.  `InText` therefore says where the password of a device is: in the file,
or in the text about to be written.  `ToldAgrees` states the property with it, at all times;
`ApplyProgress` says what a sip-apply has achieved at each of its steps.  Both are excused while
`wiped`.  They need that one request at a time is between the truncation and the reload
(`OneWriter`), that a request which counts as `alone` is the only one which edits the password of
its device, so that the row still holds what it has read and the commit makes it the new password
(`AloneEdits`), and that nobody asks for a device before its row is committed (`NewAlone`).

### BootstrapProofs

The type invariant contains the foreign keys, and is inductive because a snapshot writes what it
has selected or nothing.  For the other two, `Followed` says what the messages under way mean:
`PlatesSaid`, the last word on a plate among them is what the cloud has of it, also when older
commands are sent again behind a newer snapshot; `LatestCurrent`, the newest snapshot is
the cloud's view; `PlacedStands` and `ToldStands`, a placement under way is the latest and
has met no snapshot; `Rested`, what holds when no snapshot is under way.

### What is only model-checked

- Liveness, as TLAPS does not reason about fairness and `ENABLED` here: `QueuedIsDelivered`,
  `EditReachesCloud`, `BannerClears`, `FileGetsLoaded`, `RequestsEnd`, `StatusConverges`.

Every invariant and every action property that a passing run checks is a theorem.  The inductive
invariants were checked by TLC as well, on instances like those of section 4, before they were
proved.

## 7. Where the code and its comments disagree

One statement of a comment is checked as it stands and refuted by TLC:

- **CallsOverlapEnded**: "exactly one call_ended per call group" (`consumer.py:204-205`).
  With two panels calling, the second call takes the slot and the first never ends.

`findings` in `PROJECT.json` quotes it, and the disagreements that the passing runs meet
and exempt: acknowledgements of an older upsert that mark a newer one, a relay that stays closed
when a pulse is cancelled between its requests, calls announced again after a displacement, phantom rings from a slot left over by
an outage, `call_started` published after `call_ended`, keep-alives that hide a ringing call,
places of subscribers that are never freed, devices marked as synced by a snapshot, the last
endpoint that cannot be revoked from the file, rules that erase apartments from the dialplan,
a re-invitation without an answer that counts as established, a backoff that a refused handshake
resets, a snapshot that announces a call which ends while it looks it up, an empty slot of which
the cloud is not told, passwords that are written with backslashes, entrances that the snapshot
which adds them does not find, an admin's move that an older snapshot undoes, an older token after a start that cannot read the
file of the newer one, a reload over AMI that hangs the backend, a revocation that the end of the
session cuts off before the file is rewritten, and others.  Each exemption is written into the property or a history variable, so that the
property still says something about everything else.

## 8. Assumptions and limits

About the environment:

- Calls are single-panel call groups without attended transfer: the channel whose `Uniqueid`
  is the `Linkedid` is the panel's.  The `DialEnd` and `UserEvent` handlers change no tracked
  state and are not actions.
- panoramisk delivers AMI events in order and each at most once; what is raised while it is
  disconnected is gone.
- The cloud executes upserts in the order of arrival and answers each at most once.
- Postgres runs in its default READ COMMITTED: a statement sees what was committed before it.
- `docker-compose.yml` mounts the generated files one by one; `os.replace` fails on them and
  the code's fallback truncates and writes.
- Threads of the executor run on when the task that waits for them is cancelled.
- When two threads write the same truncated file, the last one wins.  Mixed contents of a
  file are not modelled.
- In `Dialplan` call codes are unique.  The schema does not demand it; with two apartments of one
  code the generated dialplan has two entries for it.
- The database is PostgreSQL with its foreign keys and row locks, as in `docker-compose.yml`.  In
  `Bootstrap` the ids of entrances are not used again by the cloud, and it has each plate once as
  the bridge normalises them.
- In `CloudLink` the cloud sends each command once.  `Bootstrap` has it send unanswered ones again, as
  the code expects of it (`bridge.py:1065`).
- In `Endpoints` a reload that never returns is one that fails and after which nothing happens;
  `Devices` has it as an action.  The reload of the dialplan goes through `docker exec`, with a
  timeout.
- In `Parking` a panel obeys the requests of a pulse in the order in which they are made, or refuses
  them: one that it obeys after the request has timed out is not modelled.
- In `CallBridge` a message gets older than 60 s only while no session is up: pings end one that
  does not move.
- In `CallCommands` each call comes from the panel of one door station, a phone is dialled once
  per call, and a phone that answers a re-invitation is not followed further.

Simplifications:

- Payloads, names and texts are dropped; a dialplan is the set of extensions that each code
  rings, a configuration file one block per extension.
- Time is dropped: a ring is stale when the step `TimePasses` says so, a window or a debounce
  is over when its step happens.  Delays of the backoff are nominal, without jitter.
- `SseStream` publishes `call_started` and `call_ended` only; the browser ignores the rest.
- `/events/stream` is served by `events.py`.  The same route in `calls.py:90-139` is shadowed
  by it and has the same stages.
- In `CallCommands` an AMI action and its answer are one step, as are reading the slot and the
  query for its panel.  Which device a fallback finds first is left open.
- In `Devices` the two kinds of probe are one step, and `last_seen` is left out but for the lock
  that writing it takes.  sip-apply over SSH is not modelled.
- In `Bootstrap` the links of plates to apartments and the names a snapshot copies are left out.
- Matching a plate and reading its camera are one step, as nothing in between can be told
  from a change before or after both.

Not modelled, and why: see `components` in `PROJECT.json`.  go2rtc's file is rewritten as a whole
and nothing depends on it; the browser's SIP client is a thin layer over callbacks of JsSIP.  The
drivers, authentication, dashboards and pages keep no state of their own that several steps could
disagree on.

## 9. The plan

The modules are written: `CallTracking`, `CloudLink` refining `LossyFifo`, `CloudMirror`,
`SseStream`, `Endpoints`, `Dialplan`, `Parking`, `Bootstrap`, `CallBridge`, `CallCommands` and
`Devices`, each with the proofs about it.  What is left of the system is small: plates as functions
(the parser of the event stream and the normalisation, checked against a reference definition),
block editing of `pjsip.conf` as text, and the rewriting of `go2rtc.yaml` by overlapping requests.

Abstract specifications worth stating: `LossyFifo` (done); a register that the mirror
eventually copies, implemented by `CloudMirror`; a file that follows its rows, implemented by
`Endpoints` and `Dialplan`.

Theorems worth proving next: `Endpoints` and `Dialplan` as implementations of one abstract file
that follows its rows, and the composition of `CloudLink` with `CallBridge`, whose queue is now a
smaller copy of the link's.

# A formal model of eufy-security-client

This directory holds TLA+ modules of the parts of eufy-security-client whose correctness depends
on the order in which datagrams, timers, promises and calls happen, the TLC configurations that
check them on small instances, and proofs of the main results for every instance. Each definition
that models code is tied to the lines it stands for in `PROJECT.json` ("map"). Paths below are
relative to the repository's `src/`; `session.ts` is `src/p2p/session.ts`, `station.ts` is
`src/http/station.ts`.

Contents: [1 The system](#1-the-system) - [2 Plan](#2-plan) - [3 Modules and code](#3-modules-and-code)
- [4 Runs](#4-runs) - [5 Fairness](#5-fairness) - [6 What breaks under which fault](#6-what-breaks-under-which-fault)
- [7 Disagreements with comments](#7-disagreements-with-the-codes-own-comments) - [8 Proofs](#8-proofs) - [9 Not modelled](#9-not-modelled)

## 1 The system

The library talks to eufy's cloud over HTTPS, receives push notifications (FCM) and MQTT messages,
and reaches each station (a hub or a stand-alone device) over a UDP peer-to-peer protocol; T9000
hubs are reached over WebRTC. Everything runs on one JavaScript thread: a handler runs to its end or
to an `await`, so the interleaving is that of handlers, timers and continuations.

| component | state | operations | what is hard |
|---|---|---|---|
| **P2P session, command path** `session.ts` 812-1431, 1435-1775, 1989-2460 | `sendQueue`, `messageStates`, a timer per message, `seqNumber`, `p2pDataSeqNumber`, `p2pSeqMapping`, `encryption`/`p2pKey`, `customDataStaging`, `secondaryCommandTimeout` | send a command, drain the queue, resend, acknowledge, match a result or a second result, time out, `GATEWAYINFO` handshake, close | every handler ends in `sendQueuedMessage`; a path that forgets it strands the queue; results carry the station's numbering |
| **P2P session, receiving** `session.ts` 334-360, 1777-1893, 4715-4776 | `expectedSeqNo` and `queuedData` for each data type | take, queue or skip a datagram; work off the queue; end of a stream | lost, repeated, reordered datagrams around the restart of a 16 bit counter |
| **P2P session, connection** `session.ts` 361-803, 1436-1679, 4565-4640 | lookup, connect and heartbeat timers, socket, `connected`, `connecting`, `terminating` | look up (local, cloud, TURN), connect, heartbeat, end, close | timers of an attempt that outlive it; an `await` before the lookup |
| **P2P session, media streams** `session.ts` 2507-2845, 4136-4776, `talkback.ts` | one record for each data type: streaming, channel, timers | start, stop and time out livestream, download, talkback, RTSP | state set after an `await`; `endStream` replaces the record that holds the timers |
| **P2P session, assembly** `session.ts` 1989-2152 | header and body of the message being assembled | put messages together from datagrams | lengths that end between two datagrams |
| **RTC transport** `src/rtc/stationRtcTransport.ts` | one session, `connected`, `connecting`, `handoffInProgress` | connect, hand over to a second session, close | both sessions live during a handoff; several attempts may overlap |
| **Station, WebRTC** `station.ts` 1148-1313, 1991-2021, 2657-2854 | `rtcTransport`, reconnect timer, proactive timer, `terminating` | connect, reconnect with back-off, refresh before the hub falls silent, probe, close | ten paths into `scheduleRtcReconnect`, flags that outlive `close` |
| **Station, P2P and commands** `station.ts` | reconnect timer and delay, polling timers, properties | reconnect; about 200 commands that validate and dispatch | reconnection, waiting for a device's answer before a property is updated |
| **RTC session, peer, bridge** `src/rtc/` | signaling socket, peer connection, pending commands by 8 bit segment number | negotiate, frame, match answers | number reuse, ICE ordering |
| **Devices, properties** `src/http/device.ts` | raw and typed properties, event timers | update, push message, reset of an event | a timer that resets the state a newer event set |
| **Orchestration** `src/eufysecurity.ts` | stations, devices, refresh and livestream timers | connect, refresh, add and remove, livestream limit, close | refresh under way while closing |
| **HTTP API** `src/http/api.ts`, `megaApi.ts` | token, its renewal timer, throttle | login, renew, invalidate on 401 | two requests that are refused one after the other |
| **Push** `src/push/` | FCM registration, MTalk socket, heartbeat, persistent ids, parser | open, renew, reconnect, parse | close or reopen during an `await` |
| **MQTT** `src/mqtt/service.ts` | client, lock subscriptions | connect, subscribe, close | subscriptions consumed by the first connection |

How they interact: `EufySecurity` owns the API, push and MQTT services, and one `Station` per
station; it calls `Station.connect` again on every cloud refresh for a station that is not
connected. A `Station` owns one `P2PClientProtocol` and, for a T9000, one `StationRtcTransport`,
and hears of them by events (`connect`, `close`, `timeout`; `connected`, `close`, `error`). Commands
go to the session, which sends them over P2P or, while a WebRTC transport is set
(`setRtcCommandTransport`), over that.

What makes each correct, in a sentence:

- *command path*: a command is executed in order, at most once unless the station refused it, and
  the application hears of it once, of its own answer, and always in the end;
- *receiving*: every message once, in order, none skipped but by the end of a stream;
- *connection*: one attempt at a time, none begun after `close`, a lost connection is noticed and tried again;
- *streams*: a running stream is watched by a timer, who was told of its start is told of its end,
  and a battery device's connection is not closed under it;
- *settings*: what the library shows at rest is what the device is set to, every setting that is
  declared writeable is sent, and no two share a command (with exceptions, which are listed by model and hub);
- *WebRTC*: what calls itself connected is connected, there is one open session per hub, a failure
  always leads to another attempt, and the next refresh is always planned;
- *API, push, MQTT*: what is shown of the connection to the cloud is true, the data are refreshed
  while it lasts, one push client is listened to as long as push is wanted, no lock is forgotten.

`PROJECT.json` lists 40 hazards, each at its line, with the properties that would notice it, or why
none does.

## 2 Plan

The order is that of what an application depends on first.

1. `P2PCommands`, with `MCP2PCommands`; `P2PCommandsProofs`, `P2PCommandsResultProofs`.
2. `FifoStream` (abstract), `P2PReceive` (implements it); `P2PReceiveProofs`.
3. `RtcStation`: `Station` and `StationRtcTransport` together, with sessions as their environment;
   `RtcStationProofs`.
4. `P2PConnection`: lookup, connect and heartbeat timers of a session with the reconnection of its
   `Station`; `P2PConnectionProofs`. It is a module beside `P2PCommands`, not a refinement of its
   `Connect`, `Establish` and `Disconnect`: it shows that `CAM_ID` can connect a session that
   attempts nothing (a `lookup2Retry` timer survives `_disconnected`), so `P2PCommands` has the
   fault `stray_lookup` for that, and its run `commands` includes it.
5. The settings: `DeviceKinds`, `SettingTables`, `CameraSettings`, `DeviceProperties` (tables),
   `SettingCommands` and nine `...Setters` modules (what each setter of `station.ts` sends),
   `SettingPlans` (the dispatch of `eufysecurity.ts`), `Settings` (the machine), `SettingContract`
   (abstract; `Settings` implements it), `MCSettings`, `SettingsProofs`.
6. `P2PStreams`, with `MCP2PStreams`: livestream and download of a session; `P2PStreamsProofs`.
7. `PushService`, `MqttService` and `CloudSession`, which composes them with the HTTP API and
   `EufySecurity`; `MCCloudSession`, `CloudSessionProofs`.

What is left, in this order:

8. `P2PAssembly`: the messages `parseDataMessage` delivers, against a reference definition on all
   cuttings of a short stream.
9. `RtcPending`: pending commands of the RTC bridge by 8 bit segment number.
10. `DeviceEvents`: the timers that reset a device's event states, against newer events.
11. `Inventory`: `handleHubs`, `handleDevices` and `getDevice`, which load stations and devices while
    others wait for them.
12. `PushParser`: the incremental parser on all cuttings of a short stream.

Of the safety properties the runs check all are proved (section 8) but two about the tables of
devices, which are evaluated for every kind of device; the proofs about settings assume a static
condition on these tables, which is evaluated for every kind of device too. The modules that are left call for
theorems of their own: that an answer of the bridge settles the command it is about, and that a newer
event is not reset by an older one's timer (that every cutting of a stream is delivered alike is
recursion over data, and for TLC).

## 3 Modules and code

### P2PCommands

The session is one record, `session`, with the fields of the object; every method the handlers share
is an operator from session to session, and an action is the composition its handler makes. So an
action models a whole handler, the trailing `sendQueuedMessage` included.

| action | code |
|---|---|
| `IssueCommand` | `sendCommand`, called by `sendCommandWith...` |
| `Connect` | `connect`, called by the application or `Station` |
| `Establish` | the `CAM_ID` handler: connected, handshake before anything queued |
| `Disconnect` | `_disconnected`, from a failed lookup, `END`, a lost heartbeat or the energy saving timer |
| `Close`, `CloseEnd` | `close` before and after its `await` |
| `StationTakes` | external: the station takes a message, executes or refuses it, answers |
| `HandleAck` | the `ACK` handler |
| `HandleData` | `handleData` on the DATA stream: number to message, retry, result |
| `HandleGatewayInfo`, `CipherAnswers` | the `GATEWAYINFO` answer and the continuation of `getCipher` |
| `HandleSecondResult` | a notification that is the second result of a lock or safe command |
| `AckTimeout`, `ResultTimeout`, `SecondaryTimeout` | the timers set by `_sendCommand`, `ACK`, `handleData` |
| `Age` | time: what waits now is older than `MAX_COMMAND_QUEUE_TIMEOUT` |

A message is a model value with its bookkeeping (`sequence`, `retries`, `acknowledged`, whether a
return code `ERROR_FAILED_TO_REQUEST` is stored, which timer runs); payloads are left out.
`SendCommandFromQueue` and `SendCommandAgain` are the two ways through `_sendCommand`.
`sent` holds the datagrams of a connection and only grows: the station may take any of them at any
time, which stands for loss, delay and repetition. `AckTimeout` fires in two cases. The acknowledgement
was late (fault `slow_ack`); or the message was refused and sent again: it keeps `acknowledged`, so the
acknowledgement of the second transmission stops no timer (session.ts:1702) and only a result within
`MAX_AKNOWLEDGE_TIMEOUT` of 5 seconds does (fault `slow_retry`). The second needs no fault of the network.

### FifoStream and P2PReceive

`FifoStream` is what one data stream promises: a handler parses some messages that come next. A
message is a position: lap of the counter and number in it. `P2PReceive` is the DATA branch of
`handleMsg` over numbers alone, with the helper functions `_incrementSequence`, `_isBetween`,
`_wasSequenceNumberAlreadyProcessed` under their own names and the real boundary as a CONSTANT, and
the effect of `endStream`; `cursor`, `sent` and `parsed` are history by which `FifoSpec` is stated.
`ReceiveExpected`, `ReceiveEarly` and `ReceiveAgain` are the three branches.

### RtcStation

One record `hub` holds the station's fields, its transports and the sessions they made. `connect`
and `handoffConnect` are async, so what follows an `await` is another action: `Authenticated` and
`Rejected` settle a session's `connect()`, `ChannelOpens`, `SessionError` and `SessionDown` are its
events, and each calls what the listeners call (`OnRtcConnect`, `OnRtcDisconnect`, `ConnectFailed`,
`HandoffSucceeds`, `HandoffFails`). `ConnectTimer`, `HandoffTimer`, `ReconnectTimer`, `Woken` (the
continuation of waking the hub), `PollWatchdog`, `RefreshTimer`, `ProbeTimer` and `BackoffTimer`
are the timers. A transport counts the `waitConnected` calls that still wait (`waiters`), as several
attempts of one transport can overlap. Delays are left out; a timer may fire whenever it runs.

### P2PConnection

`session` holds the fields of `P2PClientProtocol` that an attempt and a connection are made of, and
`station` those of `Station`. A JavaScript timer goes on when the handle that names it is
overwritten or dropped, so `session.timers` are those a handle is kept of and `session.orphans`
counts the others: only what has a handle can be stopped. `asked` holds the requests that can still
be answered. Methods that reach from the session to its station by an event (`_disconnected` emits
`close` or `timeout`, which `onDisconnect` and `onTimeout` answer) are operators on both.

| action | code |
|---|---|
| `Connect` | `Station.connect`, `P2PClientProtocol.connect` up to its `await` of `renewDSKKey` |
| `Renewed` | `connect` after it: `lookup` |
| `Close`, `CloseEnd` | `Station.close`; `P2PClientProtocol.close` before and after its `await` |
| `HandleLocalLookupResp`, `HandleLookupAddr`, `HandleLookupAddr2` | those messages, with `_connect` and the connect timer |
| `HandleCamId` | `CAM_ID` with `scheduleHeartbeat` and `Station.onConnect` |
| `HandleEnd` | `END` with `onClose` of the socket |
| `LookupTimer`, `LookupRetryTimer`, `Lookup2Timer`, `Lookup2RetryTimer`, `ConnectTimer` | the timers of `lookup`, `cloudLookup`, `cloudLookup2`, `_startConnectTimeout` |
| `HeartbeatTimer` | `scheduleHeartbeat` with `sendPing` |
| `EnergySavingTimer` | `closeEnergySavingDevice` |
| `ReconnectTimer` | the timer of `Station.scheduleReconnect` |
| `Lose`, `FallSilent` | external: a request or answer is lost; the station stops answering |

`station.wanted` is history: the application asked for the station and has not closed it since.
`Close` may come at any time. It leaves `asked` and the socket alone, as the code does, so an answer
that was on its way still connects the session, and takes `terminating` back.

### The settings

A setting is a property an application may write: brightness, a detection type, the guard mode.
`setDeviceProperty` (eufysecurity.ts:2219) dispatches its name to one of some 140 setters of
`station.ts`, each of which looks at the kind of device again, builds a command out of the value and
of other settings, as shown or out of a raw parameter, and sends it. The value is shown when an
answer arrives, and corrected by what polls and the cloud report.

| module | is |
|---|---|
| `DeviceKinds` | the predicates `isCamera`, `isLock`, ... of `device.ts` and `station.ts`, on a record of type, serial number pattern, hub, role and firmware |
| `SettingTables`, `CameraSettings` | the writeable property metadata of `types.ts`: name and raw parameter |
| `DeviceProperties` | which of them each model's table lists; `Equipped(d)` |
| `SettingCommands` | what a command is: its wire type, what it carries, what becomes of a flag that is switched off, what its answer shows |
| `DetectionSetters` ... `StationSetters` | one operator for each setter, from a kind of device to its plan: the commands it may send, `{}` when it throws NotSupportedError, `{<<>>}` when it returns without sending |
| `SettingPlans` | the switches of `setDeviceProperty`, `setStationProperty`, and of `onStationCommandResult` and `onStationSecondaryCommandResult`: which answer shows the value |
| `Settings` | the machine: `Request`, `TurnAway`, `HubAccepts`, `DeviceTakes`, `CommandLost`, `AnswerArrives`, `AnswerLost`, `AppChanges`, `Report` |
| `SettingContract` | what an application may rely on: a shown value is the device's, unless a change is under way (open) or the library lost track of it (doubt) |

In `Settings`, `shown` are the properties of a device, `raw` and `informed` its raw parameters,
`actual` the device, `flight` the commands not yet answered, and `doubt` is history: the settings that may be
shown wrongly until a report refreshes them. There are two kinds of reasons. What the library cannot know:
another client's change (`AppChanges`), an answer that was lost (`AnswerLost`), a parameter it never
read (`Init`), and a command built while an earlier one for the same parameter is pending (`Overtaken`;
this one is the code's doing). And what the code is known to do wrong: `Affected` says of a command
which settings one of the `Defects` concerns, and these get into doubt only where the menu lists the defect
for that setting (`Unsure`). `MCSettings` takes the lists from `KnownDefects`, by model, hub and setting
(section 6). So another setter that sends something else than was asked for, another answer rule that shows
what the device has not said, or a wrong write-back is a violation. Values are 0 and 1: a setting is switched,
or its value is one of two. The constants `Menus` make the machine independent of the tables, so that it can be proved about;
`MCSettings` takes the menus of all kinds of device from `SettingPlans`. Two settings can disturb each
other only where the command of one carries, overwrites or shows the other, or has its wire type, so
each such pair (and each single setting) is one menu, with the rest of a shared mask as the input
`others`. Menus of the same form, or mirror images, are the same menu; there are 657.

`Truthful(m)` is the static condition on a menu that the theorems about `Settings` assume: each command
sends the value asked for, its answer shows that value, and what it sends along is as shown or is shown by
its answer, up to the listed defects. `MCSettings` asserts it of the menus of all kinds of device
(`MenusAreTruthful`), and that nothing is listed without need: what `KnownGaps` lists is turned away
(`GapsAreReal`), and each entry of `KnownDefects` makes some menu untruthful when it is taken away
(`DefectsAreReal`). A changed answer rule (the two-stage locks T8502 behind a hub shown on the first answer,
say, where they are not listed) makes `MenusAreTruthful` false, and TLC finds `ShownIsActual` violated.

### P2PStreams

One record `session` with the fields of `P2PClientProtocol` that concern a livestream (`VIDEO`) and
a download (`BINARY`). A timer whose handle is lost with the record `endStream` replaces moves to
`late`, where it can still fire; `told` is what the application takes to be running, `silent` that the
code left its stop event out. `left` are the bounds.

| action | code |
|---|---|
| `StartLivestream`, `StopLivestream`, `StartDownload`, `CancelDownload` | those calls of `EufySecurity`, with `sendCommand` and `sendQueuedMessage` |
| `Resumes` | `_sendCommand` after the await of its first sending: it marks or ends the stream |
| `Acknowledged`, `Result`, `ResultMissing`, `GivenUp` | ACK, the result, its timer, the acknowledgement timer |
| `Frame`, `UndecryptableFrame`, `FrameOutOfSequence` | `handleDataBinaryAndVideo`, and a gap in the numbers |
| `Converted`, `Finished` | `CMD_CONVERT_MP4_OK`, `CMD_DOWNLOAD_FINISH` |
| `DataTimeout`, `GapTimeout`, `CodecTimeout`, `LateTimeout` | the timers of a stream, and those of an earlier one |
| `Connects`, `KeepsAlive`, `ConnectionLost`, `BatterySaved` | the connection, and its closing to save the battery |

A sending completes before the network answers it or connects the session again; the ageing of
queued commands is the subject of `P2PCommands`.

### PushService, MqttService and CloudSession

`PushService` has the service's flags and timers in `pushState` and every client it ever made in
`clients`, the current one last, because a client that is replaced goes on connecting. `MqttService`
likewise keeps every MQTT client in `sessions`; the mqtt library, which reconnects and subscribes
again by itself, is external and part of it. `CloudSession` is the HTTP API with what `EufySecurity`
does on its events; in `api` are the token, the requests that are awaited (each with the token it was
sent with) and the fields of `EufySecurity`. What the code does up to its next `await` is an operator
on that record, so `Answered`, `UnauthorizedAgain` and `LoggedIn` model the continuation with the
events it emits (`connect` with `onAPIConnect`, `close` with `onAPIClose` and its `connect`), and with
the start of push and MQTT.

| action | code |
|---|---|
| `Answered`, `Unauthorized`, `LoggedIn`, `UnauthorizedAgain` | a request: answered, answered 401 (the token is invalidated and a login sent), repeated or given up after that login, answered 401 again |
| `LoginAnswered`, `RenewAuthToken`, `EnterCode` | logins of `connect`, of the renewal job, and with the code of the user |
| `RefreshTimeout` | `refreshCloudData` |
| `Connect`, `close` | those of `EufySecurity` |
| `AddLock` | `addDevice` for a lock: `subscribeLock` |
| `Revoke` | external: the cloud refuses a token from now on |
| `Registered`, `Renewed`, `RegistrationFailed`, `RenewalFailed` | `_open` after its registration or renewal: up to its `await` of `PushClient.init` (push/service.ts:942), or its failure |
| `LoadedOpen`, `LoadedRenewal` | `_open` after that `await`: the new client, its listeners and its connection |
| `RetryTimeout`, `CredentialsTimeout` | the timers of `open` and `_open` |
| `LoginResponse`, `SocketClose`, `ReconnectTimeout`, `HeartbeatTimeout` | those of `PushClient` |
| `LinkUp`, `LinkDown`, `LinkError` | the events of an MQTT client: `connect`; `close`, also of an attempt that failed and of a client that was ended; `error` |

Assumed: one request stands for the three of `refreshAllData`; a login is not itself answered 401; a
request that fails otherwise is answered without data; `PushClient.init`, which loads a file, does not
fail; a renewal of push credentials ends before the next one is due.

## 4 Runs

All bounds are named CONSTANTS. A run takes from a second to a minute and a half with two workers.

| run | shows | instance | distinct states |
|---|---|---|---|
| `commands` | order, no re-execution, own answer, one answer, no lost wake-up, handshake first and with the key of this connection | 2 commands of one type and a ping; 2 connections; 1 refusal; 2 retries; disconnection, missing results, late results of what was sent again, `close`, connection without an attempt | 1,433,374 |
| `commands_ageing` | one that aged out is never executed; a second result follows a first | 3 commands, 2 of them two-stage; 2 connections; disconnection, ageing, missing results, early second results | 545,559 |
| `commands_live` | every command is answered in the end | 2 commands; 1 connection; late acknowledgements, results and results of what was sent again; 1 refusal; 2 retries | 97,123 |
| `receive` | what is queued lies ahead, repetitions are recognised, in order and once, everything is parsed or passed over | numbers 0..6, window 3, boundary 2, repetitions up to 2 messages late, 3 laps | 3,403 |
| `rtc` | connected means open and wired, one open session, never stranded, refresh planned, connects in the end | 7 sessions, 1 transport, 5 failures, `close` | 1,566 |
| `connection` | what is wanted is tried again, what was closed is not, a silent station is noticed, a wanted one is connected in the end | both kinds of station; 3 adverse events (slow renewals, `END`, silence, energy saving); any number of losses and of `connect` and `close` | 103,820 |
| `settings` | shown at rest means actual but for the known defects, every writeable setting is sent but for the known gaps, no two share a command, the contract is implemented, the menus are truthful | the menus of every kind of device; 2 requests, 1 change by another client; any lost or refused command, any lost answer, any number of reports | 695,684 |
| `streams` | a running stream is watched, its end is told, a battery device's connection stays open for it, a stop command ends it | 2 cameras of a battery device; livestream, download or both; up to 2 calls, 3 messages of the camera, 1 lost connection, in six combinations | 151,026 |
| `cloud` | what is shown of the cloud is true and refreshed, one push client is heard as long as push is wanted, no lock goes unsubscribed | up to 3 requests or logins awaited, 3 tokens, 3 push clients, 3 MQTT clients with 2 locks, in five combinations | 894,569 |
| `receive_boundary`, `rtc_handoff`, `rtc_reopen` | see section 7 | | |

Why the bounds are enough. *Commands*: the hazards are between the handshake, the message in
flight, one that waits, and what a broken connection leaves; two commands and a ping give each
a role, one type for both makes a misdirected answer possible, two connections are one
restart, and of two retries the refusal uses up one, so that what is sent again may be sent once more, or give up (the code's `MAX_RETRIES` is 10). `MAX_SEQUENCE_NUMBER` 63 is beyond what
these instances send: wrap-around of numbering is the subject of `receive`, where numbers 0..6 let
three laps happen with queue, boundary and repetition on both sides of the restart. *WebRTC*: a
transport has at most an old and a new session, but overlapping attempts hold more until their
promises settle; seven identities never run out with five failures (`Nameable`, which guards the making
of a session, is always true in the run), and five failures are more than
any sequence refresh - failed handoff - probe - second attempt - back-off - hard reconnect needs.
*Connection*: only adverse events are counted; attempts, lost requests and timers are not. Three let
a key be renewed, and a connection be lost twice, while timers of the first attempt still run. A station
that was closed is not connected again by the application, as `reopen` is not among the faults of the
run, but it is by an answer that was on its way.
*Settings*: two requests are what one command can do to another (overtake it, be built before it is
answered, be written back after it); more only repeat that, and the theorems of section 8 hold for
any number. *Streams*: a call to start and one to stop or start again, on the same or the other
camera; two frames start a stream and a third finds it invalid. *Cloud*: two requests refused together are the
least that invalidate each other's token, a third meets the state they leave; of the push clients one
is current, one replaced while connected, one replaced while it reconnects; two MQTT clients exist
when a lock is added during an outage, a third when that happens again. What couples the three parts
is only who starts whom, which the small combination of all of them contains.
Deadlock is checked except where the bounds, or `close`, end a behaviour.

Each property has a mutant in `PROJECT.json`: a change of one mapped definition, as a plausible
slip would make it, under which the property fails in its run.

## 5 Fairness

`P2PCommands!Fairness`: timers fire and an HTTP request settles (weak fairness of the timers and of
`CipherAnswers`); an unacknowledged datagram is offered again (`resendNotAcknowledgedCommand`), so
the station takes it and its acknowledgement arrives in the end; a station that is tried again and
again (`Station.scheduleReconnect`) is reached in the end (strong fairness of `Establish`). No
fairness is assumed for faults. `P2PReceive!LiveSpec` assumes only that the expected message, which
the station repeats until it is acknowledged, is received in the end; `EndPassesQueue` is why the
expected message was not acknowledged before. `RtcStation!Fairness`: promises settle, a session that
neither fails nor is closed opens its channel, timers fire; failures are bounded by `MaxFailures`.
`P2PConnection!Fairness`: promises settle (`Renewed`, `CloseEnd`), timers fire (`LookupRetryTimer`,
`LookupTimer`, `ConnectTimer`, `HeartbeatTimer`, `ReconnectTimer`: Node runs a timer that is due),
and a station that is looked up and checked again and again is found in the end (strong fairness of
`HandleLookupAddr` and `HandleCamId`; not of the local or the TURN lookup). Each request may be lost
any number of times before. `P2PStreams!Spec`: the promise of a sending settles (`Resumes`), and a
command on its way is acknowledged, answered or given up (`Answered`: its acknowledgement timer fires
when nothing comes). Nothing is assumed of the camera, the data timers or the connection.
`Settings` and `CloudSession` state safety only.

## 6 What breaks under which fault

`Faults` names what the environment may do. The passing runs take the faults under which the
property holds; the others are real behaviours of the code, found with the same modules by adding
the fault to the `.cfg`.

| module | fault | what the code then breaks | why |
|---|---|---|---|
| P2PCommands | `slow_ack` | `ResultBelongsToCommand`, `AnswerNotDropped`, `NoReexecution` | a resend enters a second entry into `p2pSeqMapping` (session.ts:1366) for the same number, later results are shifted |
| | `slow_retry` (in the runs `commands` and `commands_live`) | `AnswerNotDropped`, and that every earlier execution was refused | a message that was refused keeps `acknowledged`, so its timer of 5 seconds is left to the result (session.ts:1354, 1702): while the station works on it, it goes out again, and is executed again although it was accepted. Its return code still says refused, so each time it takes a number of its own (session.ts:1300), with its own entry and its own answer: results do not shift, and `ResultBelongsToCommand`, `QueueNotStranded`, `ExecutedInOrder`, `KeyAgreed` and `OneUnacknowledged` hold, as is proved (section 8). The result of the transmission that was given up is passed over |
| | `slow_cipher` | also `QueueNotStranded` | timer and answer of the handshake both take 1 from `p2pDataSeqNumber` |
| | `stale_cipher` | `KeyOfThisConnection`, and what `slow_cipher` breaks | a late `getCipher` writes key and numbering of the next connection |
| | `ageing` | `QueueNotStranded` | an aged-out command returns without looking at the queue (session.ts:1281) |
| | `reorder` with refusals | `ResultBelongsToCommand`, `AnswerNotDropped` | a refused message keeps `acknowledged`, the queue goes on before it |
| | two two-stage commands of one type | `ResultBelongsToCommand` (second result) | they are staged by type (`customDataStaging`) |
| | all together | also `OneUnacknowledged`, `ExecutedInOrder`, `HandshakeFirst` | a result of an unexpected type deletes a message and leaves its timer |
| P2PReceive | `LateLast` | `RepeatsKnown` | number 65535 repeated after the restart (section 7) |
| | `SkipAtWrap` | `EndPassesQueue` | the numerically last number is not the latest across the restart (session.ts:4764) |
| RtcStation | `close`, `reopen` | `RefreshPlanned`, `CommandsWired` | `terminating` and `rtcCommandHandlerWired` are never reset |
| | `down_in_handoff` | `ConnectedWorks` (`ConnectedIsOpen`), `NoLeakedSession`, `HandoffKeepsConnected`, `Reconnects` | the old session's `close` marks the transport as not connected; the swap does not mark it back |
| | `close_in_handoff` | `NoLeakedSession` | `close` ends the old session only |
| | `down_in_attempt` | `ConnectedWorks` (`ConnectedIsOpen`), `Reconnects` | an attempt that fails late closes whatever session the transport has by then |
| P2PConnection | `reopen` | `NotStranded`, `Reconnects` | `Station.connect` does not reset `terminating`; only `onConnect` does, so a first attempt that fails is not repeated |
| | `early_answer` | `AttemptOver`, `StaysClosed` | an answer to an earlier lookup connects the session while `connect` waits for the key; `lookup` then starts a timer that ends the connection, or asks again after `close` |
| | `unwanted` | `NotStranded` | `LOCAL_LOOKUP_RESP` of another station stops the lookup's timer (session.ts:1438); the cloud lookup goes on, but nothing ends the attempt |
| CloudSession | `slow_load` | `PushOnce` | two calls of `_open` wait for `PushClient.init` at once (push/service.ts:942): both took the listeners off the old client, and each makes one that is listened to |
| | `reopen` | `CloudShown` | after `close` the API stays connected, `login` does nothing (api.ts:618) and `EufySecurity` never shows itself connected |
| | | `PushOnce` | closing a push client that is not logged in emits no event, `connecting` stays set and `open` returns at once (push/service.ts:974, push/client.ts:350) |
| | | `LocksServed` | the first connection shifted the locks out of `subscribeLocks` (mqtt/service.ts:113) |
| | `refusal` | `LocksServed` | a refusal of a later connection ends `this.client`, which may be the newer one (mqtt/service.ts:132) |

`OneUnacknowledged`, `OneStage` and the action property `AnswerNotDropped` (P2PCommands), `EndPassesQueue`
(P2PReceive) and `AttemptOver` (P2PConnection) are properties of those modules that no run lists, because
a theorem states them or another property of the run says more; the table and section 8 name them. `TypeOK`, `OneStage`
and `AgedOutNotExecuted` of `P2PCommands`, its `OneAnswer` and `SecondAfterFirst`, and `TypeOK` of
`P2PConnection`, `RtcStation` and `CloudSession` hold under every combination
of faults: that is proved (section 8).

What the models of connection, streams, settings and the cloud have in them as ordinary behaviour, and
what is excepted from a property because of it:

- *Connection.* `close` keeps the socket, and `LOOKUP_ADDR` and `CAM_ID` look at `connected` only
  (session.ts:1473, 1520): an answer that was on its way at `close` connects a closed station again.
  `onConnect` then takes `terminating` back (station.ts:1927), and the next time the connection is lost
  the station reconnects, and goes on for ever. `StaysClosed` says that nothing else brings it back. Its
  antecedent leaves out two cases of the code: `Station.close` does nothing to a session that is not
  connected (station.ts:1160), whose lookup goes on and connects it; and a lookup timer without a handle
  (a renewed key with a late `END`) asks again after `close`.
- *Streams.* A stream found undecryptable after its start ends without a stop event (session.ts:4760;
  `silent` in `EndIsTold`). `CMD_CONVERT_MP4_OK` marks a download as running without a data timer and
  without stopping the battery timer (session.ts:2924; `revived` in `Watched` and
  `BatteryCloseWaits`). A stream marked after the connection was lost is ended by its data timer only
  (session.ts:1385; `stray` in `StopIsObeyed`). Late timers end, or announce, the next stream
  (session.ts:4771); the properties hold all the same. `_disconnected` stops the battery timer
  (session.ts:537) before `endStream` arms it again.
- *Livestream limits* (eufysecurity.ts:1834, outside the model): the handle of the limit timer is
  overwritten by a second start before the stream is marked, and kept when a stream ends by itself; a
  stop before the stream is marked clears the limit and nothing else (eufysecurity.ts:1861).
- *Settings without a setter.* `KnownGaps` in `MCSettings` lists, by model and hub, what the tables
  declare writeable and no setter sends; `Served` excuses these and nothing else. `AlarmGaps`: the alarm
  settings of hubs. `DetectionGaps`: detection types behind a HomeBase Mini and, for some
  models, behind a HomeBase 3 or a T8010. `LockGaps`: LOCK_8531, and LOCK_85D0, the T85D0 that
  docs/supported_devices.md:84 lists as supported and of whose writeable settings none has a setter; parts of
  LOCK_85V0 and LOCK_8530. `CameraGaps`: new cameras (S4, E42, E40, T8426), the recording quality of the doorbells
  C30 and C31, and others.
- *Settings that are shown wrongly.* `KnownDefects`, by model and hub; `ShownIsActual` excuses these
  until a report. `stays_on`: the last detection type of a camera behind a HomeBase 3 is sent as still on
  (station.ts:4508-4510) and the answer shows it off; the raw parameter is unchanged, so that no report
  refreshes it either (device.ts:322-327) until another client changes it. The masks of other models are
  toggled and not set, so that switching off what is off switches it on, and three models send the mask as it
  is when just one type is on (utils.ts:802-868); the Human type of solo cameras does not go off alone.
  `hub_answer`: locks that answer in two stages are shown at the hub's acceptance (eufysecurity.ts:3083-3090),
  before the lock has done it or failed to. `overwritten`: the sensitivity mode of a doorbell and two locks
  is overwritten by the command for another setting. `raw_behind`: wall lights behind a HomeBase 3 send
  along one detection type out of a parameter that is not written back. `left_to_report`: a lamp's state is
  left to the next report; that is meant (comment at eufysecurity.ts:3058).
- *Settings in general.* A value whose answer was lost stays as it was shown until a report differs from the
  raw parameter. A command is built from the parameter as stored, so that of two changes to a shared parameter
  the second undoes the first if it is made before the first is answered (`Overtaken`). The default branches of
  `setDeviceProperty` and `setStationProperty` throw ReadOnlyPropertyError and InvalidPropertyError
  the wrong way round. The setters of lighting colours and themes run past the list they are
  given: they compare as many entries as are fixed, however many there are (station.ts:17967, 18070).
  These are below what the properties tell apart; they were met while the setters were modelled.
- *Cloud.* `close` leaves the heartbeat timer of the push client armed (push/client.ts:350), so that a
  closed client connects again; a registration or a refresh that is awaited at `close` goes on and
  arms its timers (push/service.ts:942, eufysecurity.ts:1597); a 401 after `close` logs in again. A
  failed renewal drops the credentials, and nothing renews them again (push/service.ts:964). The second of
  two requests refused together invalidates the token the first obtained (api.ts:303): an extra
  login, with a consistent result. The token of a login that waits for a code is refused by the
  repeat, which emits `close` and asks for another code (api.ts:506).

## 7 Disagreements with the code's own comments

- `receive_boundary`: the comment on `SEQUENCE_PROCESSING_BOUNDARY` (session.ts:202) says that a number within
  the boundary is determined as already processed; `_wasSequenceNumberAlreadyProcessed` (session.ts:353)
  excludes `MAX_SEQUENCE_NUMBER` itself, so number 65535 repeated after the restart is queued
  as new. It is parsed a lap later in place of the real one, if nothing removes it.
- `rtc_handoff`: stationRtcTransport.ts:12 promises a handoff with "no disconnect gap"; when the old
  session ends first, the transport is left not connected with an open session
  (stationRtcTransport.ts:188).
- `rtc_reopen`: station.ts:2658-2659 says the session is refreshed before the hub falls silent; after
  `close` and `connect` it is not, as `terminating` stays set (station.ts:2835).

These are the runs that expect a violation. One more disagreement has no run of its own: docs/supported_devices.md:84
lists T85D0 (LOCK_85D0) as supported, and no setter serves any of the settings its table declares writeable
(`LockGaps` lists each of them, and `GapsAreReal`, which the run `settings` evaluates, says that none is sent).
The other entries of section 6 contradict no sentence of the repository that was found.

## 8 Proofs

Assumed are the ASSUMEs of the modules only: distinct handshake and commands, disjoint kinds of
commands, natural bounds, at least one token, well-formed menus, `Window <= MAX_SEQUENCE_NUMBER`,
`Late <= SEQUENCE_PROCESSING_BOUNDARY` and `Window < MAX_SEQUENCE_NUMBER - SEQUENCE_PROCESSING_BOUNDARY`
(45,535 in the code). A theorem that excludes faults names them in its own ASSUME, and so do the two
about settings that assume truthful menus; section 6 says what the code does under each of these faults.

**P2PReceiveProofs.** The inductive invariant is `ReceiveInv`, the conjunction of `TypeOK` and
`QueueAhead`: the expected number is that of the next message, and every queued message has the
number it is queued under and lies less than a window ahead. Without the second half a queued
message of an earlier lap could be worked off as a new one, so neither in-order parsing nor
`EndPassesQueue` is inductive alone, nor are the types: a message parsed out of the queue would have
no position. The arithmetic of laps is in lemmas about `Distance`,
`Advance` and `Following`. From it follow `TypeCorrect`, `ReceiveSafety`, `ReceiveKnowsRepeats` (where
`LateLast` is FALSE), `EndOfStreamPassesQueue` (where `SkipAtWrap` is FALSE), and
`ReceiveImplementsFifo`: every step is a step of `FifoStream` or leaves it unchanged. For every size
of counter, window and boundary, the real ones included.

**P2PCommandsProofs.** `TypeCorrect` and `CommandsInOneStage` are inductive together: `TypeOK` with
`OneStage`, which says of every command that it is queued, sent or executed, or reported as aged out, in one
of these only, and of the queue that no command is in it twice. For each method a lemma
(`...OK`, `...Stages`) says what it preserves, and an action's step composes them as the handler
composes the methods. `AgedOutCommandsNotExecuted` follows: a command whose caller was told
`CONNECT_TIMEOUT` was not and will not be executed. They hold for every set of commands, every
bound and every set of faults.

**P2PCommandsResultProofs.** A lemma per method says which fields it changes (`...Fields`), one per
handler to which method it comes down (`...Step`), both at the end of `P2PCommandsProofs`; eight
invariants rest on them.

- `SecondResultsComeSecond`: `Seconded` adds to `SecondAfterFirst` that what is staged for a second
  result, or has a timer for it, was reported a first one. Under all faults.
- `CommandsAnsweredOnce`: that a command is reported once is inductive only together with where
  it may be reported from: `Placed` says that a command that was reported is neither queued nor listed and
  has no timer, that one that is queued is not listed, and that a message is listed under its own number
  (else a timeout would leave it in the table and a late answer would report it again);
  `Untouched` says that what was not issued is nowhere. Under all faults.
- `CommandsLeaveEncrypted`: `KeySound` says that while the handshake is listed nothing else is, and
  nothing else was sent; that it is never in the queue; and that what waits for `getCipher` belongs to the
  connection in use, which is up and not closing. Without "slow_ack" (a handshake sent again after its
  end is listed behind commands), "slow_retry" and "stale_cipher". `RetriesLeaveEncrypted` is the same
  property with "slow_retry", under the assumptions of `Sound` below.
- `CommandsExecutedInOrder`: `Ordered` relates the queue, the datagrams and the station to the order of
  issue. Its core is that a message all of whose rivals' datagrams carry later numbers was issued
  earlier; that is kept when a refused message is sent again under a new number, while "every
  datagram in order" is not. The station takes numbers in order, so what it executes for the first time is ahead
  of every datagram of what it has not executed. Without "slow_ack" and "reorder", and for behaviours in which
  the number of a connection does not come round (`[]FirstLap`): 65535 commands on one connection. With
  "slow_retry" also without "slow_cipher" and "stale_cipher": a message sent again must still be in the
  table, which `Sound` says.
- `ResultsReachTheirCommand`, `CommandsNotExecutedTwice` and `QueueKeepsMoving` follow from `Sound`,
  which takes the invariants above as known and says how the two sides' numbers correspond
  (`Linked`). Without a connection all tables are empty (`Apart`). While the handshake is listed nothing
  else was sent and both sides stand at their first number (`InHandshake`). From then on (`Works`) the
  entries of `p2pSeqMapping` from `results` up to `p2pDataSeqNumber` are in increasing order the numbers of
  commands that were sent: those below the count of the station's answers are the ones it has taken, each
  answered by the command that was sent under it, the rest it has not, and nothing that it has still to
  answer is missing. So the next answer is mapped to the command it is about, or to a number that is no
  longer listed (`AnswerMapped`). `Retried` is about commands that may be
  executed again. In time (`OneOnItsWay`): what the station may yet execute it only refused so far, it was
  sent under one number the station has not taken, and has no answer on its way. With "slow_retry", where
  several transmissions of a message are on their way at once, `RefusedBefore`: each was sent after the
  first execution was refused. `AllMarked` says why: a refused message keeps `failed` and `acknowledged`,
  so it is sent again under a new number each time, never as a second entry for an old one. `OwnResults`
  says that what was reported or staged belongs to the command; `TimersListed` that only what is listed has a timer;
  `Timed` and `Awake` that what the queue waits for has one, and that the queue waits for something. Four
  faults are excluded: "slow_ack", "reorder", "slow_cipher" and "stale_cipher" each break one of the three
  (section 6). "slow_retry" is not. `QueueKeepsMoving` also excludes "ageing", and
  `ResultsReachTheirCommand` assumes that no two commands with a second result are of one type. For
  behaviours in which a connection's numbers do not come round (`[]FirstLap`).
- `AnswersAreNotDropped` is about a step, not a state: an answer the session takes from the stream is reported
  for its command, or has it sent again, if the command is still listed. It needs the converse of the
  mapping: `AllDue` says that the number a command is listed under is among those the table has for the
  answers to come. With `Retried`, by which no second answer of the command is on its way, that number is
  then the one of the answer that is taken (`AnswerIsNext`). Under the same assumptions and without
  "slow_retry"; TLC finds a violation under each of the five faults alone.
- `CommandsLeaveOneAtATime`: `OneWaits`, that at most one listed message is not acknowledged, is kept by every
  method, as a head leaves the queue only when none is, and a refused message that goes out again keeps
  its mark, with "slow_retry" too. `Sound` is needed for a new connection, which lists its handshake in an empty table. TLC finds no violation
  under a single fault either, but one under all of them (section 6).

**RtcStationProofs.** `Base` holds whatever happens: the types, that sessions in use know their
transport (`Known`), and that the station has the transport it made last, or none (`MadeOnce`). Under
`Orderly`, which excludes the three faults that the code does not survive (section 6), `Structure` is
added: every other transport is ended (`OthersEnded`); the station's is idle, trying or up, and then
what its flags say is true of its session (`PrimaryWell`); a handoff has the transport's session as the
old one and a new one on its way (`HandoffWell`); a session that is not over is one of these two
(`AllHeld`); a promise that outlives its session is that of a closed transport (`LateOnly`); a refresh
timer means a connected transport (`Quiet`). `Tried` says that an ended transport of a station that was
not closed is to be tried again. From these follow `SessionsAreHeld` and `AttemptsGoOn`, also when the
application opens the station again, and `NoDisconnectGap`: without the fault of the run `rtc_handoff`
the promise of the comment is kept. `Planned` (handler and command transport are wired, the next
refresh or handoff is under way) is kept only without "reopen", and gives `ConnectedStationWorks`
and `RefreshIsPlanned`. For any number of sessions, transports and failures.

**P2PConnectionProofs.** A lemma per method (`...Fields`) says which fields it changes, one per action
(`...Effect`) what the action preserves and changes; all the rest is reasoning about these. Three
invariants, as none of the properties is inductive.
`NoTimerEndsAConnection`: `AttemptOver` can only be broken by `Renewed`, so `RenewedBefore` (nobody
connects while the key is renewed) is added; that needs "early_answer" to be excluded.
`ClosedStaysClosed`: `ClosedInv` adds that a session that is connected, or was closed when it was, has
no timer of a lookup (`ConnectedIsOver`, `TerminatingIsOver`), that the closed one renews no key, and that no
reconnect timer of a closed station runs (`TerminatingIsLeft`); so nothing is left but answers. Only "early_answer" is excluded, by which `connect`
may ask after `close`; a station may be reopened, and closed with answers on their way.
`WantedIsTried`: `KnownWanted` says that what is wanted does not believe that it was closed,
so `_disconnected` of a wanted station always starts the reconnect timer;
`ConnectingGoesOn` (an attempt under way has a timer that ends it) is needed where the reconnect
timer fires and finds the session connecting. It excludes "reopen" and "unwanted". Section 6 says what breaks
with the excluded faults. The theorems hold for any number of failures, under any of the other faults.

**SettingsProofs.** `TypeCorrect` needs that commands in flight have numbers up to `sent`, distinct from
each other, and carry a value for each setting they own. `ShownIsActual` is far from inductive: with
commands in flight nothing need agree. `IInv` adds, for settings not in doubt: `Tracked` (where no executed
command owns a setting, shown and actual agree; otherwise the last one executed is what the device
has), `SentAsShown` (what a command sends along is what is shown, or its answer will show it, unless a later
one overtook it), `Answerable` (a command's answer shows the value it carried, and nothing before it does),
`InStep` (a raw parameter that every answer writes is what is shown of it) and `InOrder` (commands are executed in the
order they were sent); `Planned` says that commands come from the menu. One lemma for each action shows that it
keeps `IInv`. That of `Request` is where the cases of `Unsure`, what a new command leaves in doubt, and
`Truthful` are needed: what a truthful command does not confirm by its answer is listed with a defect, so in doubt
when the defect is at hand. `ContractKept` adds that every step is one of `SettingContract` under the refinement
mapping `setting <- actual, known <- shown, open <- Open`: a request asks, an execution takes, an answer shows, a
lost one loses, another client drifts, a report reports. `ShownCorrect` and `ContractKept` assume that the menus are
truthful, and hold for every set of truthful menus, so for tables that are extended, and for any number of requests
and changes; `TypeCorrect` holds for every set of menus. The contract is about the order of taking, showing and
losing; that the value asked for is the one sent and shown is in `Truthful`.

**P2PStreamsProofs.** `Sound` is inductive: with the types, that one command at a time waits for its
acknowledgement (`OneAtATime`), that frames are looked at only while a stream runs (`VideoRuns`), that a
stream of which the application was told is running with the record it was told of, or was ended in
silence (`ToldOf`), that the connection is being closed only with nothing to send and no stream marked by a command
(`ClosingIdle`), and that while a sending outlives its connection nothing runs (`LostAlone`: without
it the continuation could mark a stream that was started again meanwhile). `TypeCorrect`, `EndsTold` and
`BatteryCloseWaitsForStreams` follow, and with `Watched` added `StreamsWatched`. For every set of cameras and any
number of calls, frames and lost connections.

**CloudSessionProofs.** One invariant for each service, as they only start each other. `PushSound`: the
listened client is the last one, and what was asked for has a registration, a retry or a client;
`CurrentLives`, that this one has a socket or will have, is kept unless the library is connected again after
`close`. `MqttTyped` and `MqttServed`: what the service shows is true of one of its clients, a lock that
waits has a client that may yet connect, and only the first client, which carries no lock, can be ended.
`APISound`: a connection that is shown and lost has a request that logs in, or is repeated in vain, and
so will find out; what is shown has a refresh armed or under way. That nobody is listened to while a client is about
to be made (`OneLoads`) is kept as long as one registration at a time waits for the message definitions.
`CloudIsShown` excludes "reopen", `PushHeardOnce` "reopen" and "slow_load", `LocksAreServed` "reopen" and
"refusal". The proof needed that a new token differs from "no
token": the bound on tokens is assumed to be at least 1.

Only model-checked: all liveness (`CommandAnswered`, `SentIsParsed`, `Reconnects`, `LossNoticed`,
`StopIsObeyed`), as the prover handles neither fairness nor ENABLED; and `Served`, `Distinct` and that the
menus are truthful, which are about the tables of devices and are evaluated for every kind of device.

## 9 Not modelled

- Of the modelled components: the handshakes of SmartSafe and lock in `CAM_ID`, which list
  their message without numbering or timer; commands sent over WebRTC by the session
  (`_sendCommandViaRtc`); payload, encryption and coding of messages; delays and back-off values
  (a timer may fire whenever it is armed); the counting of missed polls before `PollWatchdog`; and in
  `RtcStation` an error, a close or the timeout of a handoff's new session before its `connect()`
  has settled, which is an unhandled rejection in the code; in `P2PConnection` the steps of a TURN
  handover (`LOOKUP_ADDR2` stands for them), the keepalive of energy saving stations, the time a socket
  takes to bind, a fixed listening port (`EufySecurity` passes 0), the pings of a doubled
  heartbeat, and how long a delay is.
- Of the settings: payload formats and encryption, ranges of values, the property metadata beyond key
  and writeability, settings whose command is an action (pan, reboot, snooze, passcodes and users).
- Of the streams: talkback (whose end resets `p2pTalkback` without `stopTalkback`), RTSP streams,
  frame contents and codecs, the limit of a livestream.
- Of the cloud: the contents of answers, throttling and back-off, the Mega API, the messages of push
  and MQTT, persistent ids.
- Left by the plan: message assembly, the RTC command bridge, event timers of devices, loading of
  stations and devices, the push parser.
- Left out for good: cryptography and encodings (pure functions on bytes), enumerations and type
  declarations, generated protocol definitions, the image caches, and the third-party peer connection
  beneath `rtcPeer.ts`.

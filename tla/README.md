# A TLA+ verification of the Tuya camera bridge

The repository turns Tuya cameras into RTSP streams, browser video and two-way
talk. This directory holds TLA+ models of its core logic, the TLC
configurations that check them on small instances and TLAPS proofs of the
results that matter most. `PROJECT.json` maps every definition to the source
lines it stands for.

## 1. The system

Three programs and a web page:

| Part | Where | State it keeps | Operations |
|---|---|---|---|
| Native media engine (C++) | `bridge/apps/native/src` | per camera: WebRTC peer, RTP reorder windows, RTSP clients, IDR and snapshot caches, health clock | JSON-lines commands on stdin, events on stdout |
| Bridge server (NestJS) | `bridge/apps/server/src` | engine process and command queue, MQTT sessions, recovery timers, ffmpeg transcoders, talk owners, RTMP relays, browser viewers, QR login session, SQLite rows | HTTP and WebSocket handlers, timers, engine and MQTT events |
| Web UI (React) | `bridge/apps/web/src` | the player's attempts and timers, the QR dialog, view state | calls the server |
| Scrypted plugin | `src` | tokens, MQTT client, accessories, intercom process | Scrypted calls, Tuya push messages |

| Component | State | Operations | What is hard about it | What makes it correct |
|---|---|---|---|---|
| Talkback arbitration, `streaming/talkback-session.service.ts` | one `CameraTalk` per camera: browser owners, RTMP owners, holder, speaker flag, grace timer, idle timer | claim and release of each side, `shouldSend`, `touch`, both timers, `gc`, shutdown | timers against claims, hand-over between the sides, garbage collection of a record that still has a timer | one floor; RTMP is never pushed out by a browser; the speaker never clicks off and on in a hand-over; nobody keeps the floor for ever |
| Talk gateway, `ws/ws.gateway.ts` | `activeTalkSessions` | `talk_start`, `talk_stop`, audio, disconnect | a second start on another camera, a tab that dies | its sessions are the service's browser owners |
| RTMP ingest, `streaming/rtmp.service.ts` | connections, `pendingAudio`, `activeRelays`, ffmpeg processes | publish, unpublish, audio, relay exit and drain | the `await` in the publish handler, processes that outlive their relay | a relay's name owns the camera exactly while the relay is kept |
| RTP reordering, `webrtc/peer.cpp` | `RtpReorderState` per track | packet, reset on Connected | wrapping numbers, loss, repeats, a renumbered stream | order, no repeats, every hole is told first, no stall |
| RTSP fan-out, `rtsp/server.cpp` | clients, parameter sets, keyframe cache, numbering | feed, discontinuity, SETUP, PLAY, TEARDOWN, disconnect | one feeding thread and a thread per client over shared entries; a new peer keeps what was collected | whole keyframes, slices only to a client that can decode them, numbers without gaps |
| RTSP audio and silence, `rtsp/server.cpp` | audio timestamps, last audio time | audio packet, silence loop, PLAY reset | two threads advance one timestamp | timestamps never go back |
| WebRTC peer, `webrtc/peer.cpp` | connection, health clock, talkback socket | offer, answer, candidates, `health_loop` | stall detection on a thread of its own, callbacks that outlive a stop | one disconnect event per connection, no event after stop |
| IPC server, `ipc/server.cpp` | sessions, relays, viewers by camera | JSON commands | commands are handled in order, events are not | a stopped camera has nothing left |
| Engine handle, `engine/native-engine.ts` | process, ready flag, pending commands, pending snapshots | `send`, `sendWhenReady`, ready, exit, snapshot with timeout | stop commands overtake queued start commands; the process dies | a queued command is written once the process is ready |
| Transcoder, `streaming/transcoder.service.ts` | one session per camera: ffmpeg, start timer, retry timer, ports | start, switch to fallback, stop, process and timer callbacks | handlers that come back from an `await` with an old row; timers against exits | one writer on the relay's ports; never silent; the relay serves the camera's port |
| Camera supervision, `cameras/cameras.service.ts` | recovery timers and attempts, active streams, snapshotters, rows | start, stop, delete, log out, engine and MQTT events, watchdog | five sources of restarts over `await`s, back-off | no dead camera counts as active; a lost or absent one is brought back; without a login nothing is tried |
| Tuya signalling, `auth/tuya-mqtt.service.ts` | one MQTT client per camera session | start, stop, offer with retries, answers, speaker | two awaits before the session is kept, reconnects that start a peer again | whatever overlapping calls leave open, the supervision stays right |
| Browser viewers, `VideoPlayerModal.tsx`, `streaming/browser-webrtc.service.ts`, `webrtc/browser_peer.cpp` | the page's attempt and timers, sessions with an ffmpeg each, peers in the engine | offer, answer, stop, retry, offer and cleanup timers, the engine's events | the page leaves during the post; a stop overtakes a queued start; the engine dies | whatever streams or stands in the engine has a session; what the page has given up is stopped; no peer stays for ever |
| Snapshots, `cameras/frame-snapshotter.ts`, `last-live.ts`, `offline-card.ts`, `haus-native.service.ts` | snapshot file, last live frame and its `.next`, card timers, the `online` flag | grab by keyframe or RTSP, render, availability | grabs and renders that end after the state changed, two snapshotters over one file | the picture follows the stream; a camera is available only while it sends; a stopped grab brings nothing online |
| Login session, `auth/tuya-protect.service.ts`, `AddCameraModal.tsx` | region, cookies, user, QR token, saved session | QR flow, poll, save, expiry, log-out, region change, restart | every call awaits Tuya and goes on in the state it finds | who is logged in is the session that is or will be saved; a scanned code logs in |
| Plugin, `src/src` | tokens, MQTT client, accessories | login, token refresh, config and connection, motion | overlapping logins whose clients stay, an expired token many requests find, closes and errors | one refresh and one connection at a time, errors reconnect, motion ends |

Calls go from the server's services into the engine handle as JSON lines and come back as
events; within the server the parts call one another directly and through
events, and each handler runs to its next `await`. In the engine the feeding
thread of a camera's peer calls into the camera's RTSP server, whose client
threads share the server's state under locks.

The hazards of each part, with their lines, are in `PROJECT.json`
(`hazards`); the properties below are aimed at them.

## 2. Modules

```
TalkFloor  <--implements--  TalkbackSession  <--EXTENDS--  Talkback
                                                          (gateway and RTMP around it)
                                                          TalkbackProofs
RtpReorder  ---packets--->  RtspFanout                    NativeEngine <--EXTENDS-- Transcoder
           MediaProofs (both)                                             TranscoderProofs
TuyaSignaling <--EXTENDS-- StreamRecovery                 Viewers         Pictures
                           StreamRecoveryProofs           ViewersProofs   PicturesProofs
Login                      Plugin
LoginProofs                PluginProofs
```

Each `MC*` module instantiates one of them for TLC. Definitions that begin a
comment with "Faulty variant" are plausible bugs: no module uses them, and the
project's mutants put them in the place of the definition they stand beside to
show that a property would notice.

**TalkFloor** is what talkback promises about a speaker, with no owners or
timers. **TalkbackSession** is the arbitration service. A camera's record is
`talk[d]`; `NoTalk` stands for "no entry in the map", and `tracked` tells the
two apart. `Apply`, `Collect`, `WebClaimed`, `WebReleased`, `RtmpClaimed`,
`RtmpReleased`, `IdledOut`, `Touched`, `GraceOver` are `apply`, `gc` and the public
methods and timer callbacks, each a function from a record to a record because the
gateway calls two of them in one handler. Time is not counted: the idle timer is
`off`, `fresh` or `stale`, and `IdlePasses` is its period going by without a
packet. `speaker` is what the camera itself was last told, which differs from
`speakerOn` when there was no MQTT session to tell it through.

**Talkback** extends the service with the WebSocket gateway and the RTMP ingest around it;
`SessionSpec` is the service on its own, under any order of calls, and `Spec` the composition,
where only its real callers call it. The publish handler is two actions, `Publish` up to its `await` and `ResolveCamera` or
`ResolveNothing` after it. Two handlers of one name may be waiting at once.
A relay's ffmpeg process is `live`, `ending` (its input has ended), `exited`
(the drain interval is still to come) or `gone`; one that could not be spawned is a `dud`,
kept like a live one although it never exits.

**RtpReorder** is `handle_rtp_packet` and `flush_reordered_packets` for one
track; a delivery is one action. Sequence numbers wrap at `Space` and the
arithmetic is that of `uint16_t` and `int16_t`. The network loses, repeats and
reorders within `Delay`; the camera may restart its numbering.

**RtspFanout** is what happens to the packets then, for an HEVC camera. One
critical section is one action, so the feeding thread (`TellClients`,
`TellCache`, `Store`, `FanOut`) interleaves with PLAY in the three pieces the code
cuts it into (`Play`, `Copy`, `Prime`). A packet is its group of pictures, its part of it,
and whether it stands behind a silent break (`cut`, history). Packets go missing in two ways:
what the window gives up is `told` before the packet behind it; what is missing before the
window has taken its first packet is `silent`. `Reset` makes it so: a new peer connection, or a
jump that restarts the window, loses what waited there and says nothing, while the server goes
on collecting the keyframe it had begun. `clean`, `want` and `dec` are history variables:
whether the client's wait began outside of a keyframe with nothing since that excuses it, which
number it should see next, and what a decoder could do with what it was sent.

**NativeEngine** is the server's handle on the engine process together with the
process's command loop, for the commands of a camera's relay: two queues
(`pending` on the server, `stdin` in the pipe), the ready event in between,
and a process that dies at any moment. It has actions but no next-state
relation; **Transcoder** extends it and adds the camera's public stream: the
session, its ffmpeg, its two timers, and the camera service's handlers as
`ReadRow` (the row is read, an `await` begins) and `Resume` (the handler goes
on with what it read). A session that has left the map cannot act any more,
since all of its callbacks test `stopped` and the map first; that is why only
the present session is a variable. A `process` that could not be spawned is
`dud` (one was there before) or `mute` (none was); the engine's own start may
fail as well, and then leaves no process.

**TuyaSignaling** is the signalling of one camera together with the engine's
session for it. A call of `startCameraSession` is `asking` during its two awaits, then
its MQTT client is `open` and, while connected and subscribed, `up`; `sess` is the client
the service kept. Calls may overlap, and the client of a call that was overwritten stays
with nobody to end it, as in the code. `peer` is the engine's WebRTC peer, and
`events` what it has reported and the server has not read.

**StreamRecovery** extends it with the camera service: `activeStreams`, the recovery timer,
the snapshotter and its failures, the row, the login. Every database access that
ends an uninterrupted piece of a handler is an element of `handlers`, so that
losses, stops, deletions, expiries and log-outs fall between the pieces. A request for a
start, stop or deletion is one of them too: `UserAsks` is its look-up of the row. The
handlers are `OnSessionStarted`/`StartedSaved`, `OnDisconnected`/`DisconnectedSaved`,
`OnUnhealthy`/`UnhealthyFound`, `SavedThenStarts` (auto-start and create),
`UserStarts`, `UserStops` and `UserDeletes`/`Removed`, `Login`/`LoginSaved`, `Expires`/`ExpiryTold`/`ExpirySaved` and
`UserLogsOut`/`LogoutSaved`.

**Viewers** is one camera watched in a browser, from the page to the engine. A run of the
player's effect is an attempt and names everything that comes of it: the post, the
server's session, its ffmpeg and its peer. `page` is how far each attempt is, `wire` and
`answers` are what travels (on its own, so that a delete overtakes a post), `create` is
how far the handler of a post is, and `process`, `isReady`, `pending`, `stdin`, `out` and
`child` are the engine's handle and pipe as in NativeEngine, with the viewers' commands.
`strays` are reconnect timers that a second one made unreachable. `overtaken` is a history
variable: sessions stopped while their start still waited in `pendingCommands`. An engine that
cannot be started leaves the commands where they are (`StartEngine`), and an offer the engine
cannot take leaves no peer (`Rejected`).

**Pictures** is the two files of a camera and everyone who writes them. A grab is what its
snapshotter waits for (`asking` the engine, `decoding`, `writing` and `stamping` and
`renaming` the last live frame, or an RTSP grab of the live stream or of the card);
stopping a snapshotter takes it out of the map (`on`) and kills an RTSP grab, no more. A
card's own render is `isRendering`; `renders` are those whose card is gone. The events of
the stream are those of StreamRecovery, free to come at any time. `peer` is the engine's
session: `new` from the start command on, whatever the camera does, and `feeding` once it is
connected; `closed` is the report of a peer that was closed, still to be read. A camera that
counts as streaming may so show the card on its public stream, and a grab by RTSP gets one or the
other (`Rtsp`). The save of a frame's row, which nobody awaits, is `saving`. Time is counted in
steps of fifteen seconds and kept as ages.

**Login** is the Tuya account: the service's memory, the row, the saves between them, the
calls that await an answer, Tuya's tokens, and the dialog that shows one. An answer takes
effect in the state it finds; what it changes in the cookie jar is `TakeCookie` of every
call, since every call goes through `updateCookiesFromResponse`. A save may fail, which nobody
repeats: `failed` says so of the last one.

**Plugin** is the Scrypted plugin's account. A call of `tryLogin`, its API, its MQTT client
and its accessories have one number; earlier ones are forgotten by `this.api`, `this.mq` and
`this.devices` and go on by themselves. `waiting` and `sent` are requests before and after the
single-flight refresh, `fetching` and `conns` count the configs a client waits for and the
connections it has not ended. A request that fails ends what asked for it, but for the
specifications of devices, which a login does without (`Spared`); `AnnounceFails` is Scrypted's
refusal of the devices, which ends a login without a client.

## 3. What TLC checks

| Run | Shows | Bounds |
|---|---|---|
| `talk_session` | the service alone under every order of calls: watched timers, no push-out, no click, and the refinement of TalkFloor | 2 cameras, 2 browsers, 2 publishers |
| `talk_safety` | the gateway's sessions and the service's owners are one relation; so are kept relays and RTMP owners; buffered audio is always taken | 2 cameras, 2 browsers, 2 connections, 1 name, 2 relays at once, 2 handlers waiting |
| `talk_live` | a killed tab, a camera nobody holds and a publisher that left give the speaker back | 1 camera, 1 browser, 1 connection, polite publishers |
| `reorder` | order, no repeats, holes told first and always, no stall | number space 10, resync at 3, window 3, delay 3, 8 packets, 1 renumbering |
| `fanout` | whole cache, waits that end with a whole keyframe, gapless numbers, healing | 1 client, 4-packet keyframes, 2 groups of pictures, numbers modulo 3, 2 losses or resets of the window |
| `recovery` | no dead camera stays active, losses heal, absent cameras revive, without a login recovery rests | 2 calls and clients, 3 waiting events, 2 disturbances, failure limit 1 |
| `transcoder` | one writer, never silent, the relay serves, queue flows, the stream comes | 2 ports, queues of 2, 1 death, 1 failed relay, 1 port change |
| `transcoder_retry` | a comment the code does not keep (section 6) | 1 port, no death |
| `viewers` | peers and ffmpegs are owned, given up sessions are stopped, peers go | 2 attempts, 1 attempt that loses a message or its page, 1 death of the engine |
| `login` | the session in memory is the stored one or about to be unless the last save failed, a scanned code logs in | 2 regions, 1 user, 1 cookie or none, 1 token, 2 flows, 1 poll, 2 saves, 1 restart |
| `pictures` | availability is true, only a session or a snapshotter in the map brings a camera online, the picture follows the camera | 2 snapshotters, 2 renders without a card, 3 events or failures |
| `plugin` | one refresh, one connection, motion ends, errors reconnect | 2 logins, 3 failures, expiries, reports or time-outs |

Why the bounds are enough to meet the interesting cases:

- Talk: two browsers and a publisher are needed to take the floor from one
  another, two cameras for a browser that moves. One name with two
  connections and two waiting handlers gives every overlap of publish, unpublish,
  restart and late exit; two names never meet except in the owner set, which
  `talk_session` covers. `MaxRelays` is a bound on processes alive at
  once. `OneMatch` gives a name one camera for good: in the code a renamed
  camera may turn a later look-up of the same name to another camera, and the restart
  of the relay then leaves the first one owned (a hazard of `PROJECT.json`);
  `RelaysOwn` does not hold there (section 6).
- Reordering: the scaled constants keep the code's order `MaxPending <=
  ResyncFwd < Half` and `ResyncBack < Half`; eight packets wrap the space of ten
  from any starting number, and overfill the window. `Delay` keeps the network
  within the look-back of the window and `Burst` limits the packets lost in a row:
  beyond either, `InOrder` and `HoleIsTold` are not promised by the code,
  and each says so.
- Fan-out: clients meet only in the keyframe request, which the run leaves free
  anyway (`AskAgain`), so one is enough for TLC; the proofs hold for any number. Two
  losses or resets make a silent break and a told one meet in one keyframe, in either order.
  Three numbers wrap within one primed keyframe of four packets.
- Recovery: two calls overlap, and the second's client can forget the
  first's; `MaxEvents` holds a close and the start behind it, with one event before them;
  a disturbance is a request, a change of the login, a fault or a failed snapshot, and two of
  them meet in every order. Timers, database answers and the answers of the cloud are
  not counted. The failure limit of 6 is scaled to 1: only reaching it has an
  effect here. Losses and stalls start from a live peer or a new one.
- Transcoder: two ports are needed for a changed one and one death for a
  restarted engine; queues of two hold a stop that overtakes a start.
  The room in a queue bounds new requests only, never a timer or an event.
- Viewers: an attempt and its successor are all that meet, since the page
  runs one at a time; a death between any two steps covers a late boot and a lost stop.
  The proofs hold for any number of attempts, losses and deaths.
- Login: two flows overlap over a change of region, one token is scanned before or
  after it, and a save is under way while another begins. One cookie value beside the empty
  jar tells a replaced session from the stored one. One poll at a time means that overlapping polls
  are not exercised by TLC; the proofs of the safety part hold for any number of everything.
- Pictures: one snapshotter that was stopped beside one that runs; a third would need
  two restarts within one grab of less than fifteen seconds. Three events are a loss, a
  return and a failure between them; renders and grabs are not counted.
- Plugin: a forgotten login beside the present one; three events bring an expiry, an
  error and a time-out into every order. The proofs hold for any number.

**Fairness.** Weak fairness is given to what the runtimes run: Node timers that are
armed, look-ups that are awaited, the engine's command loop and its events, ffmpeg's exit
after its input ended, the engine's threads, the watchdog and the health loop's 15
seconds. In `RtspFanout` the peer asks for a keyframe every ten
seconds (`AskAgain`), and one strong fairness is added: a camera that has been asked for a
keyframe sends one sooner or later, however many slices it could have sent. `Heals` is about a
client that goes on playing and does not set up for ever. Nothing is assumed of people, tabs,
publishers, cameras, the MQTT network, losses, deaths or the exit of a healthy ffmpeg; `GhostReleased` is
conditional on RTMP publishers coming to rest because every claim of theirs restarts the
browser's idle period in the code.

In `Viewers` the server's timers and the engine's loop are fair, the page, its network and
the peers are not; in `Pictures` the waits of a grab, each of which has a time-out of its own,
the two intervals, the recovery timer, the reports of the engine and the keyframes of a connected
peer, but neither the camera's answer nor the watchdog, which passes over a camera whose MQTT
session is kept; in `Login` the page's interval, the
answers of polls and the writes of the database or their failure, and, as a strong fairness, that Tuya does not
answer the polls of a scanned token with failures for ever; in `Plugin` what the client asks of the cloud
and the broker, and timers.

Deadlock is checked in every run but five, which may come to rest: `reorder` when `MaxSent`
packets are sent and nothing is left in flight, `recovery` when the disturbances are spent
and, logged out, nothing is left to try, `viewers`, `pictures` and `plugin` when their bounded
attempts or events are spent.

## 4. What is proved

TLAPS checks these for every value of the constants that satisfies the modules'
named assumptions.

- **TalkbackProofs.** First the service alone (`SessionSpec`). Its inductive invariant
  `AllSound` says that each record is what `apply` and `gc` leave: the holder follows from the
  owners, the speaker is on exactly with a holder or a grace timer, the idle timer is armed
  exactly with a browser as the holder, at most one browser owns a camera, and a record worth
  nothing is gone. One lemma per operation shows that `Sound` is kept and the floor moves
  legally; from these follow type correctness, `SpeakerWatched`, `BrowserWatched`,
  `WebNeverTakes`, `NoClick` and the refinement `SessionSpec => Floor!Spec` of TalkFloor.

  Then the composition (`Spec`). `Composed` is `Together` (the records are sound, and the
  gateway's sessions are the service's browser owners), `RelaysGood` (a relay kept under a name
  is a process of that name, so that `stopRelay` releases what was claimed) and the rest of the
  types. The relation of sessions and owners rests on the records: the state event of a call
  drops the sessions of a camera that no browser holds, and those are exactly the sessions of
  browsers that own nothing any more because the holder follows from the owners. From it follow
  type correctness, `SessionsOwn`, `PendingAudioTaken`, and for the composition again all that
  was shown of the service, the refinement of TalkFloor among it. `RelaysOwn` holds where a name
  has at most one camera (`OwnersHaveRelays`, under `OneCamera`, which the run's `OneMatch`
  meets); without that assumption one half of it holds (`RelaysHaveTheFloor`: a kept relay owns
  the camera it feeds), and the other is the hazard of a renamed camera.
- **MediaProofs.** The way of a packet, through RtpReorder and then RtspFanout.
  Lemmas about wrapping arithmetic (`WrapInverse`, `WrapShift`, `WrapAdd`) carry `FlushIs`: one
  flush hands on one run of consecutive numbers from the expected number or, when the window is
  full, from the nearest one that waits, and reports a discontinuity exactly in the second
  case. With `Window` as the inductive invariant this gives type correctness, `PendingAhead`,
  `ToldAtTheHole` and that a run has no holes; a stronger invariant that ties wire numbers to
  the indexes the camera sent gives `InOrder` and `HoleIsTold`. These two and `ToldAtTheHole`
  are what RtspFanout assumes of its feed. Of RtspFanout: type correctness; `CacheWhole` from
  `Collection` (what is being collected is a prefix of one group of pictures, and the camera's
  next packet continues it unless a hole is about to be told or it stands behind a silent break);
  `WaitsForWhole` from what the decoder of a `clean` waiting client has so far (`Ready`, `Continues`),
  and `Numbered`, for any clients.
- **TranscoderProofs.** `Stream` (a start timer exactly when there is no
  process yet, a retry timer exactly when the process has exited, and the
  writers are the session's own process) gives type correctness, `OneWriter`
  and `NeverSilent` for any ports, queues, deaths and port changes.
  `RelayServes` needs `Relayed`: nothing waits behind a ready engine and no
  stop waits at all (`Queue`), there is only one port while it was never
  changed (`OnePort`), and a session's start is waiting, or written with no
  stop behind it, or carried out with no stop to come (`Reach`). Lemmas about
  queues that grow, are written and shrink carry each of these over a step.
- **StreamRecoveryProofs.** Type correctness, and `ActiveIsTrue` from `Sound`: while the
  peer is dead, either a report of its loss waits with no start behind it, or the
  camera is not active and no start waits. Lemmas about queues (`ToldByReport`,
  `NoStartTail`, `ToldTail`) say how appending a report and reading the
  head keep this. `Sound` is needed because a start that is read after the
  loss was would make a dead camera active; the queue's order excludes it.
- **ViewersProofs.** Type correctness, and `Owned`. A peer is made by a start the engine
  reads, so the invariant is about starts on their way: one that is written has a session,
  was overtaken, or has its stop written behind it (`Follows`); one that still waits for the
  engine to be ready has a session or was overtaken (`PendingOwned`). A stop that finds no process is
  lost, and harmless because then nothing is in the pipe and no peer stands (`Alive`).
  Lemmas say how appending, reading and joining queues keep `Follows`.
  `LetsGo` needs a second invariant, `Handed`, by which page and server agree on how far each
  attempt is (`Sure`): before its post there is nothing of it at the server, a post under way has
  no session yet, an answer ends its post and a refusal leaves no session, the page knows the
  session of its present attempt only, and a session that lost no message is waited for, known to
  the page, or has a delete on its way.
- **PicturesProofs.** Type correctness, `AvailableIsTrue` and `OnlineByRight`. No picture is
  dated later than the newest keyframe, but for the wait between writing the `.next` file and
  stamping it (`Dated`); two snapshotters share that file, so this needs that two grabs that
  overlap had a keyframe between their beginnings (`Overlap`), which in turn rests on who may ask:
  what is in the engine's cache while a stopped snapshotter's grab goes on was put there during
  that grab (`Succeeded`). The date by which a camera is offered is then at most a grab's length
  younger than its newest keyframe.
- **LoginProofs.** Type correctness, and `Persisted`: the last save that began decides
  what will be stored (`LastWrite`), reading the oldest does not change it, and each step
  that changes the session of somebody who stays logged in begins a save or sets the timer.
- **PluginProofs.** Type correctness, `OneRefresh`, `OneConnection` and `MotionEnds` for any
  number of logins. The invariant: a refresh is on its way exactly while its API's promise is set (`Counted`),
  a request is waiting or sent, not both (`Apart`), one that fetches a config belongs to a client
  that waits for it (`Awaited`), and a client waits, is connected, or neither (`Clients`).

The type invariants are inductive parts of these proofs, and no run repeats them. Every safety
property a passing run checks, invariants and action properties alike, is a theorem too.

Only model-checked are the temporal properties beyond safety, which the prover does not reach:
`GhostReleased`, `GoesQuiet`, `PublisherReleased`, `Heals`, `LossHeals`, `Revives`, `Calms`,
`QueueFlows`, `Streams`, `PeersReaped`, `ScanLogsIn`, `PictureFollows` and `Reconnects`. That
RtspFanout's feed is what RtpReorder hands on is an argument over two modules, not a theorem:
the modules number packets differently and are not composed.

## 5. Abstractions worth knowing

- A row read before an `await` is a record in `handlers`; two handlers that read the
  same row with the same purpose are one element of that set. They resume
  one after the other in the code; a second resume is the step of a handler
  that read again.
- A killed ffmpeg counts as gone at once. The code sends SIGKILL after a second if
  SIGTERM did not help, so an old process may overlap its successor for up to that
  second; `OneWriter` is about processes that were not told to stop.
- A card's ffmpeg whose spawn throws is only logged, and leaves what process there was
  (`transcoder.service.ts:459`): the model has that, and `NeverSilent` and `Streams` name it. An
  `error` event emitted later by a process that nobody listens to would end the server, and
  is not modelled.
- In StreamRecovery a find and the save that follows it, with nothing else done
  between, are one wait, and the row is read when it begins. A handler may so go on with
  a row that was removed meanwhile, and its save inserts it again, as TypeORM's `save`
  does. `LossHeals` is therefore about a camera that keeps its row throughout:
  a removal between the loss and its handler leaves a peer nobody recovers.
  The watchdog's find and its look at the row are one step.
- Closing a peer connection reports Closed through the state callback before the close
  returns. That is libdatachannel's behaviour (external) and `Sound` rests on it.
- The engine runs throughout StreamRecovery: its deaths are in NativeEngine and Transcoder.
- Back-off, what a `frame` event saves and `update()` are left out of
  StreamRecovery: none of them decides whether a camera is started. `p2p_connected` is left out
  everywhere: no session of the engine makes the client that reports it.
- `restart()` of the engine handle has no caller and is not an action.
- In Login the cookie jar is one value, and a query of the database takes effect when it is
  issued, in the order of issue; only `saveSession`, which finds the row first, writes later, and
  only it may fail: a delete that fails, at a log-out or a 401, is left out, as are the
  camera rows that a discovery writes. A restart within the five seconds of the save timer
  forgets what the timer would have written; `Persisted` is about the running server.
- In Viewers a request is refused or handled at once when it arrives: a post that waits for its
  database look-up is still on the wire. The camera's RTSP port that ffmpeg reads is not part of
  the module; ffmpeg may end at any time.
- In Pictures the supervision of the stream is reduced to its events, and the camera is one that
  a login or a local key lets the server recover. The events' handlers are one step each: an
  `online` written after an `await` over what a disconnection wrote meanwhile
  (`cameras.service.ts:64`) is not seen. The save of a frame's row, which nobody awaits, is.
- In Plugin a request of a client is one request: the config's two (`queryHomes`, then
  `fetchMqttConfig`) go through the same refresh, `AsksAgain` being the second. Every config has a
  link id of its own (`sharing.ts:109`), so that two connections would not displace one another at
  the broker; `OneConnection` is about what one client holds open. Motion that Scrypted kept from an
  earlier run of the plugin is left out.
- In RtspFanout a client is not sent to over a full socket, and a request is
  answered in one piece. What a window that restarts still held is lost with it, told or not.

## 6. Where the code and its comments part

`transcoder_retry` shows one: "Periodically retry the real live stream"
(`transcoder.service.ts:451`). The retry hangs on the exit of a card that loops for ever.

The models contain the following as well; no run is spent on them.

Talk, streams and supervision:

- A renamed camera: `startRelay` stops the old relay of a name without releasing the floor
  (`rtmp.service.ts:643`), and when the look-up has found another camera by then, the first one
  keeps an owner that nobody releases. `RelaysOwn` does not hold there.
- A relay whose ffmpeg could not be spawned is kept, and keeps the floor, until its publisher leaves.
- "unpublish is the release" (`talkback-session.service.ts:222`). An unpublish during the
  publish handler's look-up finds no relay; the handler then claims and starts one that
  nobody ends.
- "MQTT 312 speaker is on only while a holder exists"
  (`talkback-session.service.ts:44`). The off command is dropped without an
  MQTT session and never repeated.
- "Successfully synchronized on a clean keyframe!"
  (`rtsp/server.cpp:1058`). The end bit alone ends the wait of a client that
  came in the middle of the keyframe.
- "Pre-warm fallback transcode so public RTSP port is
  alive" (`cameras.service.ts:306`). After a death of the engine the
  transcoder still believes in its old relay and starts none.
- A camera that never answers its four offers (`tuya-mqtt.service.ts:289`) keeps its session
  and counts as streaming. `CHANGELOG.md:18` expects failing snapshots to
  notice, but a snapshot falls back to the public stream, and that one may show
  the fallback card (`frame-snapshotter.ts:188`).
- A stream stopped by hand is started again by the watchdog after 15 seconds, and a
  camera deleted while a recovery is pending is started by it.
- Without a login `startStream` starts the engine's session (`cameras.service.ts:482`),
  where `CHANGELOG.md:100` speaks of login checks before an attempt to start.
- Overlapping starts leave an MQTT client open that nobody ends, and each reconnect of it
  starts the engine's session again.

Media:

- "the last complete parameter-set + IDR cache" (`rtsp/server.cpp:513`). A peer that is replaced
  in the middle of a keyframe, or a jump of the numbers there, is told to nobody: the collection
  goes on with what comes next (`session.cpp:53`, `peer.cpp:281`), and its end bit caches
  a keyframe with a hole or a mixture of two. `CacheWhole` holds but for such breaks.
- A SETUP while playing overwrites the client's entry (`rtsp/server.cpp:439`): its numbers start at 0
  again without a word to it, which `Numbered` allows.

Viewers:

- A stop is written at once, a start waits for the engine to be ready: a viewer stopped by
  its offer timeout while the engine boots (`browser-webrtc.service.ts:88`,
  `native-engine.ts:384`) is started afterwards and stays. `Owned` and `PeersReaped` name it
  as their exception.
- `reconnectTimer` is overwritten when a connection fails and the media timer ends the same
  attempt (`VideoPlayerModal.tsx:97`, `:126`): the first timer cannot be cleared and starts one
  more attempt, without harm to `LetsGo`.
- An engine error about a viewer carries the camera's id and rejects a pending snapshot of
  the same camera (`native-engine.ts:246`).

Login:

- A save that is under way at a log-out writes the old session back after the delete
  (`tuya-protect.service.ts:458`), and a restart logs in with it.
- An old call's 401 forgets a login that was made after it began.
- A change of the region keeps the stored session, and merges the cookies of answers of the
  old host that are still to come.
- A save that fails is not repeated: the session in memory is then not the stored one until the
  next change of a cookie. A poll whose save fails reports an error although the user is logged in.
- A token requested before a change of the region may be shown after it: polling it cannot
  succeed, which `ScanLogsIn` excludes.

Pictures:

- Two snapshotters share one `.next` file, and the cleanup of one removes the decoder's files
  of the other. `AvailableIsTrue` holds nevertheless, within the length of a grab.
- An RTSP grab may be of the fallback card, and marks the camera online.
- `session_started` is sent when the peer is made (`ipc/server.cpp:138`), before the camera has
  answered. A camera that never does stays "streaming" with the card on its stream and in its
  picture; `PictureFollows` is about a peer that is connected. The watchdog passes over a camera
  whose MQTT client is kept, connected or not, so that the last frame of a
  stopped snapshotter may stay as the picture of an absent camera; `PictureFollows` asks for
  attempts that go on.
- `offline-card.ts:12` speaks of publishing to MQTT; no caller passes `onFrameUpdate`.

Plugin:

- A close without an error ends the MQTT client for good (`mq.ts:102`), and so does a config
  that cannot be had after an error, although `plugin.ts:354` says "will retry."
- An earlier login's API still refreshes its token and writes it over the present one, or
  removes it (`plugin.ts:273`, `:279`).
- The debounce of an earlier login's accessory ends motion that the present one reported.

## 7. Not modelled

- **Cryptography and the P2P client** (`crypto`, `p2p`, `media/reassembler.cpp`): bytes without
  control; the session never starts the P2P client.
- **RTSP audio and silence** (`rtsp/server.cpp`): arithmetic on one timestamp per client, advanced by
  two threads under one lock. The H.264 feed, UDP ingest and request parsing of the same file are
  outside RtspFanout.
- **RTMP chunks, AMF and the pacing of a relay's queue** (`rtmp.service.ts`): a parser of bytes; Talkback
  begins where its commands and audio tags come out.
- **Ports and slugs** (`utils/ports.ts`, `utils/camera-slug.ts`): functions without state. A
  block of several ports is only tested at its ends against the forbidden ranges
  (`ports.ts:68`); the server asks for one port at a time.
- **Database entities, configuration, HTTP plumbing** and the **rest of the web UI**: rows,
  schemas and views without control of their own.
- **The plugin's older account login** (`cloud.ts`, `deprecated.ts`, `pulsar.ts`): it has no MQTT
  client; its requests are signed and sent. **The intercom** of `accessories/camera.ts` is
  one ffmpeg process that Scrypted starts and stops.
- **Deaths of the engine inside StreamRecovery**: they are in NativeEngine, Transcoder and Viewers;
  the supervision does not notice one, so that a composition would show only that.
- Commands of the engine for talkback audio, PTZ and its talkback socket.

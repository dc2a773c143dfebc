# scterm in TLA+

Specifications of scterm, the terminal and browser display for Android devices
(Go), and of its Android app's serving side (Kotlin): what its goroutines,
threads, timers and messages may do together, checked with TLC on small
instances and, where a theorem is listed, proved with TLAPS for every value of
the constants. Paths below are relative to the repository.

`PROJECT.json` is the machine-readable side of this file: the components, the
runs, for every property a mutation of the code it would catch, for every
definition the lines it translates, the findings, the hazards and the theorems.

## 1. The system

scterm connects to a device over adb (or, in peer mode, to the app on another
device over TLS), starts the scrcpy server there, and gets three sockets:
video, audio, control. Decoded video goes to the terminal or to browsers;
sound goes to PulseAudio and to browsers; keys, touches and text go back as
control messages.

| Component | State | Operations | Hard part |
|---|---|---|---|
| Video demux, frame pool (`stream.go`) | decoder, geometry, pool of buffers, waiting screenshot requests | read packet, decode, scale, deliver, answer shots, end | the one goroutine that owns the decoder must never wait for a consumer |
| Screenshots (`input.go`, `stream.go`) | requests, reply channels, read deadline, the shot in flight | press, request, wake, answer, time out, save | a read must be woken without losing the wake; late answers; the stream's end |
| Terminal display (`app.go`, `tui.go`, `notice.go`) | one-slot frame mailbox, pool, canvas, event queue, raw mode, notices | draw, resize, quit, panic | mailbox against pool, resize between two goroutines, a panic while painting |
| Browser display, frames (`web.go`) | per viewer a one-slot mailbox and token; per frame a counter | offer, take, release, close | one buffer shared by all viewers, returned once |
| Browser display, session (`web.go`, `window.go`, `webinput.go`, `app.go`) | viewers, stop flags, leave timer, listener, window, event queue | connect, leave, grace, quit, stop, start, exit | several stops at once, a stop during the start, a reload within the grace, full queue, deadlines that add up |
| JPEG encoder pool (`web.go`) | encoders per size, reader/writer barrier | encode, reap, free | freeing under an encode |
| Pointer input (`appkeys.go`, `input.go`, `webinput.go`) | pending move and its interval; in a browser session the command queue | press, move, release, flush, dispatch | a move after its release, a drag that never ends or never arrives, two goroutines in a browser session |
| Sound (`audio.go`, `audiofollow.go`, `audiobacklog.go`) | sink, gain, backlog windows | write, follow the default sink, skip, fail | when to skip; reopening while writing |
| PCM to browsers (`web.go`, `web/*.js`) | bounded queue, ring | push, drain | drop oldest |
| adb link (`link.go`, `adb.go`) | tunnel, server process | start, connect, stop | one failing step of several |
| Input parser (`input.go`) | partial sequence, deadlines | bytes, timeouts | a sequence cut anywhere |
| Overlays (`keyboard.go`, `menu.go`, `actionbar.go`) | what is open, the mouse's grab, the armed Quit, focus | open, close, replace, press | who gets a press or a drag; giving the grab back; a Quit armed too long |
| Self-update (`update.go`, `internal/release`) | files beside the program | fetch, verify, replace | a crash between steps |
| Peer client (`peer/`, `peermode.go`, `peercheck.go`, `peernearby.go`) | identity file, peer file, session's connections | pair, forget, connect, check, leave | several processes share two files; devices change addresses; two users answer in any order |
| Target sessions (`TargetServer.kt`, `SessionPolicy.kt`) | sessions, lease, what each holds down, backend | handshake, input, takeover, end, revoke, disconnect all | many threads; input after a takeover; stuck keys |
| Media fanout (`MediaFanout.kt`) | subscribers' queues, setup packets | publish, skip ahead, resume | never a frame whose reference was skipped |
| Pairing on the device (`TargetServer.kt`, `SessionPolicy.kt`) | one invitation, one nearby request, trusted identities | invite, prove, answer, refuse | single use; threads, a reader and a user at once |
| Android screens, capture and input backends; command line; doctor; vendored server | | | not modelled, see section 7 |

How they interact: `runVideo` calls the frame sinks (terminal mailbox,
`webServer.frame`) on its own goroutine; every viewer has a sender and a
receiver goroutine; the receivers queue commands for one dispatcher; the app
loop owns the terminal and consumes `app.events`, which signals, ticks, the
dispatcher and the leave timer feed; anything may stop the session. On the
device, a thread per control and media connection calls into `TargetServer`,
whose `lock`, `inputLock` and per-session monitors guard separate state, and
one admin thread runs what the local user asks for.

What makes the parts correct, in short:

- Frames: a buffer goes back to the pool once, when nobody reads it; the decoder
  waits for nobody; a viewer sees newer frames only, and in the end the newest.
- Screenshots: a request is answered once, or refused, and never left in a read
  that nothing wakes; one at a time.
- Terminal display: a frame that is pushed out goes back to the pool; nothing is
  drawn after the terminal has been given back.
- Session and window: every stop ends the process, tells every page the same
  reason, and leaves no window and no listener; a reload is not a leave.
- Encoders: none is freed while it encodes.
- Pointer and overlays: whole gestures, no finger left down, the newest position
  arrives; the mouse is left as it was found; Quit takes two presses in a row.
- Sound: a lasting delay is skipped, a glitch is not; a new default sink is
  followed while the writer writes.
- Input parser: the same keys however the bytes are cut.
- Link: what was set up on the device is removed again when a step fails; the
  three sockets are the server's three.
- Update: a program that runs is there after a crash at any step, and the one
  before it.
- Peer client: a record is of a pairing both sides made, and of the right device;
  every command ends and leaves nothing open.
- Target: only the lease's holder has input on the device, and what it pressed is
  released before the next one's; the lease ends with its session; no media
  outlives it; a backend in use runs.
- Fanout: what a viewer gets can be decoded; a slow one costs a bounded queue.
- Pairing: an invitation pairs one device; both users have agreed.

The hazards, each at its line with the properties that would catch it, are in
`PROJECT.json`.

## 2. Modules

| Module | Models | Actions |
|---|---|---|
| `SharedBuffers` | what frame sharing promises | holders change; the last one's leaving returns the buffer |
| `WebFrames` | `frame`, `offer`, `sendLoop`, `takeFrame`, `sendFrame`, `releaseFrame`, `closeWith` | one per critical section of `frameMu`/`clientsMu` and per release |
| `Screenshot` | `takeShot`, `requestShot`, `shotReader`, `answerShots`, `endShots`, `saveShot` | one per critical section of `shotMu`, per change of the deadline, per channel operation |
| `WebSession` | `handleWS`, `closeWith`, `leaveLater`, `quit`, `stopWith`, `run`, `startWindow`, `killWindow`, `quitWeb`, `runWeb` | one per critical section, atomic operation or blocking call |
| `StopDeadline` | the time `stopWith` takes, against `webStopWait` | phases and half-second ticks |
| `Link` | `session.start`, `connect`, `dialForward`, `stop`, adb's tunnels, and the server's connects | one per adb call, accept, dial, read and close |
| `Terminal` | `Link` with `app.run`, `loop`, `frame`, `onResize`, `runVideo`, `watchStreams`, `playAudio`, the tui's start, draw and stop, the notice board | one per channel operation, critical section or write to the terminal |
| `Backlog` | `audioBacklog`: what is dropped, as operators on its state | none of its own |
| `Sound` | `Backlog` with `openAudioSink`, `runAudio`, `writePCM16`, `close`, the follower | one per packet, call into the sound server, or pactl |
| `PointerInput` | `dragState`, `flushPendingMove`, `mouseEvent`, the overlays, `dispatch`, `applyControl` | terminal: one per event of the run loop; browser: one per critical section of `dragState.mu` and per message |
| `SelfUpdate` | `scterm update` of a release and of a checkout, `release.Download`, `replaceBinary` | one per question, file and rename |
| `Pairing` | `scterm pair` by code and nearby, `forget`; `handlePair`, `handlePairNearby`, `awaitNearbyAnswers`, `completePairing`; identity and peer files | one per message, critical section, answer or file |
| `Peer` | `Pairing` with `connectPeer`, `Client.Connect`, `Session`, `printPeers`, `Probe`, `UpdateExisting` | one per dial, answer and file; a session's goroutines |
| `TargetSessions` | `handleControl`, `obtainBackend`, `runControl`, `forward`, `takeover`, `end`, the admin thread, `handleMedia` | one per critical section of `lock`, `inputLock` or the session, per volatile read, per message written |
| `MediaFanout` | `MediaFanout` and its `Subscriber`, with `HelperBackend` and `ProjectionBackend` as its source | one per critical section of `lock`, per batch taken, per item of the source |
| `InputLease` | what a serving device promises about input | the lease passes with nothing held; press, let go |
| `FrameProofs`, `StopProofs`, `PointerInputProofs`, `SelfUpdateProofs`, `TargetProofs`, `TerminalProofs`, `PeerProofs`, `SoundProofs` | theorems about the modules they are named for; `FrameProofs` is about `WebFrames` and `Screenshot`, `StopProofs` about `WebSession` and `StopDeadline`, `TargetProofs` about `TargetSessions` and `MediaFanout` | |
| `MCStopDeadline`, `MCTargetSessions`, `MCTerminal`, `MCSound`, `MCPeer` | instances for TLC | |

`Terminal` EXTENDS `Link`, `Sound` EXTENDS `Backlog`, `Peer` EXTENDS `Pairing`:
each composes the two, the actions of the lower one becoming steps of the
upper one, with its own variables beside.

Where a program counter (`vpc`, `rpc`, `demux` ...) appears, its values name the
place between two such steps; the module says which. Locks are not variables:
what the code does under one lock is one step. Two steps of the code are joined
only where nothing another thread can see lies between them, and the comment on
the action says so. An operator marked as a mutant is no part of the model: it
is the mistake that `PROJECT.json` puts in the place of the one after it.

**Frames.** `refs[f]` is `videoFrame.refs`. A hold belongs to the sink
(`dpc # "idle"`), to a mailbox, to a sender, or to the offer that pushed the
frame out of a mailbox (`evicted`); `Holders(f)` collects them. A viewer that
connects again is a new viewer, as in the code.

**Screenshots.** The video goroutine reads (`vpc = "read"`), may be woken by the
deadline, takes the requests under `shotMu` and answers them one send at a
time. A press is one run of `takeShot` on the run loop, which the saver's
goroutine finishes. The timer is an action that may happen at any moment.

**Browser session.** The dispatcher and the app loop are the stoppers; both may
be in `stopWith`. `lastOut` is a ghost: the viewer whose leaving emptied the
list. `Cap` is the room in `app.events` (256 in the code, 1 here: a full queue
is what matters). `StopDeadline` drops the steps that take no time and keeps
the calls that wait: `Shutdown`, the closes (all at once), the window's grace. Its run
has the code's limits.

**Link.** `step` is the place in `start`, `connect` and `stop`. `host[k]` is what
the session's socket `k` leads to, which the program cannot see and
`SocketsPaired` can. Both sides go through the sockets that are wanted in one order,
`Rank`; which are next is read off what is open (`Opening`) and what has joined
(`Joining`). In forward mode adb accepts a dial before the server
listens, and hangs up later. The server (`ServerConnects`, `ServerListens`,
`ServerAccepts`), its death and the device's are external: they are modelled
from what `link.go` relies on.

**Terminal.** `events` is `app.events` and `senders` the goroutines that wait for
room in it. A buffer is the terminal size it was made for, the geometry of the
frame in it, and whether it shows an older one beside that (`mixed`): pixels
are not modelled, what they belong to is. `old` is a ghost: the buffer was out
when `resetPool` dropped the rest. The painter's write is a step of its own
(`loop = "write"`), since a resize, a panic and the demuxer go on under it. A
write to a sink that the user has suspended keeps the sink's lock (`held`), and the way
out waits for that lock (`Shutdown`). `kept` counts the replay's lines, `ReplayMax` of
which stay (`noticeReplayMax`, 64 in the code, 1 here); a repeat and a notice about a
paste add none.
`MaxSurprises` bounds what comes from outside in one run, all kinds together.

**Sound.** A packet is the unit of time. `Backlog` is `skip` with its windows,
swings and stalls, each an operator; the segment lasts 2 packets, the window 2
segments, and so on, where the code has milliseconds. `steady` and `recent` are
ghosts for the properties. The sink's lock is held exactly in
`demux = "writing"`, which a suspended sink keeps it in.

**Update.** A file's content is a version, `Bad`, `Part` or `None`. `previous` is a
ghost: what the last swap replaced, if no other update overlapped it. The
signals that the command catches set `signal`; those it does not, and SIGKILL,
are `Kill`, at any place. Updates of a checkout share one file, `exe.new`
(`exeNew`), and nothing keeps them apart: `output` says which file each `go build`
writes, which is the program's own once another update has renamed it, and
`orphans` whose build outlives the update. `clash` is a ghost: a build has begun while
another update was building, checking or installing that file.

**Pairing and peer.** A command is a process; `Home` says on which computer, whose
`identity.pem` (`identity`) and `peers.json` (`store`) all its processes share.
A place is an address; `at` and `other` say which device has it now. `line[p]`
says who still holds the connection's ends, `up` and `down` what is under way;
what has been written can be read after the writer hung up, as in TCP.
`proven`, `met`, `admitted`, `accepted` are ghosts: where the device itself
has been met, whom a session's connections reached, whose pairing the device
recorded, which requests its user accepted. The device's side of a pairing is
a thread (`server`), the thread that reads the other user's confirmation
(`reader`), its queue of answers and its user. Keys, nonces and commitments are
left out: a proof succeeds if the code typed is the invitation's.

**Target.** `epc` is where a session's `end` is, run by whoever set
`Session.ended` first; `acur` is the session the admin thread is ending. `down`
is what is pressed on the device, `tracker` what `InputTracker` has noted.
`told` is the last lease message each controller got. Backends are numbered;
`offered` is the one `TargetService`'s provider hands out, whoever asks.

**Fanout.** `sub[v]` is the connection's `Subscriber`: the header `begin` set,
the queue, whether it waits for a keyframe. Two ghosts follow the viewer's
decoder: `seen` after all that its `pump` has taken, `ahead` after all that is
queued besides. What is put in the queue is decoded into `ahead`, a cut back
starts `ahead` again from `seen`, a take makes `ahead` what was seen; a sound
packet that is shed has been counted, which asks more than the queue does. A packet carries
the start, the session and a number modulo `Cycle`. Bytes and clocks become `MaxQueue` packets and a free choice of
how many are too old. `onStart` and `reset` collect the viewers to close under
the lock and close them after it: `closing`. `late` is a source's thread that
has passed `Sink.current()` before a reset and delivers after it. A new source
starts only after the end of the old one is over: a person, or an activation by
adb, stands between.

**Pointer.** `drag` is `app.drag`, its clock reduced to `due` (the interval is
over); `flush` is the place in `flushPendingMove`, `hand` the message of
`applyControl` still to be written. `finger` is what the device has made of the
messages so far, `stray` the kinds of message that came when it made no sense of
them. `ui` holds the overlays, the grab and the armed Quit; each operation on
them is an operator on `ui`, so that an action composes those the code calls.
A position is `"bottom"` where an open keyboard or the bar covers the video;
which key, row or button a click hits there is a free choice. `lost` marks the
drags whose release never reaches this code, or reaches it when it passes
releases over (see section 4).

## 3. Runs

| Run | Instance | Shows |
|---|---|---|
| `web_frames` | 2 viewers, 3 frames | the decoder can always go on; no viewer goes back in time; `SharedBuffers` is implemented (a buffer is returned once, when its last holder lets go); no frame is stranded in a mailbox |
| `screenshot` | 3 presses | every request is answered once (`EveryRequestAnswered`: none stranded in a read, none answered twice, none after the end); one shot at a time; every shot finishes, with no help from a further frame, the stream's end or the timer |
| `web_session` | 2 viewers, `--window`, room for 1 event | a stop is complete (`StopIsComplete`: every page told the first stop's reason, no window, no listener); the grace is honoured; any stop ends the process; a closed window ends the session |
| `stop_deadline` | 3 viewers, the code's limits in half seconds | **violation**: the process exits while the window is still being closed |
| `session` | terminal with 3 sockets, terminal with sound only, headless; 2 sizes of terminal and picture, room for 1 event, 2 surprises | nothing stays on the device or here; the sockets are the right ones; the terminal is given back, with the notices that the replay keeps; the geometry settles; no stale pixels; a run ends |
| `sound` | 2 servers, 2 sinks; 18 packets with 2 stalls or changes, or 2 packets with up to 3 of every kind, in 6 starts | sound trails by no more than margin and cushion; a drop takes only what had stayed; no stream freed under a write; the stream and the follower end; the sound follows the user |
| `pointer_input` | terminal (in Zellij or not) or browser with 2 pages, 1 command of queue | whole gestures in order; no finger stays down; the overlays keep track of the grab and of an armed Quit; a drag arrives where the pointer is |
| `self_update` | 2 updates, 3 releases, release build or checkout | a program that runs (in a checkout until two builds meet in `exe.new`); nothing unnamed left; the version before to go back to |
| `peer` | 3 commands on 2 computers in 8 combinations, 2 places, 1 invitation, 2 failures, 1 surprise | pairings both sides agreed on; codes used once; the right device; nothing left open; every command ends |
| `nearby_crowd` | 3 nearby pairings, no surprise | **violation**: two requests on the screen |
| `target_sessions` | 2 controllers, 1 key, 2 helpers, 1 task from outside | nothing stays pressed, no media connection outlives its session |
| `media_fanout` | 2 viewers, video or sound, 2 starts, 2 sessions, 1 packet within the budget | all a viewer is sent can be decoded; a stuck viewer's queue is bounded; one that waits for a keyframe gets it |

**Why the bounds suffice.** Frames: the hazards need one frame in a mailbox,
one in a sender and one being handed out, hence three; viewers interact only
through the counter and the list, so two show every pair, and the theorems
cover the rest. Screenshots: one being saved, one registered and one to be
refused. Browser session: two viewers give a reload (leave, connect) and a
second one who stays. Target: the lease has two sides; a takeover, an end and a
handshake can each meet another session's; one key suffices, since
`NothingStuck` speaks of each key by itself; the second helper exists so that
the first can die. A disconnection by the local user and a helper's death count
against one bound (`MaxTasks`): both end sessions from the admin thread.

Fanout: the hazards need one viewer that lags and another that does not, a
second start under the first one's viewers, a second session, and a gap of one
packet, which numbers modulo 2 show. Pointer: two pages are needed for two
gestures at once; a queue with room for one is full as easily as can be, and the
drag coalescer sees no more than the newest command.

Session: each hazard is one event from outside meeting another (a resize and a
rotation, a panic and a notice, the device's loss and a quit), hence two
surprises; two sizes are a small one and a larger one, between which a pooled
buffer can or cannot be used; a queue with room for one is full after one tick.
Sound: 18 packets hold the first window (5), a stall and its catching up, a
second window and the memory of a burst (4), which is what `LagBounded` needs
to come true again; short sessions suffice for the end and the follower, which
do not depend on how long it played. Update: two updates overlap, and three
versions tell a downgrade from a return. Peer: two processes of one computer
share files, a third is a stranger; two addresses can be exchanged; two
failures close an invitation, and the first does not.

**Fairness.** Weak fairness of a goroutine's steps says that Go runs what can
run; it is assumed of the demux goroutine while it hands out a frame, of
senders and closes that have begun (their socket writes end by
`wsWriteTimeout` or the close's deadline, `websocket.go`), of savers, stoppers
and timers, of the link's steps (each adb command has a timeout), of the run
loop and the restorer, of commands and of the device's threads. It is not
assumed of frames, presses, packets, users or the network. Strong fairness is
assumed where Go, or time, gives it: a send that waits for room in `app.events`
(`quit`), because Go serves a channel's waiting senders in turn; the cases of
the run loop's select, which picks at random among the ready ones; the close of
a sink, whose mutex is served in turn; pactl's answers, which do not fail for
ever. In the fanout the source keeps sending while it runs (scrcpy repeats a
still picture's frame), answers a keyframe request, and closes whom it must;
the interval between requests passes; no viewer's thread need ever run. In
`pointer_input` time passes and the run loop gets its ticks: they are sent to
its queue by a send that waits for room. `ShotFinishes` does without `shotWait`
and without another frame on purpose. In `peer` every wait with a timeout in
the code ends (`Decide`, `Left`, the dials), and no user need answer.

## 4. Findings and remarks on the code

`nearby_crowd`: `handlePairNearby` frees the nearby flag of the invitation twice,
before its reply and in its `finally` (`TargetServer.kt:455`, `:478`), so that the
second can free what another request has taken, and two requests are on the
screen at once; the field's comment (`TargetServer.kt:145`) says one at a time.

`stop_deadline`: a later `stopWith` waits 5 s (`webStopWait`) and then returns; the
first may take 2 s in `Shutdown` (`web.go:686`), 2 s in the closes and 1.5 s for the
window. The comment at `web.go:670` promises that the loop does not exit meanwhile;
the one on `webStopWait` (`web.go:657`) does not count `Shutdown`. What scterm does
not cut short are the byes (`ByesBeforeExit`, section 5): it is the window that
can outlive it.

The following were met while modelling. Those marked with a property have a
definition in the named module which is not true of the model: TLC, given it in
place of the run's properties, shows how.

- `TargetSessions.BackendInUseRuns`: of two first handshakes at once the loser
  stops the backend that both were given (`TargetServer.kt:628`).
- `TargetSessions.EndedHoldsNoLease`: a session that was ended during its
  handshake takes the lease, and nobody gives it up (`TargetServer.kt:580`).
- `TargetSessions.ToldTheTruth`: lease messages are sent after the lock and
  overtake each other (`TargetServer.kt:606`). One can also precede the welcome: a
  session is listed (`:573`) before its welcome is written, without `writeLock`
  (`:583`).
- `PointerInput.NoMoveAfterRelease`: in a browser session `flushPendingMove` looks
  at `isDown` and sends in two steps, and the dispatcher's release fits between
  (`appkeys.go:290`), which `webinput.go:89` and `appkeys.go:202` say cannot be.
- A drag's release that arrives with the menu open, the mouse ungrabbed, or Ctrl
  or Alt held is not passed on (`input.go:1207`, `:1248`, `:1252`), and a page
  that is closed in the middle of a drag sends none: the finger stays down until
  the next press lifts it. `NoFingerLeft` excepts these (`lost`), and nothing
  else.
- `webInbox`'s comment (`webinput.go:35-37`) says overflow drops the oldest;
  `dispatch` drops the newest (`webinput.go:50`), as modelled.
- A late packet that arrives between `reset` and the closes that follow it can
  cut a viewer back to a setup that has been forgotten; the viewer is closed
  next, and `Decodable` excepts it (`closing`).
- Toggling the grab twice while an overlay holds an automatic grab leaves the
  automatic one in force, and closing the overlay undoes the user's choice;
  `OverlaysRestoreGrab` speaks of sessions in which the user has not toggled.
- Alt+Q, and Quit of the overlays, send `evQuit` from the run loop into the queue
  that only the run loop empties (`appkeys.go:85`, `keyboard.go:418`,
  `menu.go:105`). With 256 events waiting it would stay there; the browser's
  quit uses a select for this (`webinput.go:327`). `RunEnds` excepts it
  (`SelfWait`).
- Buffers that are in the mailbox or being painted when `resetPool` runs go back to
  the new pool later, with the old picture's pixels in what are now black bars,
  if the terminal's size is still enough: contrary to `stream.go:312-314` and
  `:484-487`. `BlackBars` excepts those (`old`).
- A resize between `newTUI` and `signal.Notify` is not noticed until the next one;
  `Arrive` begins later. With `--video=false`, once the device itself has turned
  the sound off, the session does not notice the device's loss; `RunEnds`
  starts from a stream on show.
- `main`'s shutdown (`main.go:146`, `app.go:1065`) closes the sink, whose lock a write
  holds that waits for a suspended sink (`audio.go:617`): the process then does not
  exit until the sink resumes, contrary to the comment in `sct_audio_close`.
  `SoundEnds` excepts it (`Stuck`), and `RunEnds` a sink that stays so (`[]held`).
- With several streams of scterm, one move that fails beside one that works is
  not tried again (`audiofollow.go:83-88`); `Sound` has one stream. With a default
  sink that is no sound card, the stream opens on a card (`audio.go:369-370`) and
  the follower's first tick moves it to that default.
- Two updates that overlap can leave in `.old` another version than the message
  says (`update.go:473`), and one that started earlier can downgrade one that
  overtook it; `WayBack` excepts the overlap, while for a release `Runnable` and
  `Tidy` except nothing. A signal between the last look at it and the final print leaves a
  staged file without naming it.
- Updates of a checkout that overlap share `exe.new` (`update.go:537`): one build can
  write it after another update's `checkRuns` and before its rename
  (`update.go:542-546`), which then installs a part; the build writes on in the program's own
  file, and a build that fails leaves the part there. `Runnable` excepts such
  updates (`clash`); without that part it is not true of the model.
- Two processes that change `peers.json` at once each load, change and rename
  (`store.go:60`, whose mutex is a process's own): a forgotten device can come
  back with another command's update, and of two pairings with different
  devices one can be lost (the model has one device). A process killed in the
  rename leaves a `.peers.json.*` file.
- Two first commands of a computer each create an identity (`identity.go:62-79`);
  the file keeps one, and a pairing under the other is not accepted later.
  `BothAgreed` excepts that (`TwoIdentities`).
- A "paired" that is lost on the way leaves a device that trusts a computer
  without a record of it; the reverse cannot be, which is what `BothAgreed` says.
- An invitation that a code has redeemed still admits the nearby request that was
  pending (`README.md:390` says an invitation works once; `TargetServer.kt:458` says
  that this is meant). `CodeWorksOnce` speaks of codes.

## 5. Proofs

Each proof module EXTENDS the module it is about and is laid out alike: an
inductive invariant as a conjunction of named parts, `Init => IInv`, one step
per action, and for each property `IInv => Property`, joined by PTL.

- `FrameProofs`, about what becomes of a decoded frame in a browser display and
  in a screenshot. (`Screenshot` names its specification `ShotSpec`, its types
  `ShotTypeOK` and so on, so that one module can extend both.) For `WebFrames`,
  from `ViewersFinite` and `MaxFrameNat`, the invariant says
  that `refs[f]` is the cardinality of `Holders(f)` and `returned[f]` is 1
  exactly for handed-out frames without holders; for this to be inductive it
  also says which frames the demux goroutine and the mailboxes can hold at each
  place, that an emptied mailbox is empty, and that only a closed viewer is
  being closed. Each action moves, adds or removes at most two holders, so the
  lemmas on the cardinality of a set with one element more or less carry the
  arithmetic. From the same invariant: `RefinesSharedBuffers`, the refinement
  mapping being `Holders` and the set of returned frames. `NeverGoesBackCorrect`
  adds `Order`: a mailbox is ahead of its sender, and a viewer still to be offered
  the frame being handed out has neither it nor a newer one.
  For `Screenshot`, from its named assumptions, the invariant ties the deadline, the place of the video goroutine and the requests together
  (`VideoInv`, `ReqInv`): a request whose press has returned is either about to
  be found or has a deadline that nobody will clear before looking.
  `EveryRequestAnsweredCorrect` joins its three consequences.
- `StopProofs`, about both specifications of a stop. For
  `WebSession`, from its three assumptions: `OneStop`, only the caller whose Swap
  set `closing` works; `PageOf`, once it has taken its list every open page is on
  that list until it has called `closeWith` on it, and a page it closes has got the
  stop's reason when it is gone (so `StopIsComplete` needs to know where the list,
  the pages and the byes are long before the stop has finished); `Shut`, a server
  that `run` has started is known to the stop or closed, which is what makes
  "whichever comes second closes the listener" inductive; `Grace`, the current
  leave timer is of the viewer whose leaving emptied the list, and the list is
  still empty. For `StopDeadline`, if `LimitsAreTimes`: a later
  stop has waited no longer than the phases gone by may have taken, and the viewers
  left are on the list only while they are being closed. So, if `ByesFit`, that
  `Shutdown` and the closes add up to less than the wait (2 + 2 s of 5 s in the code),
  scterm exits with the byes written (`ByesBeforeExitCorrect`); `ExitAfterStop`, which
  asks the same of the window, is what the run refutes. `LimitsAreTimes` and
  `ByesFit` are hypotheses of the theorems; the constants of the run, which are the
  code's, satisfy both, and TLC finds no error in `ByesBeforeExit` with them.
- `PointerInputProofs`, from `MaxQueuePositive` and `NoneIsNoPlace`. Three
  invariants. `OverlayInv`: an open overlay has the mouse and has taken it for
  itself exactly in Zellij, unless the user has toggled the grab; each operation
  on `ui` keeps that by a lemma of its own, so that an action is the lemmas of
  what it calls. `GestureInv`: in the terminal nothing comes between
  `flushPendingMove`'s look and its message, which is what makes `Gestures`
  inductive there (and would fail in a browser session, section 4).
  `FingerInv`: every press in the browser's queue, not only the one the device
  has seen, is still held, lost, or followed by a release.
  `OverlaysKeepTrackCorrect` is the temporal property itself, an invariant and an
  action property.
- `SelfUpdateProofs`, from `SelfUpdateAssumption`: `AlwaysRunnable`, `AlwaysTidy`,
  `AlwaysWayBack`. `Runnable` is not inductive, since the swap installs `next` and
  the keep installs `saved`; `Whole` says at which places these are whole. A checkout's
  update installs `exe.new` as it finds it: `Alone` says that, as long as no two have
  clashed, one update at most builds, checks or installs that file, that no build
  writes the program's own, and that what is about to be renamed is whole or
  gone; `Modes` which places belong to which kind of update. `Kinds` sorts the steps
  by the files that they touch. `Tidied` says at which places an update has no file, or only
  one it will name. `WayInv`: while there is a version to go back to, either it
  is `exe.old` and no update is about to rename its copy over it, or one update
  past its swap has it and is the only one that may rename.
- `TargetProofs`, from the assumptions of `TargetSessions`. `NothingStuck` needs
  `DeadHoldsNothing`: a step that releases sends to the backend in use, so that
  what is down must go when that one is stopped, replaced or dies; the two are
  inductive together (`LeaseInv`). `MediaClosed` says of `NoOrphanMedia` already
  what holds once the sockets are closed, while the end still tells the others;
  each of the two orders of a media connection's last check and the session's
  end keeps it. `RefinesInputLease` maps the lease's holder and what is down on
  the device: `LeaseStep` shows of every step that it keeps `LeaseInv` and is a
  step of `InputLease`. No run has `LeaseKept`, which comes from the same
  invariant as `NothingStuck`; TLC finds no error in it on the run's instance.
  From those of `MediaFanout`: a queue with an item more has at most a packet more
  (`AppendPackets`), and of the queue of a sound viewer there is a least number of
  packets to shed (`ShedEnds`), the rest being a queue with room for one
  (`ShedLeaves`; the indices left are counted through by an injection that has as
  many values as arguments, `NthOf`); with `SetupOnly`, that a session and a codec
  config are no packets, this makes `WithinBudget` inductive. `Decodable` needs
  three parts. `SourceTidy`: the fanout has a header only while its source runs, and
  it is that start's; a viewer whom the next start will begin has been sent nothing.
  `StreamTidy`: the setup that is kept is that of the running capture, and is
  there before `next` comes to what depends on it, also when a pause has
  forgotten it. `Follows`: a viewer's decoder has all of the setup that is kept,
  and the packet before the next unless it waits, which it does while a source
  replays its setup without a keyframe. A cut back viewer follows because the setup
  fits what it has seen (`SetupFits`), whatever that was.
- `TerminalProofs`, from `TerminalAssumption`, for the link and the display at once.
  `LoopRuns` joins them: the loop runs only on a link that is up, so every step
  is one of the link's or leaves it alone (`LinkOrNot`). `Places` says what is set
  up at each `step`, and gives `NothingLeftBehind`. `Pairs`, for `SocketsPaired`,
  says how the open sockets, the joined ones and the queue fit together: each is
  a leading part of the wanted ones in `Rank`'s order, and the queue holds, in that
  order, the difference of two of them, so that its head is the socket that the
  other side is about to take (`HeadOfLine`, `NextSocket`); the first dial through
  adb forward is apart until its dummy byte has come (`trying`). `ScreenInv`: the
  restorer, wherever it is started from, is done before the loop has left or
  the process has died. `SizesInv`: a resize that the loop has not seen is in its
  queue or waits for room there, and one the demuxer has not seen has left
  `dirty`. `BuffersInv`: every buffer in the pool shows the current geometry and
  nothing else, or is `old`; the ones outside are too, so that they may come back.
- `PeerProofs`, from `PairingAssumption`, for any commands on any computers. `BothAgreed`
  needs to know whose turn it is on a connection (`Turn`): the device's reader takes
  the next message for the user's confirmation, and it is one because until the
  codes are shown a computer has sent at most its nonce, and the device has read it.
  With that, `Consent` follows an answer from the user who gave it through the
  message, the queue and `Outcome` to the record, and back through "paired" to the
  computer's file. `NameInv` says under which identity, and that it is the computer's
  unless two first commands made one each. `CodeInv` counts an invitation's code as
  used from the critical section that accepts it. `MetInv` says at which places a
  process has a goal where the device proved itself, and that those of a failed
  connection are forgotten; `SocketInv` at which none is open. A lemma for each kind
  of step says what it leaves alone (`PairAlone`, `SessionAlone`, `DeviceAlone`,
  `Others`), so that a step is looked at only for the process that takes it.
- `SoundProofs`, from `BacklogAssumption` and `SoundAssumption`, for any segment,
  number of segments in a window, margin, step, burst and memory. `Tiled`: the spans
  of the window and the one being filled follow each other without a gap, each
  a `Segment` long, and no sample is lower than its span's low point, so
  that a drop taken from the low points takes only what every sample had
  (`DropOnlyStayedCorrect`). `Falling`: since something last came between, the
  queue has not grown, so a span that began after that has a low point no lower
  than the queue is now, and swings no further than the fall that the device's
  last packets cause. `Remembered`: a remembered window either reaches back
  to before what came between, or swung by no more than that fall. `Lags`
  joins them: a queue over the bound has not been seen by a check that knows only
  steady sound, or is about to be dropped; it says after how many packets the next
  such check comes, whichever of the three places of a window the algorithm is at
  and with or without a burst remembered. That two windows and a segment of
  steady sound are enough, and what remembering adds, comes out of it
  (`LagBoundedCorrect`). The smallest and the largest element of a set of
  numbers exist by well-founded induction (`LeastOf`). `StreamSafeCorrect` needs
  only the places of the demuxer and the close.

`TypeOK` of these modules is proved or a part of the invariant, and not repeated
by the runs. Out of the prover's reach and model-checked only: liveness
(`NewestArrives`, `ShotFinishes`, `StopEnds`, `WindowEnds`, `KeyFrameComes`,
`DragArrives`, `RunEnds`, `SoundEnds`, `Follows`, `CommandsEnd`) and `ENABLED`
(`DemuxNeverWaits`, that the demuxer has a step in every state in which it holds
a frame, whatever the mailboxes hold and wherever the viewers have stalled). What
recursive algorithms compute for every input would need induction over data,
which the installed provers cannot instantiate. For the same reason `ahead` is
kept step by step and not computed from the queue by a fold.

## 6. Plan

All the modules planned are written, and every safety property of the runs is
stated by a theorem but `DemuxNeverWaits`. A change of the code is followed up
in the definition that `map` gives for its lines, checked by the run of that
module, and then proved again: a step of an invariant's proof is one action.

## 7. Not modelled

Byte formats (control messages, websocket frames, H.264), pixels, colours,
layout, wording, logging: sequential code with golden tests. The input parser
is such code too: one reader, a table of sequences, two deadlines; what its
events do is modelled. The JPEG encoder pool and the PCM queue are each one
mutex around one structure. The HTTP pages, the command line, completion, the
doctor, licenses. The browser's choice and profile. mDNS packets and the
arithmetic of codes and commitments. On the Android side the controller client
(the same protocol as `Peer`, written once more), the screens, MediaCodec,
accessibility and Shizuku: platform behaviour that could only be invented here.
The vendored scrcpy server, beyond what `Link` needs of it.

# zerod, modelled in TLA+

zerod is a daemon for a headless audio box (a Raspberry Pi, usually). It plays
HLS, DASH and Spotify streams into ALSA, cpal, a pipe or stdout, drives snapserver
over its JSON-RPC port, pairs Bluetooth phones, edits a few registered config
files, starts and stops a list of systemd units, and reports all of it over one
gRPC server and one event stream. This directory holds the specifications kept
beside the code: what each part does as TLA+ actions, what it must never do as
properties, model-checking runs, and proofs.

## The system

| Component | State it keeps | Operations | What is hard | Status |
|---|---|---|---|---|
| Stream player (`crates/stream/src/player.rs`, `sources/librespot.rs`) | the `PLAYER` slot behind a mutex; per player: state, paused, stop flag, last error, join handle, sink | Play, SpotifyStart, Pause, Resume, Stop, SpotifyStop, Status; one driver task per player | handlers act on a task that runs on another thread; an abort lands only at an await; the slot's mutex is held while a sink is closed | modelled |
| Live playback and segment cache (`player.rs`, `fetcher.rs`) | the deque of known segments, the next sequence number, the pending fetch; the cache's map and FIFO order | main loop, refresher task, fetch tasks, prefetch tasks | all share the deque and the cache; it is trimmed, refreshes fail; get and put are two critical sections around a download | modelled |
| Manifests, demux and decoder (`manifest.rs`, `demux.rs`, `decoder.rs`) | the parameters of the current decoder | which segments there are, parse, decode | numeric edges of the live window; a format that changes within a stream | partly |
| ALSA sink (`alsa_sink.rs`) | a bounded channel, a writer thread, the PCM | set_format, write, close | a full channel, formats that are dropped or cannot be opened, a stalled device, two closers | modelled |
| Pipe sink (`output.rs`) | the FIFO's file behind a mutex | write, reopen, close | a reader that goes away in the middle of a chunk | modelled |
| cpal sink (`cpal_sink.rs`) | a ring, the rate and the channels as atomics, the resampler | set_format, write, close; the audio callback | a callback that waits for samples while a writer waits for room; parts of frames | modelled |
| Event bus (`crates/events`, `server/src/events.rs`) | a broadcast ring of 512, one cursor per subscriber | publish, subscribe, filter | a slow subscriber is overtaken | modelled |
| Snapcast client (`crates/snapcast`) | the command queue, the connection, pending calls by id | call_raw, supervisor, run_connection, notifications | disconnects with calls in flight, backoff, cancelled callers | partly |
| Pairing agent (`crates/bluetooth/src/agent.rs`) | pending prompts by address, agent handle | RequestConfirmation, RespondPairing, stop | a timeout races an answer and a newer prompt | modelled |
| Bluetooth devices (`crates/bluetooth/src/lib.rs`) | none of its own; BlueZ's | scan, list, pair, connect, disconnect, remove | each is several awaits, between which the device comes and goes; a pairing waits for the daemon's own agent | modelled |
| A2DP toggle (`server/src/bluetooth.rs`) | adapter discoverable, unit active | A2dpEnable, A2dpDisable, SetDiscoverable | any of their steps may fail | modelled |
| Config files (`crates/config`, `server/src/config.rs`) | the files and the shared temporary file | PutConfig, GetConfig, apply_action | two writers, a crash, a failure after the write | modelled |
| systemd units (`crates/systemd`) | the allowlist | Start, Stop, Restart, Reload, Enable, Disable, Status, List | a job is queued and runs later; the status is read again after the call and published | modelled |
| Volume and gain (`crates/volume`, `player.rs`) | the mixer; `GLOBAL_VOLUME` | list, get, set, mute; scaling of samples | percents and hardware steps are converted with truncation; others move the mixer | modelled |
| Server, settings and authentication (`crates/server`) | the bearer token, the settings | load_settings, serve, the interceptor | where the token comes from after a restart; a service without the interceptor | partly |
| Discovery (`crates/discovery`) | the mDNS records of a process | advertise, discover, best_host | records outlive their process and its address, and list addresses of no use | partly |
| Command line and installer (`src/main.rs`, `service.rs`) | the unit file | every client command; install, uninstall | which server a command reaches, with which token | modelled |
| Generated protocol (`crates/proto`) | none | messages and dispatch | | not modelled |

The gRPC handlers run concurrently on the server's runtime and call the crates; the
player's tasks run on a two-thread runtime of their own; the ALSA writer is an OS
thread fed by a bounded channel, the cpal callback one of the sound system; every
crate publishes into the event bus, which never blocks a publisher.

Components talk over four kinds of seam. Calls: `PutConfig` calls systemd,
`A2dpEnable` calls systemd and then BlueZ, `Pair` calls BlueZ, which calls the pairing
agent. Shared state: the `PLAYER` slot between handlers and tasks, the pairing map
between BlueZ's callbacks and clients, the known segments between three tasks.
Messages: the sink's channel, the snapserver connection, the event bus. Callbacks:
BlueZ's agent, the audio device.

## Modules

A module is one component; an action is one access to shared state where threads
interleave, one await where tasks do. `PROJECT.json` gives for every definition the
lines of the source it stands for. A definition marked `\* mutant` is the one below
it with a plausible bug put in; no specification uses it, and `PROJECT.json` names
the property it breaks.

| Module | Models | Composed by |
|---|---|---|
| `Singleton` | what the player slot promises: one current player, every replaced one retired | refined by `Player` |
| `Player` | the slot, its mutex, the handlers, the driver tasks of HLS, DASH and Spotify players | `MCPlayer` |
| `PlayerProofs` | theorems about `Player` | |
| `LiveStream` | what the driver task does inside: main loop, fetch, prefetch and refresh tasks, the cache, the playlists | `MCLiveStream` |
| `LiveStreamProofs` | theorems about `LiveStream` | |
| `AlsaSink` | the bounded channel, the writer thread, `set_format`, `write` and `close` | `MCSinks` |
| `PipeSink` | the FIFO, its readers, the reopen after a broken pipe | `MCSinks` |
| `CpalSink` | the ring between `write` and the audio callback, priming, frames, `close` | `MCSinks` |
| `MCSinks` | the choice of a sink, and the three of them | |
| `SinksProofs` | theorems about `MCSinks` and the three sinks | |
| `PairingAgent` | the prompts, the map of senders, the calls that resolve them | `Bluetooth`, `MCPairingAgent` |
| `Calls` | handlers that await one thing after another, as scripts of steps | `Bluetooth`, `Units`, `Mixer` |
| `CallsProofs` | lemmas about scripts and calls that `HostProofs` and `BluetoothProofs` share | |
| `Bluetooth` | the device calls, with the agent they meet | `MCBluetooth` |
| `BluetoothProofs` | theorems about `PairingAgent` and `Bluetooth` | |
| `AtomicFile` | what a managed file promises: a register that takes a whole content or none | refined by `ConfigStore` |
| `ConfigStore` | the five file operations of `atomic_write`, inodes, a reader | `PutConfig`, `MCConfigStore` |
| `Units` | the operations on systemd units, the jobs that systemd queues | `PutConfig` |
| `PutConfig` | a write and the reload or restart that follows it | `Host` |
| `Mixer` | the calls on mixer elements, percents and raw volumes, the stream's gain | `Host` |
| `Host` | the above, A2DP and the adapter: all calls that act on the machine | `MCHost` |
| `HostProofs` | theorems about `Host` and what it composes | |
| `EventBus` | the ring, the subscriptions and their filters | `Services` |
| `Snapcast` | callers, the supervisor, one connection at a time, the server behind it | `Services` |
| `Services` | the bus and the client together: notifications become events | `MCServices` |
| `Access` | settings, tokens, the installer, restarts, mDNS and the client commands | `MCServices` |
| `AccessProofs` | theorems about `Access` | |
| `ServicesProofs` | theorems about `Snapcast`, `EventBus`, `Services` and the composition `MCServices` | |

**Player.** `slot` is `PLAYER`, `lock` its mutex where a handler holds it over
several steps (`install`, `stop`), the functions `state`, `paused`, `stopFlag`,
`err`, `attached` are the fields of each `Player`, `pc` is the task's program point
and `rpc` the handler's. `Play` to `Put` are `play` or `spotify_start` and `install`, in
the order of the code: the task is spawned first, the handle stored second, the
slot locked third, the old player cancelled (`CancelFlag`, `CancelClose`,
`CancelAbort`) fourth. `abort` takes a task only at the points in `Awaits`.
`Reopens` says that the sink is a pipe, whose `write` opens it again after a `close`.
`muted` and `late` are history variables that count writes.

**LiveStream.** Segments are sequence numbers. `known` is the deque, `cache` the
insertion order of the cache's map, `fetch` the pending fetch of the main loop and
`prefetches` the tasks it and the refresher have spawned. The origin slides its
playlist as it likes (`Publish`). `kind` tells a recorded stream, a live one, a live
one played from its master playlist and a live DASH one apart; the last names no
segments, they are computed from the clock (`ParseDash`, `LiveHead`), and one may be
asked for that is not there (`Absent`). Without an `availabilityStartTime` ("undated")
its head stays at `startNumber`, so that the stream waits after its first segment.
A segment may decode to nothing, or fail to; the codec's parameters are left out.

**AlsaSink, PipeSink, CpalSink.** The task's `write` and a `close` by two threads (the
task's own end, and a handler's cancel) run against the writer thread, against readers
that come and go, or against the audio callback. `Recv`, `Open`, `WriteDevice`, `Lose`
and `Drain` are the branches of `run_writer`. `SetFormat` drops the format when the channel
is full (`try_send`); `told` remembers whether it did, and `heard` in which format each chunk
was played. A chunk of the pipe is two halves, so
that a reader may leave in the middle of one. Samples of the ring are numbered, so the
ring is what lies between `written` and `read`; a callback that is running (`callback`
is its number of channels) keeps the stream from being dropped.

**PairingAgent, Bluetooth.** A sender is in `pending`, in somebody's `hand` between the
removal from the map and the send, used or dropped; `mail` is what its channel holds.
`pairing` is the prompt a caller's `device.pair()` waits for.

**Calls, Units, Mixer, Host.** A handler is the sequence of the steps it has still to
make, `call[c].todo`; each step says what becomes of the call when it fails: a status
with which the call ends, or the name of a block that the code gives up as a whole and
goes on behind (a logged error, an `if let Ok`; each unit of `list` is such a block). So
the text of `A2dpEnable` is
`a2dp_enable` read from top to bottom. `saw` is what the call has read for the event it
will publish, `since` what was so since it changed its subject. systemd answers a job
request when the job is queued, and runs it later (`RunJob`). `level` is the raw volume
of an element, `Knob` is somebody else who moves it.

**ConfigStore, PutConfig.** The directory holds two names, `target` and `tmp`; an open
file follows its inode. A content is two blocks, so a file can be half written. `mode`
tells a file's own mode from 0o644, from the temporary file's and from no file at all;
`metadata` may fail, and its error is dropped (`Stat`, `Unseen`). A
handler's future may be dropped at any await (`gone`), and the daemon killed. `loaded`
is what the bound unit has read.

**Snapcast, EventBus.** `cmds` is the unbounded channel, `pending` the map of a
connection, `requests` what the server has got, which may outlive the connection it
came on. The bus numbers events as published; a subscriber's `cursor` falls behind
the ring when it is slow. `got` is what it was given, a `LaggedEvent` with the number of
events it stands for; `Missed` are those up to the cursor that its filter lets through and
it did not get.

**Access.** `file` is `zerod.toml` on each of its search paths, `unitToken` the token in
the unit file and `systemdToken` the one of the unit systemd has read, `daemon` the
process with its token and its features. `address` is what each machine has on the LAN,
which a lease may change (`Renumber`), `advertised` what mDNS answers for it: the
addresses of the interfaces that are up, Docker's bridge among them, as they were when it
last looked (`Announce`), until they expire. `command` is one client command: it browses
if it names no address (`Resolved`), picks a server and an address of its record
(`ResolveEndpoint`, `BestHost`), connects to whoever has that address now (`Reached`;
the bridge's leads back to the client's own machine, `Here`), and is refused or handled
(`Handle`), or answered by the reflection service, which has no interceptor (`Reflect`).
`kept` are tokens accepted since the configured one changed. `load_settings` reads the
file of `--config`, or the first one there is on the search path, and fails if that cannot
be read or parsed (`Broken`). The sets `RunBluetooth` to `RunSystem` are the calls of
each dispatcher of `main.rs`, every arm of which connects and makes one call with the
token; `PutConfig` reads a file in between, which may fail (`Unreached`).

**Services.** A change of a snapserver client's volume is published, other notifications
are dropped (`ForwardNote`).

## Runs

Every passing run names a specification with all the actions of its modules.
Deadlock is not an error in these models: a finite number of players, prompts,
calls or segments is used up.

| Run | Asks | Shows |
|---|---|---|
| `player_two_clients` | two handlers on two players, sinks that a late write opens again | no task escapes the slot (`NoOrphan`), a finished cancel has aborted (`CancelAborts`), an ended task leaves its sink closed, one write at most after a pause or a stop (`Silenced`), an error is never seen without its text, the slot refines `Singleton` |
| `player_one_client` | one handler, an HLS and a Spotify player | an unpaused running stream is reported Playing (false with two clients), a cancelled task ends |
| `streams` | one stream, recorded, live or DASH, with everything failing that may | segments are played once, in order and completely but for those given up; the deque and cache keep their shape; a recorded stream ends, a stop ends the refresher; a live stream follows its origin |
| `live_master_playlist` | does a live master playlist play? | violated: the refresher asks for the master again |
| `sinks` | ALSA, a pipe or cpal under write and two closes | what ALSA accepted is played and the device free when a close returns; what it plays is in its own format, unless its own announcement was dropped (`HeardAsCoded`); no reader meets a hole, cpal plays whole frames, closes return |
| `cpal_close_drops` | does a close flush the ring? | violated: the ring is dropped with what is in it |
| `bluetooth` | prompts against answers, timeouts, newer prompts, stop; device calls against each other and the device | the map and the waiting prompts agree, nothing is accepted without consent, an event tells what was so after the change, every prompt and call ends |
| `pairing_new_one_wins` | does the newer prompt win? | violated: the timeout of the old one removes its sender |
| `host` | two clients on the units and the adapter, or on the mixer; or two PutConfig calls, one at a time, on a file that may not be there yet, with crashes, a reader and a unit that is restarted | events tell what was so after the change, only listed units are touched, success means that everything asked for was done (`OkIsDone`), a volume is never louder than asked, and quieter by a percent and one raw step at most, the file refines `AtomicFile` and loses its mode only by a write that could not read it (`FileIntact`), an action that is reported applied has its content read |
| `config_concurrent_puts` | two writers at once | violated: they share one temporary file |
| `services` | calls over a breaking connection, notifications, a slow subscriber; a daemon that is installed, edited, killed and restarted under commands; a daemon that commands look for while leases end, records go stale and another machine takes its address | every caller hears of its own call, nothing is sent twice, no event is lost silently, no call of zerod's services is handled without the server's token, no restart locks a client out, the server that was named or found alone handles the call as long as its record has its address (`HandledByNamed`) |
| `printed_token` | do the printed steps make the printed token valid? | violated: a running daemon keeps its former token |

Three runs put several settings side by side, one per initial state, because their parts
do not meet: `sinks` (`output`), `host` (`service`), `services` (`part`); `bluetooth` has
three (`setting`) to keep prompts and calls small where the other is large.

### Bounds

- Two players and two handlers: every race of the slot is between one handler that
  holds it and one that wants it, about an old player and a new one. The proofs
  remove this bound for safety.
- Three segments, with a window, a deque and a cache of two: the playlist slides past
  a segment (a gap), the deque is trimmed, the cache evicts while late tasks put.
  `Ahead` is one, so that a live stream starts behind the edge. The DASH window is
  one, which is two segments, one of them still being produced.
- A channel of two, three chunks and three announcements of two formats: full and empty,
  with `Close` queued behind data, a format that is dropped, one that is repeated and one
  that comes again after it could not be opened.
  Three attachments of readers: one that leaves, its successor, one more within a
  write. A ring of nine samples under two channels: write commits half a frame, and
  a second and a half is more than half the ring at one of the two rates.
- Three prompts, two of them of one phone: replacement and an uninvolved phone. With
  device calls, two prompts of one phone and one caller, or two callers and no agent;
  the proofs are for any number of prompts and phones.
- Two units, one of them not listed; two calls, so that one comes between the steps of
  the other. One of the two is any call; the other changes what the first may change or
  read (a stop, an enable, a volume set: `Disturbs` of `MCHost`). The theorems are about
  `HostSpec`, in which both are any call. A mixer range of 3..90, whose percentages do not fall on raw steps, and the
  percentages 0, 15 and 250, below, between and above. One element, so that "Master"
  falls back to "PCM".
- Two calls to PutConfig: one over what the other has left or read by systemd after
  it. `AtOnce` is 1 where the code's promise holds and 2 where it breaks.
- snapserver and the bus in two parts. "calls": two calls, two connections and one
  notification, the only event: ids are used again on the second connection while a
  request of the first is still at work. "events": one call, and three events on a ring of
  one, so that a subscriber is overtaken by two. Together they are the part "services",
  which the theorems include and TLC would take too long over. The proofs remove the bounds of calls and
  connections.
- Two servers, two tokens (one a user may choose, one random) and two edits: an
  installation and what changes it, or two leases. Three tokens where a second installation
  is needed. Two addresses and the bridge: with both leases a machine comes to have the
  address another's record still holds. The part "discovery" begins with the two addresses
  given out, follows one client that has the token and looks for `Home` or for any server,
  and stops when it is answered; only `Home` exits. The theorems have none of these limits.

### Fairness

Weak fairness is assumed of code that a scheduler runs: tasks of the tokio
runtime that can go on, the writer thread, a callback whose timeout elapses, a
handler that has begun. Requests end (the HTTP client has a 20 s timeout), connect
attempts end, BlueZ answers. Nothing is assumed of clients, of a Spotify child, of an
origin, of phones or of readers of a pipe, but where a property says so:
`SinkCloseReturns` asks for a device that stops stalling or a reader that stays,
`FollowsOrigin` and `Ending` for a stream not paused again and again, `CallsEnd` for a
snapserver that answers what it reads. Strong fairness is assumed four times. `close` of
a pipe gets the mutex, since the task decodes between two writes. A queued call is
refused in some backoff, since each lasts half a second and `select!` polls the queue
throughout. cpal's callbacks take frames when they run, and its close finds one of the
pauses between two callbacks.

## Proofs

Every theorem holds for any value of the constants under the named assumptions of its
module: any number of players, handlers, prompts, calls, units, segments, chunks,
subscribers or servers, any window, capacity or range. Each rests on an inductive
invariant of named parts, with a lemma for each kind of step. `TLC` has checked those
invariants on the instance of the run first, with a bound in place of `Nat` where they say
that some number exists.

**Player** (`PlayerProofs`), with both kinds of sink: `TypeCorrect`;
`NoStreamOrphaned`, `CancelledIsAborted`, `EndedIsClosed`, `StopAndPauseSilence`,
`ErrorIsCarried`; and `Refinement`, that the slot implements `Singleton`, with the
player that a handler has taken and not yet flagged still shown as current. None of
these is inductive. `NoOrphan` alone breaks if a handler could take a player that
another is about to install, or if two were in the critical section at once: `LockInv`
says who holds the mutex and that the slot is empty meanwhile, `OwnInv` that the slot
and the handlers own different players, spawned and not cancelled. `CancelAborts` needs
`HandleInv`: the handle is in `player.task` before the player can be found in the slot.
`EndedSinkClosed` needs `SinkInv`: after a write that opened the sink again the task
meets no await, where `abort` could take it, before it closes the sink itself.
`LateInv` and `MutedInv` follow a task from its last allowed write to its end or its
pause, `ErrInv` from `record_error` to the state. `OneClientSeesPlaying` has the hypothesis
that there is one handler at a time: `pause` and `resume` each store the flag and then the
state, and two that interleave leave a running stream shown as Paused, which the code does
not exclude. `MarkInv` is where it is needed: a player that `pause` is about to mark as
Paused is still paused. `ShowInv` covers the task's loops, the flag and the mark under way.

**Live playback** (`LiveStreamProofs`), for every kind of stream, every set of failures and
any caps: `TypeCorrect`, `CacheAndDequeBookkept`, `SegmentsPlayedInOrder`. `PlayedInOrder` speaks of the history alone; the strengthening
`LoopInv` ties it to the main loop: the pending fetch is of the segment `next`, the one
being decoded is `next - 1`, and every one before that has been played or given up
(`Done`). `FetchInv` says when a fetch may find nothing, which is what keeps a recorded
stream from ending early (`RecordedInv`: its playlist stays whole). The other tasks touch
the cache and the deque only, so one lemma (`AsideKeeps`) serves them all; that the deque
stays in order needs what a manifest lists to be a run of numbers that continues what is
known.

**Sinks** (`SinksProofs`): `SinkTypeCorrect`, `ClosedSinkIsPlayed`, `ChunksHeardAsCoded`,
`NoHoleIsPlayed`. ALSA:
chunk numbers grow from what the device took, over the writer's hand and the channel, to
the task (`OrderInv`); each accepted chunk is in one of these places or was dropped with
the writer's error (`CoveredInv`); `Close` enters the channel once, behind every chunk
(`CloseInv`). `FormatInv` follows a format from its announcement to the PCM: each chunk in the
channel that was announced has its format as the last one before it there, or else the
PCM is closed or has it (`ChannelFormats`), and an open PCM has the writer's format
(`DeviceFormat`). That the writer closes the PCM before it tries another format is what
keeps a chunk from being played in a format that could not be left. The pipe: each half follows the one before it, from what the reader has, over
what the FIFO holds, to what the task writes next (`PipePlace`, `PipeOrder`). cpal: what
the callback took, what the ring holds and what `write` committed differ by whole frames
but for the part of one that write may leave (`CpalFmt`, `CpalWhole`); this needs room for
four frames in the ring, and the code's has 512 Ki samples.

**Units, adapter, mixer, config files** (`HostProofs`): `HostTyped`; `EventsFresh`,
`OnlyListedIsChanged`, `OkMeansDone`, `NothingLouder`; `FileStaysIntact`,
`FileKeepsPromise`, `AppliedMeansRead`. Calls of different operations are at different
steps at once, so the invariant is about what is left of a call, not about a program
point. `CallsInv` says of each call that its steps are the rest of a script, and that what
a step needs is done by one before it, in the rest or already: a change of a unit off the
allowlist has its check before it (`Checked`), a step that may refuse has no change before
it (`Early`), each change asked for is made or still to be made (`Settled`), and what the
call read before a change and will publish is read again (`Reread`). These parts were
chosen because they are closed under the two things a step does to a script, taking its
head or giving up its first block: `MovesKeep` shows that once for all steps. That each
script has them to begin with is shown item by item, as is that every step of the system
is such a move of one call, or begins or ends one (`Changing`). `MixerInv` is that an
element has the raw volume of the percentage set last; `NeverLouder` then is arithmetic
about the two truncations.

The file: `FileInv` says that the call that writes has the temporary file's inode for
itself (`WriterInv`), that no inode in use is one a call has yet to create (`InodesInv`), and
that the target is whole and a reader's inode too (`TargetInv`). It gives `FileIntact`, with the mode
a call carries from `Stat` to `Chmod`, and
step by step the refinement of `AtomicFile`: every step of a call but `rename` is a
stutter. `ActionInv` follows an accepted action to the job and to what the unit reads.
The three theorems have the hypothesis `AtOnce <= 1`, that calls on one file do not
overlap. The code does not guarantee it: `config_concurrent_puts` is the counterexample
with two, and the theorems say that this is the only thing that breaks the promise, whatever
crashes, cancellations and failures there are.

**Pairing agent and devices** (`BluetoothProofs`). Of the agent by itself: `MapKeepsStep` (no
entry outlives its prompt, no waiting prompt has lost its sender) and `OnlyClientsAccept`. A
sender is in one place: `HandInv` says that one in a hand is of a prompt that has parked and
is not in the map, `MailInv` the same of a channel with an answer; and that a yes, in
either, is a client's. `BootInv` is that auto-accept is off before the agent is there.
`AgentIsPairingAgent` is a refinement: a step of `Bluetooth` is one of the agent's or none,
so both hold with the device calls around it (`MapKeepsStepWithCalls`,
`OnlyClientsAcceptWithCalls`).

Of the devices: `BluetoothTyped` and `DeviceEventsFresh`. `EventIsFresh` is about a call at
its last step; `ScriptInv` says of the steps before it what it needs, in the manner of
`Host`'s `CallsInv`: no change comes behind a read for the event, a test comes with the
change it may leave out, what is said to be gone has its removal before it. So a call that
has read anything has no change to make (`RecordInv`), and `SinceInv` is kept by all
callers' steps: what was read was so since the caller's last change, whatever others do to
the device since.

**Snapcast** (`ServicesProofs`): `NoneForgotten` and
`ReplyIsOfCall`. A reply that arrives is matched by its id alone. `LinkInv` says that
the ids of the current connection are below `nextId`, so that a new one meets neither a
request nor a reply, and that nothing is pending without a connection; `MatchInv` that
a pending id, a request and a reply that agree are of one call; `OnceInv` that a call is
in the queue, at the server or carried out, and in one of them once.

**Settings, tokens, discovery** (`AccessProofs`): `AccessIsTyped`, `NoOpenServer`,
`NoLockOut`, `RightServer`. `TokenInv` is that no daemon runs without a token, `KeptInv`
that what it has accepted is its token, which is the configured one if there is one,
`CommandInv` that a command that has searched goes to an address of the one record that is
wanted, `AddressInv` that no two machines have one address. `RightServer` is a theorem about
steps: the call is handled by the machine that has the address now, which is the one
wanted if its record has that address and no other but the bridge's. `AccessTyped` says which
tokens and settings there are to be read.

**Bus and composition** (`ServicesProofs`): `NothingLostSilently`, `ClientIsSnapcast`,
`EachAsAlone`, `ServicesTyped`, `ServicesKeepTheirPromises` (all that the run checks but the
types and `CallsEnd`, among them the step property `HandledByNamed`). For the bus, `TellInv` says of
each subscriber that what it missed up to its cursor is no more than its lags say, and no
more than there were events; a lag moves the cursor by as many as it tells. `NoSilentLoss`
states "what the lags say" as a function of partial sums, so that it can be reasoned about
without a recursive sum. `RoomInv` counts the notifications under way, so that the bound on
events, which is a guard of the publishers, is kept when they arrive. `ClientIsSnapcast` and
`EachAsAlone` are refinements: each composed module takes its own steps or none, so its
theorems carry over to the composition the run checks.

### What the theorems assume

Besides types and disjointness of the constants: `PlayerAssumption` and
`PairingAssumption` that players, prompts and handlers are told apart;
`MixerAssumption` that a range has two ends in order; `SinksAssumption` the four frames;
`LiveAssumption` that caps and windows are positive;
`HostAssumption` that the allowlist is finite and that no unit is called like a status or
a mixer element (the scripts name blocks and subjects in one space); `ConfigAssumption`
that the calls are finitely many (`AtOnce` counts them); `AccessAssumption`
that the search path is a list and that the bridge's address is nobody's on the LAN; `HomeAssumption` that the machine is one of the servers.
All are evaluated on every run.

### Model-checked only

Liveness, which is out of the prover's reach: `CancelEnds`, `Ending`, `FollowsOrigin`,
`SinkCloseReturns`, `AllEnd`, `CallsEnd`. Every safety property that a passing run checks is
stated by a theorem. Conversions that are only computed, such as
what `Percent` gives for each raw step, are evaluated by the runs.

## Where code and documents disagree

| Run | The text | The code |
|---|---|---|
| `live_master_playlist` | `README.md:12-13` "play HLS / MPEG-DASH audio streams" | a live master playlist stops after its first playlist (`player.rs:332`) |
| `pairing_new_one_wins` | `agent.rs:199-200` "so the new one wins" | the old prompt's timeout removes the new one's sender (`agent.rs:231`) |
| `config_concurrent_puts` | `config/src/lib.rs:3-4` "can never corrupt the on-disk config" | concurrent writers share the temporary name |
| `cpal_close_drops` | `sink.rs:20` "Sinks should flush and close." | the ring is dropped with the end of the stream (`cpal_sink.rs:372`) |
| `printed_token` | `service.rs:45` `--force` "rotates the bearer token", and the steps `main.rs:469-482` prints | `enable --now` does not restart a running daemon, which rejects the printed token |

Three more texts say more than the code does, which the modules follow:

- `server/src/lib.rs:113` "Bearer-token check applied to every RPC": the reflection service
  is added without the interceptor (`lib.rs:74`) and answers any client (`Reflect`), as
  `README.md:70-71` and `README.md:265` use it. `OnlyWithToken` is about the other eight.
- `discovery/src/lib.rs:87-89`, `best_host` "Skips loopback and the Docker default bridge
  range": with no other address it takes the bridge's (line 101, `BestHost`).
- `alsa_sink.rs:145-146` has writes dropped "until a successful set_format reopens" the PCM: one
  back to the format that was open before is taken for a repetition (line 126), and writes
  go on being dropped (`Recv`).

`PROJECT.json` lists more places where the code is exposed, with the properties that
watch them, or the reason why none does: a stalled device holds the `PLAYER` mutex, a
format change may be dropped with a full channel, a record that is stale or has only the
bridge's address may lead to another daemon, a gap in a live playlist is waited for
without end, a reply of snapserver has no timeout, a paused Spotify stream plays on, two
tasks write for a moment while one player replaces another.

## Not modelled

- The generated protocol code: messages, and the dispatch of one call to one handler.
- What m3u8-rs, dash-mpd, symphonia, mdns-sd, bluer, zbus and alsa do, but for
  how this code uses them. The content of audio, of manifests and of messages, the
  handlers' translation between messages and the crates' types, and everything that is
  only formatting: the output of the commands, the parsing of `zerod.toml`.
- When a decoder is built anew: that compares two values within one call.
- IPv6 and loopback addresses, which `best_host` ignores, and ports.
- Time, but as order. Power loss. `StdoutSink`, which keeps nothing but a format it logs.
- The end of the snapserver supervisor with its client, which lives as long as the daemon.

## Plan

Done: the player's slot, pairing, device calls, config files with systemd, A2DP and the
mixer, live playback of HLS and DASH, the three sinks, snapserver and the bus, settings,
tokens, discovery and commands, each with its runs; theorems for the safety properties of
all of them.

To come: two more abstract specifications, each shown to be implemented as `Singleton` and
`AtomicFile` are: a call to snapserver as one exchange that takes effect once or not at
all, over `Snapcast`; and a subscription as a queue with marked gaps, over `EventBus`.

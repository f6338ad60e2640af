------------------------------- MODULE Player -------------------------------
(***************************************************************************)
(* The stream player of crates/stream/src/player.rs and of                 *)
(* sources/librespot.rs: the PLAYER slot behind its mutex, the RPC         *)
(* handlers that act on it (Play, SpotifyStart, Pause, Resume, Stop and    *)
(* SpotifyStop) and the driver task each player owns, which the handlers   *)
(* cancel while it runs.                                                   *)
(*                                                                         *)
(* Handlers and tasks run on different threads, so an action is one access *)
(* to shared state: an atomic flag, a mutex or a call of the sink.         *)
(* What a segment holds, positions, volume and formats are left out; a     *)
(* fetch, a decode, a read of the child and a sink call that may fail has  *)
(* both outcomes.  A call of the sink returns (what one that blocks does   *)
(* to the slot is the subject of modules AlsaSink and PipeSink).           *)
(*                                                                         *)
(* JoinHandle::abort drops a task's future at an await, never between two  *)
(* of them: Awaits are the only program points where Aborted can take it.  *)
(*                                                                         *)
(* A definition marked "mutant" is the one below it with a bug in it; the  *)
(* specification does not use it, PROJECT.json says which property it      *)
(* breaks.                                                                 *)
(***************************************************************************)
EXTENDS Naturals

CONSTANTS Players,      \* Player objects, one per accepted Play or SpotifyStart
          Spotify,      \* those that SpotifyStart makes
          Rpcs,         \* handlers running at the same time
          NoPlayer,     \* Option::None
          Reopens       \* the sink is a PipeSink: a write after close reopens it

ASSUME PlayerAssumption == /\ Spotify \subseteq Players
                           /\ NoPlayer \notin Players \cup Rpcs
                           /\ Players \cap Rpcs = {}
                           /\ Reopens \in BOOLEAN

States == {"Stopped", "Buffering", "Playing", "Paused", "Errored"}

\* Program points of run_player and run_librespot.
Awaits == {"spawned", "manifest", "topsleep", "fetch", "winsleep", "read", "kill"}
TaskPoints == Awaits \cup
  {"unborn", "ready", "top", "window", "gate", "write", "child",
   "failed", "errored", "ended", "closing", "done"}

\* Program points of the handlers; those in Holding own the PLAYER mutex.
Cancelling == {"flag", "close", "abort"}
Holding == Cancelling \cup {"put", "stopped"}
RpcPoints == Holding \cup {"idle", "attach", "install", "pause", "pauseState",
                           "resume", "resumeState"}

VARIABLES
  slot,        \* PLAYER: the installed player
  lock,        \* holder of PLAYER's mutex across steps, NoPlayer when free
  state, paused, stopFlag, err,   \* fields of each Player; err: last_error is set
  attached,    \* player.task holds the JoinHandle
  aborted,     \* abort was called on it
  sink,        \* the player's sink: "open" or "closed"
  pc,          \* program point of each player's task
  rpc, mine, target,  \* each handler: program point, player it installs, player it acts on
  muted, late  \* history, up to 2: writes since paused was set and stop_flag was
               \* not, and writes since stop_flag was set

slotVars == <<slot, lock>>
fieldVars == <<state, paused, stopFlag, err>>
handleVars == <<attached, aborted>>
rpcVars == <<rpc, mine, target>>
history == <<muted, late>>
vars == <<slotVars, fieldVars, handleVars, sink, pc, rpcVars, history>>

Init ==
  /\ slot = NoPlayer /\ lock = NoPlayer
  /\ state = [p \in Players |-> "Stopped"]
  /\ paused = [p \in Players |-> FALSE]
  /\ stopFlag = [p \in Players |-> FALSE]
  /\ err = [p \in Players |-> FALSE]
  /\ attached = [p \in Players |-> FALSE]
  /\ aborted = [p \in Players |-> FALSE]
  /\ sink = [p \in Players |-> "open"]
  /\ pc = [p \in Players |-> "unborn"]
  /\ rpc = [r \in Rpcs |-> "idle"]
  /\ mine = [r \in Rpcs |-> NoPlayer]
  /\ target = [r \in Rpcs |-> NoPlayer]
  /\ muted = [p \in Players |-> 0] /\ late = [p \in Players |-> 0]

-----------------------------------------------------------------------------
\* mutant
SetStateUnmapped(p, s) == state' = [state EXCEPT ![p] = IF s = "Errored" THEN "Unspecified" ELSE s]

\* Player::set_state.  The event it then publishes has no reader here.
SetState(p, s) == state' = [state EXCEPT ![p] = s]

-----------------------------------------------------------------------------
(* The handlers. *)

AtRpc(r, point) == rpc[r] = point
GoRpc(r, point) == rpc' = [rpc EXCEPT ![r] = point]

\* play and spotify_start: the sink and the Player are built and the task is
\* spawned before the slot is looked at.
Play(r) == \E p \in Players :
  /\ AtRpc(r, "idle") /\ pc[p] = "unborn"
  /\ pc' = [pc EXCEPT ![p] = "spawned"]
  /\ mine' = [mine EXCEPT ![r] = p]
  /\ GoRpc(r, "attach")
  /\ UNCHANGED <<slotVars, fieldVars, handleVars, sink, target, history>>

\* mutant
AttachNothing(r) ==
  /\ AtRpc(r, "attach") /\ GoRpc(r, "install")
  /\ UNCHANGED <<slotVars, fieldVars, handleVars, sink, pc, mine, target, history>>

\* install: the handle goes into player.task before PLAYER is locked.
Attach(r) ==
  /\ AtRpc(r, "attach") /\ GoRpc(r, "install")
  /\ attached' = [attached EXCEPT ![mine[r]] = TRUE]
  /\ UNCHANGED <<slotVars, fieldVars, aborted, sink, pc, mine, target, history>>

\* mutant
LockPlayerNot(r) == lock' = r

\* PLAYER.lock(), held until PLAYER is unlocked in a later step.
LockPlayer(r) == lock = NoPlayer /\ lock' = r

\* mutant
ForgetOld(old) == "put"

\* The player found in the slot, if any, is cancelled before anything else.
CancelOld(old) == IF old = NoPlayer THEN "put" ELSE "flag"

\* PLAYER.lock() and take(): by install, and by stop, which returns at once
\* when the slot is empty.
Take(r) ==
  /\ AtRpc(r, "install") \/ (AtRpc(r, "idle") /\ slot # NoPlayer)
  /\ LockPlayer(r)
  /\ slot' = NoPlayer
  /\ target' = [target EXCEPT ![r] = slot]
  /\ GoRpc(r, CancelOld(slot))
  /\ UNCHANGED <<fieldVars, handleVars, sink, pc, mine, history>>

\* Player::cancel, under the lock: stop_flag, sink.close(), abort.
CancelFlag(r) ==
  /\ AtRpc(r, "flag") /\ GoRpc(r, "close")
  /\ stopFlag' = [stopFlag EXCEPT ![target[r]] = TRUE]
  /\ muted' = [muted EXCEPT ![target[r]] = 0]
  /\ UNCHANGED <<slotVars, state, paused, err, handleVars, sink, pc, mine, target, late>>

CancelClose(r) ==
  /\ AtRpc(r, "close") /\ GoRpc(r, "abort")
  /\ sink' = [sink EXCEPT ![target[r]] = "closed"]
  /\ UNCHANGED <<slotVars, fieldVars, handleVars, pc, mine, target, history>>

\* mutant
CancelNoAbort(r) ==
  /\ AtRpc(r, "abort") /\ GoRpc(r, IF mine[r] = NoPlayer THEN "stopped" ELSE "put")
  /\ UNCHANGED <<slotVars, fieldVars, handleVars, sink, pc, mine, target, history>>

CancelAbort(r) ==
  /\ AtRpc(r, "abort") /\ GoRpc(r, IF mine[r] = NoPlayer THEN "stopped" ELSE "put")
  /\ aborted' = [aborted EXCEPT ![target[r]] = attached[target[r]]]
  /\ attached' = [attached EXCEPT ![target[r]] = FALSE]
  /\ UNCHANGED <<slotVars, fieldVars, sink, pc, mine, target, history>>

\* install puts its player in the slot and lets the lock go.
Put(r) ==
  /\ AtRpc(r, "put") /\ GoRpc(r, "idle")
  /\ slot' = mine[r] /\ lock' = NoPlayer
  /\ mine' = [mine EXCEPT ![r] = NoPlayer]
  /\ target' = [target EXCEPT ![r] = NoPlayer]
  /\ UNCHANGED <<fieldVars, handleVars, sink, pc, history>>

\* stop sets the state of the player it took, then lets the lock go.
StopState(r) ==
  /\ AtRpc(r, "stopped") /\ GoRpc(r, "idle")
  /\ SetState(target[r], "Stopped")
  /\ lock' = NoPlayer
  /\ target' = [target EXCEPT ![r] = NoPlayer]
  /\ UNCHANGED <<slot, paused, stopFlag, err, handleVars, sink, pc, mine, history>>

\* pause and resume: current() clones the slot under the lock and lets it go;
\* the flag and the state are then two stores.
Current(r) ==
  /\ AtRpc(r, "idle") /\ lock = NoPlayer /\ slot # NoPlayer
  /\ target' = [target EXCEPT ![r] = slot]
  /\ GoRpc(r, "pause") \/ GoRpc(r, "resume")
  /\ UNCHANGED <<slotVars, fieldVars, handleVars, sink, pc, mine, history>>

PauseFlag(r) ==
  /\ AtRpc(r, "pause") /\ GoRpc(r, "pauseState")
  /\ paused' = [paused EXCEPT ![target[r]] = TRUE]
  /\ UNCHANGED <<slotVars, state, stopFlag, err, handleVars, sink, pc, mine, target, history>>

ResumeFlag(r) ==
  /\ AtRpc(r, "resume") /\ GoRpc(r, "resumeState")
  /\ paused' = [paused EXCEPT ![target[r]] = FALSE]
  /\ muted' = [muted EXCEPT ![target[r]] = 0]
  /\ UNCHANGED <<slotVars, state, stopFlag, err, handleVars, sink, pc, mine, target, late>>

PauseState(r) ==
  /\ rpc[r] \in {"pauseState", "resumeState"}
  /\ SetState(target[r], IF rpc[r] = "pauseState" THEN "Paused" ELSE "Playing")
  /\ GoRpc(r, "idle")
  /\ target' = [target EXCEPT ![r] = NoPlayer]
  /\ UNCHANGED <<slotVars, paused, stopFlag, err, handleVars, sink, pc, mine, history>>

Handler(r) ==
  \/ Play(r) \/ Attach(r) \/ Take(r) \/ CancelFlag(r) \/ CancelClose(r)
  \/ CancelAbort(r) \/ Put(r) \/ StopState(r) \/ Current(r)
  \/ PauseFlag(r) \/ ResumeFlag(r) \/ PauseState(r)

-----------------------------------------------------------------------------
(* The driver task of player p. *)

At(p, point) == pc[p] = point
Go(p, point) == pc' = [pc EXCEPT ![p] = point]
Elsewhere == UNCHANGED <<slotVars, handleVars, rpcVars>>
Silent == UNCHANGED <<fieldVars, sink, history>>

\* set_state by the task itself, on the way to its next point.
TaskState(p, from, s, to) ==
  /\ At(p, from) /\ SetState(p, s) /\ Go(p, to)
  /\ Elsewhere /\ UNCHANGED <<paused, stopFlag, err, sink, history>>

\* The HTTP client of run_player_inner cannot be built.
NoClient(p) ==
  /\ At(p, "spawned") /\ ~aborted[p] /\ p \notin Spotify /\ Go(p, "failed")
  /\ Elsewhere /\ Silent

Buffering(p) ==
  /\ ~aborted[p]
  /\ TaskState(p, "spawned", "Buffering", IF p \in Spotify THEN "child" ELSE "manifest")

\* Manifest, variant, init segment and first prefetch: each awaited, any may fail.
Manifest(p) ==
  /\ At(p, "manifest") /\ ~aborted[p]
  /\ Go(p, "ready") \/ Go(p, "failed")
  /\ Elsewhere /\ Silent

\* librespot: set_format and the spawn of the child, which do not await.
Child(p) ==
  /\ At(p, "child")
  /\ Go(p, "ready") \/ Go(p, "failed")
  /\ Elsewhere /\ Silent

\* mutant
ReadyUnset(p) == TaskState(p, "ready", "Buffering", "top")
Ready(p) == TaskState(p, "ready", "Playing", "top")

\* Head of both playback loops; only the HLS/DASH one looks at paused.
Top(p) ==
  /\ At(p, "top")
  /\ \/ stopFlag[p] /\ Go(p, IF p \in Spotify THEN "kill" ELSE "ended")
     \/ ~stopFlag[p] /\ p \in Spotify /\ Go(p, "read")
     \/ ~stopFlag[p] /\ p \notin Spotify /\ Go(p, IF paused[p] THEN "topsleep" ELSE "fetch")
  /\ Elsewhere /\ Silent

\* The 100 ms and 50 ms sleeps of a paused task.
Sleep(p) ==
  /\ ~aborted[p]
  /\ \/ At(p, "topsleep") /\ Go(p, "top")
     \/ At(p, "winsleep") /\ Go(p, "gate")
  /\ Elsewhere /\ Silent

\* pending_fetch.await, then the decode and set_format: PCM to write, the end
\* of a VOD, a segment to skip, or an error that ends the task.
Fetch(p) ==
  /\ At(p, "fetch") /\ ~aborted[p]
  /\ \E point \in {"window", "ended", "top", "failed"} : Go(p, point)
  /\ Elsewhere /\ Silent

\* mutant
WindowUnstopped(p) == At(p, "window") /\ (Go(p, "top") \/ Go(p, "gate")) /\ Elsewhere /\ Silent

\* Head of the loop over 50 ms windows: no window left, stopped, or one to write.
Window(p) ==
  /\ At(p, "window")
  /\ Go(p, "top") \/ (~stopFlag[p] /\ Go(p, "gate"))
  /\ Elsewhere /\ Silent

\* mutant
GateOpen(p) == At(p, "gate") /\ Go(p, "write") /\ Elsewhere /\ Silent

\* The pause loop before each write.
Gate(p) ==
  /\ At(p, "gate")
  /\ Go(p, IF paused[p] /\ ~stopFlag[p] THEN "winsleep" ELSE "write")
  /\ Elsewhere /\ Silent

\* librespot: one read of the child's stdout; end of file or an error end it.
Read(p) ==
  /\ At(p, "read") /\ ~aborted[p]
  /\ \E point \in {"write", "kill", "failed"} : Go(p, point)
  /\ Elsewhere /\ Silent

UpTo2(n) == IF n < 2 THEN n + 1 ELSE 2

\* sink.write: a closed sink drops the samples, or opens its pipe again.
Write(p) ==
  /\ At(p, "write")
  /\ Go(p, IF p \in Spotify THEN "top" ELSE "window") \/ Go(p, "failed")
  /\ sink' = IF Reopens THEN [sink EXCEPT ![p] = "open"] ELSE sink
  /\ muted' = [muted EXCEPT ![p] = IF paused[p] /\ ~stopFlag[p] THEN UpTo2(@) ELSE @]
  /\ late' = [late EXCEPT ![p] = IF stopFlag[p] THEN UpTo2(@) ELSE @]
  /\ Elsewhere /\ UNCHANGED <<fieldVars>>

\* librespot: child.kill().await on the way out.
Kill(p) ==
  /\ At(p, "kill") /\ ~aborted[p] /\ Go(p, "ended")
  /\ Elsewhere /\ Silent

\* mutant
RecordNoError(p) == At(p, "failed") /\ Go(p, "errored") /\ Elsewhere /\ Silent

\* record_error: last_error first, then set_state(Errored).
RecordError(p) ==
  /\ At(p, "failed") /\ Go(p, "errored")
  /\ err' = [err EXCEPT ![p] = TRUE]
  /\ Elsewhere /\ UNCHANGED <<state, paused, stopFlag, sink, history>>

Errored(p) == TaskState(p, "errored", "Errored", "closing")
Ended(p) == TaskState(p, "ended", "Stopped", "closing")

\* mutant
LeaveOpen(p) == At(p, "closing") /\ Go(p, "done") /\ Elsewhere /\ Silent
Close(p) ==
  /\ At(p, "closing") /\ Go(p, "done")
  /\ sink' = [sink EXCEPT ![p] = "closed"]
  /\ Elsewhere /\ UNCHANGED <<fieldVars, history>>

\* The runtime drops an aborted task at an await: nothing after it runs.
Aborted(p) ==
  /\ aborted[p] /\ pc[p] \in Awaits
  /\ Go(p, "done")
  /\ Elsewhere /\ Silent

\* Steps a running task takes; Awaiting ones depend on the network or the child.
Running(p) ==
  \/ NoClient(p) \/ Buffering(p) \/ Child(p) \/ Ready(p) \/ Top(p) \/ Sleep(p)
  \/ Window(p) \/ Gate(p) \/ Write(p) \/ RecordError(p) \/ Errored(p) \/ Ended(p) \/ Close(p)
  \/ Aborted(p)
Awaiting(p) == Manifest(p) \/ Fetch(p) \/ Read(p) \/ Kill(p)

Next == \/ \E r \in Rpcs : Handler(r)
        \/ \E p \in Players : Running(p) \/ Awaiting(p)

Spec == Init /\ [][Next]_vars

-----------------------------------------------------------------------------
(* Fairness: the stream runtime runs a task that is ready and a handler that *)
(* has begun goes on; no client has to call anything, no server has to answer. *)

Begun(r) == Attach(r) \/ (rpc[r] = "install" /\ Take(r)) \/ CancelFlag(r) \/ CancelClose(r)
            \/ CancelAbort(r) \/ Put(r) \/ StopState(r)

Fairness == /\ \A p \in Players : WF_vars(Running(p))
            /\ \A r \in Rpcs : WF_vars(Begun(r))

FairSpec == Spec /\ Fairness

-----------------------------------------------------------------------------
(* Properties. *)

TypeOK ==
  /\ slot \in Players \cup {NoPlayer} /\ lock \in Rpcs \cup {NoPlayer}
  /\ state \in [Players -> States]
  /\ paused \in [Players -> BOOLEAN] /\ stopFlag \in [Players -> BOOLEAN]
  /\ err \in [Players -> BOOLEAN]
  /\ attached \in [Players -> BOOLEAN] /\ aborted \in [Players -> BOOLEAN]
  /\ sink \in [Players -> {"open", "closed"}]
  /\ pc \in [Players -> TaskPoints]
  /\ rpc \in [Rpcs -> RpcPoints]
  /\ mine \in [Rpcs -> Players \cup {NoPlayer}]
  /\ target \in [Rpcs -> Players \cup {NoPlayer}]
  /\ muted \in [Players -> {0, 1, 2}] /\ late \in [Players -> {0, 1, 2}]

Live(p) == pc[p] \notin {"unborn", "done"}

\* Every task that plays can be stopped: it is in the slot, or a handler is on
\* its way to install it or to cancel it.  A player taken out of the slot
\* without being cancelled, or overwritten there, would play on for ever.
NoOrphan == \A p \in Players : Live(p) /\ ~stopFlag[p] =>
  \/ slot = p
  \/ \E r \in Rpcs : mine[r] = p
  \/ \E r \in Rpcs : rpc[r] = "flag" /\ target[r] = p

\* A player that has been told to stop, and whose cancel is over, is aborted:
\* the handle reached player.task before anybody could find the player in the
\* slot, so no task outlives cancel waiting for a segment that never comes.
CancelAborts == \A p \in Players :
  stopFlag[p] /\ (\A r \in Rpcs : target[r] = p => rpc[r] \notin Cancelling) => aborted[p]

\* Whichever way an HLS or DASH task ends, its sink ends closed, although a
\* write that was under way may have opened the pipe again after cancel.
EndedSinkClosed == \A p \in Players \ Spotify : pc[p] = "done" => sink[p] = "closed"

\* Pausing silences an HLS or DASH stream after at most the one write that was
\* past the check, whatever else is called, unless the player is being stopped.
PauseSilences == \A p \in Players \ Spotify : muted[p] <= 1

\* Once stop_flag is set a task makes at most one more write.
StopSilences == \A p \in Players : late[p] <= 1

\* What stop and pause promise of the sound: at most one more write.
Silenced == StopSilences /\ PauseSilences

\* Whoever sees a player Errored, in Status or in the event, sees its error too.
ErrorCarried == \A p \in Players : state[p] = "Errored" => err[p]

\* With no handler under way, a running stream whose paused flag is clear is
\* reported Playing, not Paused (one client at a time).
UnpausedIsPlaying == \A p \in Players :
  (\A r \in Rpcs : rpc[r] = "idle") /\ ~paused[p] /\ ~stopFlag[p]
    /\ pc[p] \in {"top", "fetch", "window", "gate", "write"} => state[p] = "Playing"

\* A cancelled player's task ends, whatever the network or the child does.
CancelEnds == \A p \in Players : stopFlag[p] ~> pc[p] = "done"

\* The slot keeps the promise of module Singleton: a handler between take and
\* cancel has, for its clients, not yet retired the player it took.
Taken == {r \in Rpcs : rpc[r] = "flag"}
Shown == IF Taken = {} THEN slot ELSE target[CHOOSE r \in Rpcs : r \in Taken]
Told == {p \in Players : stopFlag[p]}
Promise == INSTANCE Singleton WITH current <- Shown, cancelled <- Told
KeepsPromise == Promise!Spec
=============================================================================

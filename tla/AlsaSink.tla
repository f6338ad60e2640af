----------------------------- MODULE AlsaSink -----------------------------
(***************************************************************************)
(* The ALSA sink (crates/stream/src/alsa_sink.rs): the player's task, a    *)
(* handler that cancels the player, the bounded channel and the writer     *)
(* thread that owns the PCM.                                               *)
(*                                                                         *)
(* The task announces a format when the decoded format changes, and then   *)
(* writes chunks of it, or none if no frame could be decoded; both threads *)
(* call close, at once or one after the other.  A chunk is its number and  *)
(* format; that it was told, that its format had entered the channel, is a *)
(* note for the properties.  Partial writes and recovered errors of the    *)
(* PCM are inside one step of the writer.  The channel is never            *)
(* disconnected before Close, since whoever takes tx sends Close.          *)
(***************************************************************************)
EXTENDS Integers, Sequences

CONSTANTS Formats,
          None,       \* no format, no PCM
          Capacity,   \* CHANNEL_CAPACITY (64)
          Failing,    \* what the device may do, of "open", "write", "stall"
          MaxChunks,  \* bound: chunks the task writes
          MaxChanges  \* bound: formats it announces

ASSUME AlsaAssumption ==
  /\ None \notin Formats /\ Capacity \in Nat \ {0} /\ MaxChunks \in Nat /\ MaxChanges \in Nat
  /\ Failing \subseteq {"open", "write", "stall"}

Closers == {"task", "cancel"}
Chunk == [kind : {"write"}, n : 1..MaxChunks, fmt : Formats, told : BOOLEAN]
Heard == [n : 1..MaxChunks, fmt : Formats, told : BOOLEAN, pcm : Formats]
Msg == Chunk \cup [kind : {"set_format"}, fmt : Formats] \cup [kind : {"close"}]

VARIABLES
  tx,         \* the sender is still in its slot
  handle,     \* the join handle is: "there", "gone", or a closer that joins under its lock
  queue,      \* the channel
  writer,     \* the writer thread: "recv", "open", "write", "drain", "exited"
  msg,        \* the message it handles
  pcm,        \* format the PCM is open in
  currentFmt, \* its current_fmt
  stalled,    \* the device takes nothing
  task,       \* the player's task: "play", "send", "end"
  fmt,        \* the player's current_fmt
  sent,       \* number of its last chunk
  changes,    \* number of formats announced
  told,       \* history: the last announcement entered the channel
  closer,     \* progress of each close()
  heard,      \* history: chunks the device took, and the format of the PCM
  lost,       \* history: chunks the writer dropped
  accepted    \* history: chunks written before Close entered the channel

device == <<writer, msg, pcm, currentFmt, stalled, heard, lost>>
player == <<task, fmt, sent, changes, told>>
vars == <<tx, handle, queue, device, player, closer, accepted>>

Close == [kind |-> "close"]

Init ==
  /\ tx = TRUE /\ handle = "there" /\ queue = <<>>
  /\ writer = "recv" /\ msg = Close /\ pcm = None /\ currentFmt = None /\ stalled = FALSE
  /\ task = "play" /\ fmt = None /\ sent = 0 /\ changes = 0 /\ told = FALSE
  /\ closer = [c \in Closers |-> "none"]
  /\ heard = <<>> /\ lost = {} /\ accepted = -1

-----------------------------------------------------------------------------
(* The player's task. *)

Room == Len(queue) < Capacity

\* try_send: into a full channel nothing is sent.
TrySend(m) == queue' = IF Room /\ writer # "exited" THEN Append(queue, m) ELSE queue

\* set_format, called when the decoded format changes.  It never blocks and never
\* fails: into a full channel the format is dropped.
SetFormat(f) ==
  /\ task = "play" /\ f # fmt /\ changes < MaxChanges
  /\ changes' = changes + 1 /\ fmt' = f /\ told' = (tx /\ Room /\ writer # "exited")
  /\ IF tx THEN TrySend([kind |-> "set_format", fmt |-> f]) ELSE queue' = queue
  /\ UNCHANGED <<tx, handle, device, task, sent, closer, accepted>>

\* write: the sender is cloned, if it is still there ...
Write ==
  /\ task = "play" /\ fmt # None /\ sent < MaxChunks
  /\ IF tx THEN task' = "send" /\ sent' = sent + 1 ELSE UNCHANGED <<task, sent>>
  /\ UNCHANGED <<tx, handle, queue, device, fmt, changes, told, closer, accepted>>

\* ... and the chunk is sent, as soon as there is room; the writer may be gone.
Send ==
  /\ task = "send"
  /\ \/ /\ writer # "exited" /\ Room /\ task' = "play"
        /\ queue' = Append(queue, [kind |-> "write", n |-> sent, fmt |-> fmt, told |-> told])
     \/ writer = "exited" /\ task' = "end" /\ queue' = queue
  /\ UNCHANGED <<tx, handle, device, fmt, sent, changes, told, closer, accepted>>

\* The stream ends, or is stopped; run_player then closes the sink.
End ==
  /\ task = "play" /\ task' = "end"
  /\ UNCHANGED <<tx, handle, queue, device, fmt, sent, changes, told, closer, accepted>>

-----------------------------------------------------------------------------
(* close(), by the task at its end and by a handler's cancel at any time. *)

At(c, p) == closer[c] = p
Go(c, p) == closer' = [closer EXCEPT ![c] = p]

\* mutant
TakeTxCloned(c) ==
  /\ At(c, "none") /\ (c = "task" => task = "end") /\ Go(c, "join")
  /\ UNCHANGED <<tx, handle, queue, device, player, accepted>>

TakeTx(c) ==
  /\ At(c, "none") /\ (c = "task" => task = "end")
  /\ Go(c, IF tx THEN "send" ELSE "join") /\ tx' = FALSE
  /\ UNCHANGED <<handle, queue, device, player, accepted>>

\* mutant
SendCloseFirst(c) ==
  /\ At(c, "send") /\ Go(c, "join") /\ queue' = <<Close>>
  /\ accepted' = IF task = "send" THEN sent - 1 ELSE sent
  /\ UNCHANGED <<tx, handle, device, player>>

SendClose(c) ==
  /\ At(c, "send") /\ Room /\ Go(c, "join")
  /\ queue' = Append(queue, Close)
  /\ accepted' = IF task = "send" THEN sent - 1 ELSE sent
  /\ UNCHANGED <<tx, handle, device, player>>

\* mutant
JoinUnlocked(c) ==
  /\ At(c, "join") /\ handle # c
  /\ IF handle = "there" THEN handle' = c /\ Go(c, "joining") ELSE Go(c, "done") /\ UNCHANGED handle
  /\ UNCHANGED <<tx, queue, device, player, accepted>>

\* The handle is taken, and joined with its mutex still held.
Join(c) ==
  /\ At(c, "join") /\ handle \notin Closers
  /\ IF handle = "there" THEN handle' = c /\ Go(c, "joining") ELSE Go(c, "done") /\ UNCHANGED handle
  /\ UNCHANGED <<tx, queue, device, player, accepted>>

Joined(c) ==
  /\ At(c, "joining") /\ writer = "exited"
  /\ handle' = "gone" /\ Go(c, "done")
  /\ UNCHANGED <<tx, queue, device, player, accepted>>

-----------------------------------------------------------------------------
(* The writer thread. *)

Lose(m) == lost' = IF m.kind = "write" THEN lost \cup {m.n} ELSE lost

\* mutant
RecvKeepsPcm ==
  /\ writer = "recv" /\ queue # <<>>
  /\ msg' = Head(queue) /\ queue' = Tail(queue)
  /\ \/ msg'.kind = "close" /\ writer' = "drain" /\ UNCHANGED lost
     \/ /\ msg'.kind = "set_format" /\ UNCHANGED lost
        /\ writer' = IF msg'.fmt = currentFmt THEN writer ELSE "open"
     \/ /\ msg'.kind = "write"
        /\ IF pcm = None THEN writer' = writer /\ Lose(msg') ELSE writer' = "write" /\ UNCHANGED lost
  /\ UNCHANGED <<tx, handle, pcm, currentFmt, stalled, heard, player, closer, accepted>>

\* The next message.  A format that is current already is left alone; another
\* one drains and closes the PCM first.  A chunk needs an open PCM.
Recv ==
  /\ writer = "recv" /\ queue # <<>>
  /\ msg' = Head(queue) /\ queue' = Tail(queue)
  /\ \/ msg'.kind = "close" /\ writer' = "drain" /\ UNCHANGED <<pcm, lost>>
     \/ /\ msg'.kind = "set_format"
        /\ IF msg'.fmt = currentFmt THEN UNCHANGED <<writer, pcm>>
           ELSE writer' = "open" /\ pcm' = None
        /\ UNCHANGED lost
     \/ /\ msg'.kind = "write"
        /\ IF pcm = None THEN writer' = writer /\ Lose(msg')
           ELSE writer' = "write" /\ UNCHANGED lost
        /\ UNCHANGED pcm
  /\ UNCHANGED <<tx, handle, currentFmt, stalled, heard, player, closer, accepted>>

\* open_pcm.  When it fails, current_fmt keeps the format that was closed.
Open ==
  /\ writer = "open" /\ ~stalled /\ writer' = "recv"
  /\ \/ pcm' = msg.fmt /\ currentFmt' = msg.fmt
     \/ "open" \in Failing /\ UNCHANGED <<pcm, currentFmt>>
  /\ UNCHANGED <<tx, handle, queue, msg, stalled, heard, lost, player, closer, accepted>>

\* writei until the whole chunk is taken; an error that cannot be recovered from
\* drops the rest.
WriteDevice ==
  /\ writer = "write" /\ ~stalled /\ writer' = "recv"
  /\ \/ heard' = Append(heard, [n |-> msg.n, fmt |-> msg.fmt, told |-> msg.told, pcm |-> pcm])
        /\ UNCHANGED lost
     \/ "write" \in Failing /\ Lose(msg) /\ UNCHANGED heard
  /\ UNCHANGED <<tx, handle, queue, msg, pcm, currentFmt, stalled, player, closer, accepted>>

\* The last drain; the receiver and what is left in the channel are dropped.
Drain ==
  /\ writer = "drain" /\ ~stalled /\ writer' = "exited" /\ pcm' = None /\ queue' = <<>>
  /\ UNCHANGED <<tx, handle, msg, currentFmt, stalled, heard, lost, player, closer, accepted>>

Stall ==
  /\ "stall" \in Failing /\ stalled' = ~stalled
  /\ UNCHANGED <<tx, handle, queue, writer, msg, pcm, currentFmt, heard, lost, player, closer, accepted>>

TaskStep == (\E f \in Formats : SetFormat(f)) \/ Write \/ End
CloseStep(c) == SendClose(c) \/ Join(c) \/ Joined(c)
WriterStep == Recv \/ Open \/ WriteDevice \/ Drain

Next == TaskStep \/ Send \/ (\E c \in Closers : TakeTx(c) \/ CloseStep(c)) \/ WriterStep \/ Stall

Spec == Init /\ [][Next]_vars

-----------------------------------------------------------------------------
(* Properties. *)

TypeOK ==
  /\ tx \in BOOLEAN /\ handle \in {"there", "gone"} \cup Closers
  /\ queue \in Seq(Msg) /\ Len(queue) <= Capacity
  /\ writer \in {"recv", "open", "write", "drain", "exited"} /\ msg \in Msg
  /\ pcm \in Formats \cup {None} /\ currentFmt \in Formats \cup {None} /\ stalled \in BOOLEAN
  /\ task \in {"play", "send", "end"} /\ fmt \in Formats \cup {None}
  /\ sent \in 0..MaxChunks /\ changes \in 0..MaxChanges /\ told \in BOOLEAN
  /\ closer \in [Closers -> {"none", "send", "join", "joining", "done"}]
  /\ heard \in Seq(Heard) /\ lost \subseteq 1..MaxChunks /\ accepted \in -1..MaxChunks

\* The device is given the chunks in order and once, and when the writer has ended
\* it was given every chunk sent before Close but those the writer dropped.  When any
\* close() has returned, the writer has ended and the device is free for the next
\* player, also when another thread's close() does the joining.
ClosedIsPlayed ==
  /\ (\E c \in Closers : closer[c] = "done") => writer = "exited" /\ pcm = None
  /\ \A i, j \in DOMAIN heard : i < j => heard[i].n < heard[j].n
  /\ writer = "exited" => 1..accepted \subseteq {heard[i].n : i \in DOMAIN heard} \cup lost

\* What the device takes is played in its own format, whatever formats could not be
\* opened, were opened before, or were dropped with a full channel: only the chunks
\* whose own announcement was dropped may be played as something else.
HeardAsCoded == \A i \in DOMAIN heard : heard[i].told => heard[i].pcm = heard[i].fmt

Closing(c) == closer[c] \notin {"none", "done"}
=============================================================================

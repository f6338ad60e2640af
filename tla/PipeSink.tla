----------------------------- MODULE PipeSink -----------------------------
(***************************************************************************)
(* The named-pipe sink (PipeSink in crates/stream/src/output.rs): a chunk  *)
(* is written with the sink's mutex held, the FIFO is opened by the first  *)
(* write and again when no reader is left, and close, called by the task   *)
(* or by a handler that cancels the player, waits for the mutex.           *)
(*                                                                         *)
(* A chunk is two halves, since write_all may write it in parts; the FIFO  *)
(* holds one half.  Opening it for writing blocks until it has a reader.   *)
(* Readers come and go; the FIFO keeps what is in it while the sink holds  *)
(* it open.  The FIFO exists; other errors of the file are left out.       *)
(***************************************************************************)
EXTENDS Naturals, Sequences

CONSTANTS MaxChunks,   \* bound: chunks the task writes
          MaxReaders   \* bound: readers that attach

Closers == {"task", "cancel"}
Half == [n : 1..MaxChunks, half : 1..2]

VARIABLES
  file,      \* PipeState.file is there, and open for writing
  lock,      \* the mutex: "free", or held by "write"; close holds it for a step
  task,      \* "play", "lock", "open", "data", "ended", "failed"
  n, half,   \* the chunk and half it writes
  tries,     \* reopens in this write
  closer,    \* close() of either thread: "none", "wait", "done"
  readers,   \* number of readers so far; the last one may be attached
  attached,
  pipe,      \* what is in the FIFO
  got,       \* history: what the last reader has read
  fresh      \* history: it came to an empty FIFO that the sink was opening

vars == <<file, lock, task, n, half, tries, closer, readers, attached, pipe, got, fresh>>
reader == <<readers, attached, got, fresh>>

Init ==
  /\ file = FALSE /\ lock = "free" /\ task = "play" /\ n = 0 /\ half = 1 /\ tries = 0
  /\ closer = [c \in Closers |-> "none"]
  /\ readers = 0 /\ attached = FALSE /\ pipe = <<>> /\ got = <<>> /\ fresh = FALSE

\* write: the mutex is taken, and held to the end.
Write ==
  /\ task = "play" /\ n < MaxChunks /\ task' = "lock" /\ n' = n + 1 /\ half' = 1 /\ tries' = 0
  /\ UNCHANGED <<file, lock, closer, pipe, reader>>

Lock ==
  /\ task = "lock" /\ lock = "free" /\ lock' = "write"
  /\ task' = IF file THEN "data" ELSE "open"
  /\ UNCHANGED <<file, n, half, tries, closer, pipe, reader>>

\* open returns when there is a reader.  The file it replaces is open until then,
\* so what a reader left in the FIFO stays there for the next one.
Open ==
  /\ task = "open" /\ attached
  /\ file' = TRUE /\ task' = "data"
  /\ UNCHANGED <<lock, n, half, tries, closer, pipe, reader>>

\* write_all, half by half.
Data ==
  /\ task = "data" /\ attached /\ pipe = <<>>
  /\ pipe' = <<[n |-> n, half |-> half]>>
  /\ IF half = 1 THEN half' = 2 /\ UNCHANGED <<task, lock>>
     ELSE half' = 1 /\ task' = "play" /\ lock' = "free"
  /\ UNCHANGED <<file, n, tries, closer, reader>>

\* mutant
BrokenUnlimited ==
  /\ task = "data" /\ ~attached
  /\ tries' = tries + 1 /\ half' = 1 /\ task' = "open"
  /\ UNCHANGED <<file, lock, n, closer, pipe, reader>>

\* mutant
BrokenSkips ==
  /\ task = "data" /\ ~attached
  /\ task' = "play" /\ lock' = "free" /\ half' = 1
  /\ UNCHANGED <<file, n, tries, closer, pipe, reader>>

\* BrokenPipe: the first time the FIFO is opened again and the whole chunk is
\* written again; the second time write fails, and the stream with it.
Broken ==
  /\ task = "data" /\ ~attached
  /\ IF tries = 0 THEN tries' = 1 /\ half' = 1 /\ task' = "open" /\ UNCHANGED lock
     ELSE task' = "failed" /\ lock' = "free" /\ UNCHANGED <<tries, half>>
  /\ UNCHANGED <<file, n, pipe, closer, reader>>

\* The stream ends or is stopped between two writes.
End ==
  /\ task = "play" /\ task' = "ended"
  /\ UNCHANGED <<file, lock, n, half, tries, closer, pipe, reader>>

\* close(), by the task when it has ended, by cancel at any time.
Close(c) ==
  /\ closer[c] = "none" /\ (c = "task" => task \in {"ended", "failed"})
  /\ closer' = [closer EXCEPT ![c] = "wait"]
  /\ UNCHANGED <<file, lock, task, n, half, tries, pipe, reader>>

CloseFile(c) ==
  /\ closer[c] = "wait" /\ lock = "free"
  /\ file' = FALSE /\ pipe' = IF attached THEN pipe ELSE <<>>
  /\ closer' = [closer EXCEPT ![c] = "done"]
  /\ UNCHANGED <<lock, task, n, half, tries, reader>>

-----------------------------------------------------------------------------
(* The reader's side. *)

Attach ==
  /\ ~attached /\ readers < MaxReaders
  /\ attached' = TRUE /\ readers' = readers + 1 /\ got' = <<>> /\ fresh' = (pipe = <<>> /\ task = "open")
  /\ UNCHANGED <<file, lock, task, n, half, tries, closer, pipe>>

Detach ==
  /\ attached /\ attached' = FALSE
  /\ pipe' = IF file THEN pipe ELSE <<>>
  /\ UNCHANGED <<file, lock, task, n, half, tries, closer, readers, got, fresh>>

Read ==
  /\ attached /\ pipe # <<>> /\ got' = got \o pipe /\ pipe' = <<>>
  /\ UNCHANGED <<file, lock, task, n, half, tries, closer, readers, attached, fresh>>

TaskStep == Write \/ Lock \/ Open \/ Data \/ Broken \/ End
Next == TaskStep \/ (\E c \in Closers : Close(c) \/ CloseFile(c)) \/ Attach \/ Detach \/ Read

Spec == Init /\ [][Next]_vars

-----------------------------------------------------------------------------
(* Properties. *)

TypeOK ==
  /\ file \in BOOLEAN /\ lock \in {"free", "write"}
  /\ task \in {"play", "lock", "open", "data", "ended", "failed"}
  /\ n \in 0..MaxChunks /\ half \in 1..2 /\ tries \in 0..1
  /\ closer \in [Closers -> {"none", "wait", "done"}]
  /\ readers \in 0..MaxReaders /\ attached \in BOOLEAN /\ fresh \in BOOLEAN
  /\ pipe \in Seq(Half) /\ Len(pipe) <= 1 /\ got \in Seq(Half)

\* A reader that attaches to a FIFO being opened starts at a chunk's first half,
\* and one reader never misses a part of a chunk between two others: after a half
\* it reads the next half, or the same chunk written again from its start.
NoHole ==
  /\ fresh /\ got # <<>> => got[1].half = 1
  /\ \A i \in DOMAIN got : i + 1 \in DOMAIN got =>
       \/ got[i].half = 1 /\ got[i + 1].n = got[i].n
       \/ got[i].half = 2 /\ got[i + 1].n \in got[i].n..(got[i].n + 1) /\ got[i + 1].half = 1

Closing(c) == closer[c] = "wait"
=============================================================================

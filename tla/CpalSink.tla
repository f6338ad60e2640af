----------------------------- MODULE CpalSink -----------------------------
(***************************************************************************)
(* The cpal sink of builds for other systems than Linux (crates/stream/    *)
(* src/cpal_sink.rs): write copies samples to a ring, as many as fit, and  *)
(* sleeps while it is full; the audio callback waits until enough of them  *)
(* are there, and then takes them frame by frame until it runs dry.        *)
(*                                                                         *)
(* Samples are numbered as written, so the ring is what lies between two   *)
(* counters.  How many frames of the source a callback takes depends on    *)
(* the ratio of the rates and is left open.  What a frame sounds like, and *)
(* the failures of opening the device before the first write, are left out. *)
(***************************************************************************)
EXTENDS Naturals

CONSTANTS Formats,      \* [rate, channels]
          RingCapacity, \* RING_CAPACITY_SAMPLES (524288)
          MaxFrames     \* bound: frames the task writes, of the channels at the time

Closers == {"task", "cancel"}

VARIABLES
  stream,          \* the cpal stream is there, and calls back
  producer,        \* and so is the ring's producer
  rate, channels,  \* src_rate, src_channels
  written, read,   \* samples put into the ring and taken out
  task,            \* "play", "channels" in set_format, "write", "end"
  fmt, left,       \* the player's format; samples of its chunk still to write
  callback,        \* channels the running callback has loaded, or 0
  primed,
  closer,          \* close() of either thread: "none", "stream", "producer", "done"
  frame            \* history: the samples of the last frame taken

ring == <<written, read>>
atomics == <<rate, channels>>
player == <<task, fmt, left>>
audio == <<callback, primed, frame>>
vars == <<stream, producer, atomics, ring, player, audio, closer>>

\* open_stream has succeeded; no format is set yet.
Init ==
  /\ stream = TRUE /\ producer = TRUE /\ rate = 0 /\ channels = 0
  /\ written = 0 /\ read = 0
  /\ task = "play" /\ fmt = [rate |-> 0, channels |-> 0] /\ left = 0
  /\ callback = 0 /\ primed = FALSE /\ frame = [from |-> 0, count |-> 0]
  /\ closer = [c \in Closers |-> "none"]

Min2(a, b) == IF a < b THEN a ELSE b
Max2(a, b) == IF a < b THEN b ELSE a
Slots == written - read

-----------------------------------------------------------------------------
(* The player's task. *)

\* set_format stores the rate, then the channels, whatever is in the ring.
SetRate(f) ==
  /\ task = "play" /\ f # fmt /\ fmt' = f /\ rate' = f.rate /\ task' = "channels"
  /\ UNCHANGED <<stream, producer, channels, ring, left, audio, closer>>

SetChannels ==
  /\ task = "channels" /\ channels' = fmt.channels /\ task' = "play"
  /\ UNCHANGED <<stream, producer, rate, ring, fmt, left, audio, closer>>

\* write, of some frames.
Write ==
  /\ task = "play" /\ fmt.channels > 0
  /\ \E n \in 1..2 : written + n * fmt.channels <= MaxFrames * fmt.channels /\ left' = n * fmt.channels
  /\ task' = "write"
  /\ UNCHANGED <<stream, producer, atomics, ring, fmt, audio, closer>>

\* What fits is copied; without a producer the rest is given up.  While the ring
\* is full, write sleeps and looks again.
Copy == LET n == Min2(left, RingCapacity - Slots) IN
  /\ task = "write"
  /\ IF ~producer THEN left' = 0 /\ task' = "play" /\ UNCHANGED written
     ELSE /\ n > 0 /\ written' = written + n /\ left' = left - n
          /\ task' = IF left' = 0 THEN "play" ELSE "write"
  /\ UNCHANGED <<stream, producer, atomics, read, fmt, audio, closer>>

End == /\ task = "play" /\ task' = "end"
       /\ UNCHANGED <<stream, producer, atomics, ring, fmt, left, audio, closer>>

-----------------------------------------------------------------------------
(* The audio callback, which loads the atomics once, when it begins. *)

\* mutant
NeedUnbounded(ch) == Max2((rate * 3) \div 2, 2) * ch

\* Samples to have before playing: a second and a half, but no more than half
\* the ring.
Need(ch) == Min2(Max2((rate * 3) \div 2, 2) * ch, RingCapacity \div 2)

Take(ch) == read' = read + ch /\ frame' = [from |-> read, count |-> ch]

\* An unprimed callback plays silence until there is enough, and then takes the
\* first two frames.
Begin == LET ch == Max2(channels, 1) IN
  /\ stream /\ callback = 0
  /\ IF primed THEN callback' = ch /\ UNCHANGED <<read, primed, frame>>
     ELSE /\ Slots >= Need(ch) /\ callback' = ch /\ primed' = TRUE
          /\ read' = read + Min2(2 * ch, Slots)
          /\ frame' = [from |-> read + ch, count |-> Min2(ch, Slots - ch)]
  /\ UNCHANGED <<stream, producer, atomics, written, player, closer>>

\* mutant
AdvanceUnchecked ==
  /\ callback # 0 /\ Slots > 0
  /\ read' = read + Min2(callback, Slots) /\ frame' = [from |-> read, count |-> Min2(callback, Slots)]
  /\ UNCHANGED <<stream, producer, atomics, written, player, callback, primed, closer>>

\* The next frame; with less than one in the ring the callback is silent to its
\* end, and primes anew.
Advance ==
  /\ callback # 0
  /\ IF Slots < callback THEN callback' = 0 /\ primed' = FALSE /\ UNCHANGED <<read, frame>>
     ELSE Take(callback) /\ UNCHANGED <<callback, primed>>
  /\ UNCHANGED <<stream, producer, atomics, written, player, closer>>

\* The output buffer is full.
EndCallback ==
  /\ callback # 0 /\ callback' = 0
  /\ UNCHANGED <<stream, producer, atomics, ring, player, primed, frame, closer>>

-----------------------------------------------------------------------------
(* close(), by the task when it has ended, by cancel at any time. *)

Close(c) ==
  /\ closer[c] = "none" /\ (c = "task" => task = "end")
  /\ closer' = [closer EXCEPT ![c] = "stream"]
  /\ UNCHANGED <<stream, producer, atomics, ring, player, audio>>

\* mutant
CloseStepKeeps(c) ==
  /\ closer[c] = "stream" /\ callback = 0 /\ stream' = FALSE
  /\ closer' = [closer EXCEPT ![c] = "done"] /\ UNCHANGED producer
  /\ UNCHANGED <<atomics, ring, player, audio>>

\* The stream is dropped, once its callback has returned, and then the producer.
CloseStep(c) ==
  /\ \/ /\ closer[c] = "stream" /\ callback = 0 /\ stream' = FALSE
        /\ closer' = [closer EXCEPT ![c] = "producer"] /\ UNCHANGED producer
     \/ /\ closer[c] = "producer" /\ producer' = FALSE
        /\ closer' = [closer EXCEPT ![c] = "done"] /\ UNCHANGED stream
  /\ UNCHANGED <<atomics, ring, player, audio>>

Audio == Begin \/ Advance \/ EndCallback
Next ==
  \/ (\E f \in Formats : SetRate(f)) \/ SetChannels \/ Write \/ Copy \/ End
  \/ Audio \/ \E c \in Closers : Close(c) \/ CloseStep(c)

Spec == Init /\ [][Next]_vars

-----------------------------------------------------------------------------
(* Properties. *)

TypeOK ==
  /\ stream \in BOOLEAN /\ producer \in BOOLEAN /\ primed \in BOOLEAN
  /\ read <= written /\ Slots <= RingCapacity /\ callback \in Nat
  /\ task \in {"play", "channels", "write", "end"} /\ left \in Nat
  /\ closer \in [Closers -> {"none", "stream", "producer", "done"}]

\* Between formats with the same channels, a frame that is played has a sample
\* for each channel and begins with the first channel's, although write commits
\* parts of frames.
FramesWhole == frame.count > 0 => \A f \in Formats :
  channels = f.channels /\ (\A g \in Formats : g.channels = f.channels)
  => frame.count = f.channels /\ frame.from % f.channels = 0

\* A task that ends by itself has played all it wrote when its close returns
\* (sink.rs:20, which the run shows not to be so).
CloseFlushes == closer["task"] = "done" /\ closer["cancel"] = "none" => read = written

Closing(c) == closer[c] \notin {"none", "done"}
=============================================================================

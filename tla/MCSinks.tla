------------------------------ MODULE MCSinks ------------------------------
(***************************************************************************)
(* The sink of one player, ALSA, a pipe or cpal, as build_sink chooses it. *)
(* The variables of the sinks that were not chosen stay as they are.       *)
(***************************************************************************)
EXTENDS AlsaSink

CONSTANTS Outputs,      \* of "alsa", "pipe", "cpal"
          PipeChunks, MaxReaders,
          Rates, Channels,          \* of the formats cpal is given
          RingCapacity, MaxFrames

ASSUME SinksAssumption ==
  /\ Outputs \subseteq {"alsa", "pipe", "cpal"}
  /\ PipeChunks \in Nat /\ MaxReaders \in Nat /\ MaxFrames \in Nat /\ Rates \subseteq Nat
  /\ Channels \in Nat \ {0} /\ RingCapacity \in Nat /\ RingCapacity >= 4 * Channels

VARIABLES output,
          file, lock, writing, n, half, tries, closing, readers, attached, pipe, got, fresh,
          stream, producer, rate, channels, written, read, filling, pcmFmt, left, callback,
          primed, dropping, frame

pipeVars == <<file, lock, writing, n, half, tries, closing, readers, attached, pipe, got, fresh>>
cpalVars == <<stream, producer, rate, channels, written, read, filling, pcmFmt, left, callback,
              primed, dropping, frame>>
allVars == <<output, vars, pipeVars, cpalVars>>

\* Formats of different rates.  Two channels and an odd RingCapacity make write
\* commit half a frame.
CpalFormats == [rate : Rates, channels : {Channels}]

Pipe == INSTANCE PipeSink WITH task <- writing, closer <- closing, MaxChunks <- PipeChunks
Cpal == INSTANCE CpalSink WITH task <- filling, closer <- dropping, fmt <- pcmFmt,
                               Formats <- CpalFormats

\* map_output: no output given is the sound device, and a pipe needs a path.
MapOutput(asked, path) ==
  IF asked \in {"unspecified", "cpal"} THEN {"device"}
  ELSE {asked} \cap ({"stdout"} \cup (IF path THEN {"pipe"} ELSE {}))

\* build_sink: on Linux the sound device is libasound's.
BuildSink(out, linux) == IF out # "device" THEN out ELSE IF linux THEN "alsa" ELSE "cpal"

SinkInit ==
  /\ output \in Outputs
  /\ \E asked \in {"unspecified", "cpal", "stdout", "pipe", "unknown"}, path, linux \in BOOLEAN :
       \E out \in MapOutput(asked, path) : output = BuildSink(out, linux)
  /\ Init /\ Pipe!Init /\ Cpal!Init

Alsa(step) == output = "alsa" /\ step /\ UNCHANGED <<output, pipeVars, cpalVars>>
Fifo(step) == output = "pipe" /\ step /\ UNCHANGED <<output, vars, cpalVars>>
Ring(step) == output = "cpal" /\ step /\ UNCHANGED <<output, vars, pipeVars>>

SinkNext == Alsa(Next) \/ Fifo(Pipe!Next) \/ Ring(Cpal!Next)

SinkSpec == SinkInit /\ [][SinkNext]_allVars

\* One step of a thread of the sink that was chosen.
Thread(alsa, fifo, ring) == Alsa(alsa) \/ Fifo(fifo) \/ Ring(ring)

\* The threads run.  Of the pipe's mutex: a close is not overtaken for ever, since
\* the task decodes between two writes.  A reader that stays reads.  A cpal device
\* calls back, pauses between two callbacks, and its callbacks take frames.
FairSpec ==
  /\ SinkSpec
  /\ WF_allVars(Thread(Send, Pipe!Lock \/ Pipe!Open \/ Pipe!Data \/ Pipe!Broken,
                       Cpal!Copy \/ Cpal!SetChannels))
  /\ WF_allVars(Thread(WriterStep, Pipe!Read, Cpal!Begin \/ Cpal!EndCallback))
  /\ SF_allVars(Ring(Cpal!Advance))
  /\ \A c \in Closers : /\ WF_allVars(Alsa(CloseStep(c)))
                        /\ SF_allVars(Fifo(Pipe!CloseFile(c)) \/ Ring(Cpal!CloseStep(c)))

\* Each sink keeps its types.
SinkTypeOK == output \in Outputs /\ TypeOK /\ Pipe!TypeOK /\ Cpal!TypeOK

\* A reader that comes to an empty FIFO hears whole chunks, and none misses a part
\* of a chunk between two others (module PipeSink); what cpal plays is whole frames
\* (module CpalSink).
NoHole == Pipe!NoHole /\ Cpal!FramesWhole

\* The close() of each sink returns, for ALSA although the channel is full and the
\* task is in write, if the device does not stall for good, for the pipe if a reader
\* stays; so does a write to cpal's ring, which may wait for a callback that waits
\* for more samples.
Waits(c) ==
  \/ Closing(c) \/ Pipe!Closing(c) \/ Cpal!Closing(c)
  \/ c = "task" /\ filling = "write"
Served == ~stalled /\ (output = "pipe" => attached)
SinkCloseReturns == <>[]Served => \A c \in Closers : Waits(c) ~> ~Waits(c)

\* "Sinks should flush and close" (sink.rs:20), of cpal.
CloseFlushes == Cpal!CloseFlushes
=============================================================================

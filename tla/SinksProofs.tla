---------------------------- MODULE SinksProofs ----------------------------
(***************************************************************************)
(* Theorems about module MCSinks, for channels, chunks, readers, rates and *)
(* a ring of any number.  Each sink has an invariant of its own: ALSA's    *)
(* numbers grow from the device to the task and every chunk accepted is    *)
(* somewhere (AlsaInv), a format goes before its chunks (FormatInv), a     *)
(* half in the FIFO follows what its reader has                            *)
(* (PipeInv), and the samples cpal took are a number of frames (CpalInv).  *)
(***************************************************************************)
EXTENDS MCSinks, TLAPS

-----------------------------------------------------------------------------
(* Queues. *)

\* What Append does to a queue.
LEMMA Appended ==
  ASSUME NEW S, NEW q \in Seq(S), NEW e \in S
  PROVE  /\ Append(q, e) \in Seq(S) /\ Len(q) \in Nat /\ Len(Append(q, e)) = Len(q) + 1
         /\ DOMAIN q = 1..Len(q) /\ DOMAIN Append(q, e) = 1..(Len(q) + 1)
         /\ Append(q, e)[Len(q) + 1] = e /\ \A i \in 1..Len(q) : Append(q, e)[i] = q[i]
OBVIOUS

\* What is left when the head is taken.
LEMMA Taken ==
  ASSUME NEW S, NEW q \in Seq(S), q # <<>>
  PROVE  /\ Tail(q) \in Seq(S) /\ Head(q) = q[1] /\ Head(q) \in S /\ Len(q) \in Nat \ {0}
         /\ Len(Tail(q)) = Len(q) - 1 /\ DOMAIN q = 1..Len(q) /\ DOMAIN Tail(q) = 1..(Len(q) - 1)
         /\ \A i \in 1..(Len(q) - 1) : Tail(q)[i] = q[i + 1]
OBVIOUS

\* A queue and its messages.
LEMMA Queued ==
  ASSUME NEW S, NEW q \in Seq(S)
  PROVE  /\ Len(q) \in Nat /\ DOMAIN q = 1..Len(q) /\ \A i \in 1..Len(q) : q[i] \in S
OBVIOUS

\* The kinds of messages.
LEMMA Kinds ==
  ASSUME NEW m \in Msg
  PROVE  /\ m.kind \in {"write", "set_format", "close"}
         /\ m.kind = "write" => m \in Chunk /\ m.n \in 1..MaxChunks /\ m.fmt \in Formats
         /\ m.kind = "set_format" => m.fmt \in Formats
BY DEF Msg, Chunk

\* The constants, one by one.
LEMMA AlsaBounds == Capacity \in Nat \ {0} /\ MaxChunks \in Nat /\ MaxChanges \in Nat /\ None \notin Formats
BY AlsaAssumption

-----------------------------------------------------------------------------
(* ALSA: numbers grow from what the device took, over the chunk in hand and *)
(* the channel, to the task's last one.                                    *)

Sent == IF task = "send" THEN sent - 1 ELSE sent
WasHeard(k) == \E i \in DOMAIN heard : heard[i].n = k
InHand(k) == writer = "write" /\ msg.n = k
BeforeClose(i) == \A j \in DOMAIN queue : queue[j].kind = "close" => i < j
InChannel(k) == \E i \in DOMAIN queue : queue[i].kind = "write" /\ queue[i].n = k /\ BeforeClose(i)
NoClose == \A j \in DOMAIN queue : queue[j].kind # "close"

\* Where the task and the writer are.
PlaceInv ==
  /\ task = "send" => sent >= 1 /\ fmt # None
  /\ writer = "open" => msg.kind = "set_format"
  /\ writer = "write" => msg.kind = "write" /\ pcm # None
  /\ writer = "exited" => pcm = None
  /\ handle = "gone" => writer = "exited"
  /\ \A c \in Closers : closer[c] = "done" => writer = "exited"

OrderInv ==
  /\ \A i, j \in DOMAIN heard : i < j => heard[i].n < heard[j].n
  /\ \A i, j \in DOMAIN queue :
       i < j /\ queue[i].kind = "write" /\ queue[j].kind = "write" => queue[i].n < queue[j].n
  /\ \A i \in DOMAIN heard, j \in DOMAIN queue : queue[j].kind = "write" => heard[i].n < queue[j].n
  /\ \A j \in DOMAIN queue : queue[j].kind = "write" => queue[j].n <= Sent
  /\ \A i \in DOMAIN heard : heard[i].n <= Sent
  /\ writer = "write" =>
       /\ msg.n <= Sent
       /\ \A i \in DOMAIN heard : heard[i].n < msg.n
       /\ \A j \in DOMAIN queue : queue[j].kind = "write" => msg.n < queue[j].n

\* Close enters the channel once, behind every chunk it finds there.
CloseInv ==
  /\ tx => \A c \in Closers : closer[c] # "send"
  /\ \A c, d \in Closers : closer[c] = "send" /\ closer[d] = "send" => c = d
  /\ tx \/ (\E c \in Closers : closer[c] = "send") => accepted = -1
  /\ accepted = -1 => NoClose /\ writer \notin {"drain", "exited"}

CoveredInv ==
  /\ writer \in {"drain", "exited"} => \A k \in 1..accepted : WasHeard(k) \/ k \in lost
  /\ writer \notin {"drain", "exited"} =>
       \A k \in 1..(IF accepted = -1 THEN Sent ELSE accepted) :
         WasHeard(k) \/ k \in lost \/ InHand(k) \/ InChannel(k)

AlsaInv == TypeOK /\ PlaceInv /\ OrderInv /\ CloseInv /\ CoveredInv

\* The initial states satisfy the invariant.
LEMMA AlsaInit == Init => AlsaInv
<1> SUFFICES ASSUME Init PROVE AlsaInv
  OBVIOUS
<1>1. /\ tx = TRUE /\ handle = "there" /\ queue = <<>> /\ writer = "recv" /\ msg = Close
      /\ pcm = None /\ currentFmt = None /\ stalled = FALSE /\ task = "play" /\ fmt = None
      /\ sent = 0 /\ changes = 0 /\ told = FALSE /\ closer = [c \in Closers |-> "none"]
      /\ heard = <<>> /\ lost = {} /\ accepted = -1
  BY DEF Init
<1>2. TypeOK
  <2>1. msg \in Msg
    BY <1>1 DEF Msg, Close
  <2>2. closer \in [Closers -> {"none", "send", "join", "joining", "done"}]
    BY <1>1
  <2>3. queue \in Seq(Msg) /\ Len(queue) <= Capacity /\ heard \in Seq(Heard)
    BY <1>1, AlsaBounds
  <2>4. sent \in 0..MaxChunks /\ changes \in 0..MaxChanges /\ accepted \in -1..MaxChunks
    BY <1>1, AlsaBounds
  <2> QED
    BY <1>1, <2>1, <2>2, <2>3, <2>4 DEF TypeOK
<1>3. PlaceInv /\ CloseInv
  BY <1>1 DEF PlaceInv, CloseInv, NoClose
<1>4. OrderInv /\ CoveredInv
  BY <1>1 DEF OrderInv, CoveredInv, Sent
<1> QED
  BY <1>2, <1>3, <1>4 DEF AlsaInv

\* The numbers in the channel, and those the device took.
LEMMA Numbers ==
  ASSUME TypeOK
  PROVE  /\ Len(queue) \in Nat /\ DOMAIN queue = 1..Len(queue)
         /\ \A i \in DOMAIN queue : queue[i] \in Msg
         /\ \A i \in DOMAIN queue : queue[i].kind = "write" => queue[i].n \in Nat
         /\ Len(heard) \in Nat /\ DOMAIN heard = 1..Len(heard)
         /\ \A i \in DOMAIN heard : heard[i].n \in Nat
         /\ msg.kind = "write" => msg.n \in Nat
         /\ sent \in Nat /\ Sent \in Int /\ accepted \in Int
<1>1. /\ Len(queue) \in Nat /\ DOMAIN queue = 1..Len(queue) /\ \A i \in 1..Len(queue) : queue[i] \in Msg
  BY Queued, Zenon DEF TypeOK
<1>2. /\ Len(heard) \in Nat /\ DOMAIN heard = 1..Len(heard) /\ \A i \in 1..Len(heard) : heard[i] \in Heard
  BY Queued, Zenon DEF TypeOK
<1>3. \A i \in DOMAIN queue : queue[i].kind = "write" => queue[i].n \in 1..MaxChunks
  BY <1>1, Kinds, Zenon
<1>4. \A i \in DOMAIN heard : heard[i].n \in 1..MaxChunks
  BY <1>2 DEF Heard
<1>5. msg.kind = "write" => msg.n \in 1..MaxChunks
  BY Kinds DEF TypeOK
<1>6. sent \in Nat /\ Sent \in Int /\ accepted \in Int
  BY AlsaBounds DEF TypeOK, Sent
<1> QED
  BY <1>1, <1>2, <1>3, <1>4, <1>5, <1>6, AlsaBounds

\* What a step must show that leaves the channel, the writer and the device alone.
LEMMA AlsaAside ==
  ASSUME AlsaInv, TypeOK', PlaceInv', CloseInv',
         UNCHANGED <<queue, writer, msg, heard, lost, accepted>>,
         Sent' = Sent \/ (Sent' = Sent + 1 /\ writer = "exited")
  PROVE  AlsaInv'
<1>1. OrderInv'
  <2>1. Sent \in Int /\ (\A i \in DOMAIN heard : heard[i].n \in Nat) /\ (msg.kind = "write" => msg.n \in Nat)
        /\ \A i \in DOMAIN queue : queue[i].kind = "write" => queue[i].n \in Nat
    BY Numbers DEF AlsaInv
  <2>2. writer = "write" => msg.kind = "write"
    BY DEF AlsaInv, PlaceInv
  <2> QED
    BY <2>1, <2>2 DEF AlsaInv, OrderInv
<1>2. CoveredInv'
  BY DEF AlsaInv, CoveredInv, WasHeard, InHand, InChannel, BeforeClose
<1> QED
  BY <1>1, <1>2 DEF AlsaInv

\* The task, but for what it sends.
LEMMA TaskAside ==
  ASSUME AlsaInv,
         \/ (\E f \in Formats : SetFormat(f)) /\ UNCHANGED queue
         \/ Write \/ End \/ (Send /\ writer = "exited")
  PROVE  AlsaInv'
<1>1. TypeOK /\ PlaceInv /\ CloseInv
  BY DEF AlsaInv
<1>2. UNCHANGED <<tx, handle, queue, writer, msg, pcm, currentFmt, stalled, heard, lost, closer, accepted>>
  BY DEF SetFormat, Write, End, Send, device
<1>3. /\ task' \in {"play", "send", "end"} /\ fmt' \in Formats \cup {None}
      /\ sent' \in 0..MaxChunks /\ changes' \in 0..MaxChanges /\ told' \in BOOLEAN
      /\ task' = "send" => sent' >= 1 /\ fmt' # None
      /\ Sent' = Sent \/ (Sent' = Sent + 1 /\ writer = "exited")
  <2>1. /\ sent \in 0..MaxChunks /\ changes \in 0..MaxChanges /\ told \in BOOLEAN /\ fmt \in Formats \cup {None}
        /\ task = "send" => sent >= 1 /\ fmt # None
    BY <1>1 DEF TypeOK, PlaceInv
  <2>2. CASE \E f \in Formats : SetFormat(f)
    BY <2>1, <2>2, AlsaBounds DEF SetFormat, Sent
  <2>3. CASE Write
    BY <2>1, <2>3, AlsaBounds DEF Write, Sent
  <2>4. CASE End
    BY <2>1, <2>4, AlsaBounds DEF End, Sent
  <2>5. CASE Send /\ writer = "exited"
    BY <2>1, <2>5, AlsaBounds DEF Send, Sent
  <2> QED
    BY <2>2, <2>3, <2>4, <2>5
<1>4. TypeOK'
  BY <1>1, <1>2, <1>3 DEF TypeOK
<1>5. PlaceInv'
  BY <1>1, <1>2, <1>3 DEF PlaceInv
<1>6. CloseInv'
  BY <1>1, <1>2 DEF CloseInv, NoClose
<1> QED
  BY <1>2, <1>3, <1>4, <1>5, <1>6, AlsaAside

\* The stages of close(), but for Close itself, and a device that stalls.
LEMMA CloserAside ==
  ASSUME AlsaInv, Stall \/ \E c \in Closers : TakeTx(c) \/ Join(c) \/ Joined(c)
  PROVE  AlsaInv'
<1>1. TypeOK /\ PlaceInv /\ CloseInv
  BY DEF AlsaInv
<1>2. UNCHANGED <<queue, writer, msg, pcm, currentFmt, heard, lost, task, fmt, sent, changes, told, accepted>>
  BY DEF TakeTx, Join, Joined, Stall, device, player
<1>3. Sent' = Sent
  BY <1>2 DEF Sent
<1>4. closer \in [Closers -> {"none", "send", "join", "joining", "done"}]
  BY <1>1 DEF TypeOK
<1>5. CASE Stall
  <2>1. TypeOK'
    BY <1>1, <1>2, <1>5 DEF TypeOK, Stall, player
  <2>2. PlaceInv' /\ CloseInv'
    BY <1>1, <1>2, <1>5 DEF PlaceInv, CloseInv, NoClose, Stall, player
  <2> QED
    BY <1>2, <1>3, <2>1, <2>2, AlsaAside
<1>6. ASSUME NEW c \in Closers, TakeTx(c)
      PROVE  AlsaInv'
  <2>1. /\ closer[c] = "none" /\ tx' = FALSE /\ UNCHANGED <<handle, stalled>>
        /\ closer' = [closer EXCEPT ![c] = IF tx THEN "send" ELSE "join"]
    BY <1>6 DEF TakeTx, At, Go, device
  <2>2. closer' \in [Closers -> {"none", "send", "join", "joining", "done"}]
    BY <1>4, <2>1
  <2>3. TypeOK'
    BY <1>1, <1>2, <2>1, <2>2 DEF TypeOK
  <2>4. PlaceInv'
    BY <1>1, <1>2, <1>4, <2>1 DEF PlaceInv
  <2>5. CloseInv'
    BY <1>1, <1>2, <1>4, <2>1 DEF CloseInv, NoClose
  <2> QED
    BY <1>2, <1>3, <2>3, <2>4, <2>5, AlsaAside
<1>7. ASSUME NEW c \in Closers, Join(c) \/ Joined(c)
      PROVE  AlsaInv'
  <2>1. /\ UNCHANGED <<tx, stalled>>
        /\ \/ handle' = c /\ closer' = [closer EXCEPT ![c] = "joining"]
           \/ /\ closer' = [closer EXCEPT ![c] = "done"] /\ writer = "exited"
              /\ handle' \in {handle, "gone"}
    BY <1>1, <1>7 DEF Join, Joined, At, Go, TypeOK, PlaceInv, device
  <2>2. closer' \in [Closers -> {"none", "send", "join", "joining", "done"}]
    BY <1>4, <2>1
  <2>3. TypeOK'
    BY <1>1, <1>2, <2>1, <2>2 DEF TypeOK
  <2>4. PlaceInv'
    BY <1>1, <1>2, <1>4, <2>1 DEF PlaceInv, Closers
  <2>5. CloseInv'
    BY <1>1, <1>2, <1>4, <2>1 DEF CloseInv, NoClose
  <2> QED
    BY <1>2, <1>3, <2>3, <2>4, <2>5, AlsaAside
<1> QED
  BY <1>5, <1>6, <1>7

\* What a step must show that appends to the channel and leaves the writer and the
\* device alone.
LEMMA AlsaAppends ==
  ASSUME AlsaInv, NEW m \in Msg, Room, queue' = Append(queue, m), writer # "exited",
         UNCHANGED <<writer, msg, heard, lost, pcm, currentFmt, stalled>>,
         TypeOK', PlaceInv', CloseInv',
         m.kind = "write" => m.n = Sent + 1 /\ Sent' = Sent + 1,
         m.kind # "write" => Sent' = Sent,
         m.kind # "close" => accepted' = accepted,
         m.kind = "close" => accepted' = Sent /\ accepted = -1
  PROVE  AlsaInv'
<1>1. TypeOK /\ PlaceInv /\ OrderInv /\ CloseInv /\ CoveredInv
  BY DEF AlsaInv
<1>2. /\ DOMAIN queue = 1..Len(queue) /\ DOMAIN queue' = 1..(Len(queue) + 1) /\ Len(queue) \in Nat
      /\ queue'[Len(queue) + 1] = m /\ \A i \in 1..Len(queue) : queue'[i] = queue[i]
  BY <1>1, Appended DEF TypeOK
<1>3. OrderInv'
  <2>1. Sent \in Int /\ (\A i \in DOMAIN heard : heard[i].n \in Nat) /\ (msg.kind = "write" => msg.n \in Nat)
        /\ \A i \in DOMAIN queue : queue[i].kind = "write" => queue[i].n \in Nat
    BY <1>1, Numbers
  <2>2. writer = "write" => msg.kind = "write"
    BY <1>1 DEF PlaceInv
  <2>3. /\ Sent' >= Sent /\ m.kind \in {"write", "set_format", "close"}
        /\ m.kind = "write" => m.n > Sent /\ m.n = Sent' /\ m.n \in Int
    BY <2>1, Kinds
  <2> QED
    BY <1>1, <1>2, <2>1, <2>2, <2>3 DEF OrderInv
<1>4. CoveredInv'
  <2>1. ASSUME NEW k, InChannel(k) PROVE InChannel(k)'
    <3>1. PICK i \in DOMAIN queue : queue[i].kind = "write" /\ queue[i].n = k /\ BeforeClose(i)
      BY <2>1 DEF InChannel
    <3>2. BeforeClose(i)'
      BY <1>2, <3>1 DEF BeforeClose
    <3> QED
      BY <1>2, <3>1, <3>2 DEF InChannel
  <2>2. ASSUME NEW k \in Int, WasHeard(k) \/ k \in lost \/ InHand(k) \/ InChannel(k)
        PROVE  (WasHeard(k) \/ k \in lost \/ InHand(k) \/ InChannel(k))'
    BY <2>1, <2>2 DEF WasHeard, InHand
  <2>3. ASSUME m.kind = "write", accepted = -1 PROVE InChannel(m.n)'
    <3>1. \A j \in DOMAIN queue' : queue'[j].kind # "close"
      BY <1>1, <1>2, <2>3, Numbers DEF CloseInv, NoClose, TypeOK
    <3> QED
      BY <1>2, <2>3, <3>1 DEF InChannel, BeforeClose
  <2>4. Sent \in Int /\ accepted \in Int /\ m.kind \in {"write", "set_format", "close"}
    BY <1>1, Numbers, Kinds
  <2> DEFINE In(k) == WasHeard(k) \/ k \in lost \/ InHand(k) \/ InChannel(k)
  <2>5. CASE writer = "drain"
    BY <1>1, <1>2, <2>5 DEF CloseInv, CoveredInv, WasHeard
  <2>6. CASE writer \notin {"drain", "exited"}
    <3>1. ASSUME NEW k \in 1..(IF accepted' = -1 THEN Sent' ELSE accepted')
          PROVE  In(k)'
      <4>1. CASE k \in 1..(IF accepted = -1 THEN Sent ELSE accepted)
        <5>1. In(k) /\ k \in Int
          BY <1>1, <2>6, <4>1 DEF CoveredInv
        <5> QED
          BY <2>2, <5>1
      <4>2. CASE k \notin 1..(IF accepted = -1 THEN Sent ELSE accepted)
        <5>1. m.kind = "write" /\ accepted = -1 /\ k = m.n
          BY <2>4, <3>1, <4>2
        <5> QED
          BY <2>3, <5>1
      <4> QED
        BY <4>1, <4>2
    <3> QED
      BY <2>6, <3>1 DEF CoveredInv
  <2> QED
    BY <2>5, <2>6
<1> QED
  BY <1>3, <1>4 DEF AlsaInv

\* A format, a chunk or Close enters the channel.
LEMMA Sending ==
  ASSUME AlsaInv,
         \/ (\E f \in Formats : SetFormat(f)) /\ queue' # queue
         \/ Send /\ writer # "exited"
         \/ \E c \in Closers : SendClose(c)
  PROVE  AlsaInv'
<1>1. TypeOK /\ PlaceInv /\ CloseInv
  BY DEF AlsaInv
<1>2. /\ queue \in Seq(Msg) /\ Len(queue) <= Capacity /\ sent \in 0..MaxChunks /\ changes \in 0..MaxChanges /\ told \in BOOLEAN
      /\ fmt \in Formats \cup {None} /\ accepted \in -1..MaxChunks
      /\ closer \in [Closers -> {"none", "send", "join", "joining", "done"}]
      /\ task = "send" => sent >= 1 /\ fmt # None
  BY <1>1 DEF TypeOK, PlaceInv
<1>3. ASSUME NEW m \in Msg, Room, queue' = Append(queue, m)
      PROVE  /\ queue' \in Seq(Msg) /\ Len(queue') <= Capacity
             /\ \A j \in DOMAIN queue' : queue'[j] = m \/ (j \in DOMAIN queue /\ queue'[j] = queue[j])
  <2>1. Append(queue, m) \in Seq(Msg) /\ Len(Append(queue, m)) = Len(queue) + 1 /\ Len(queue) \in Nat
        /\ DOMAIN queue = 1..Len(queue) /\ DOMAIN Append(queue, m) = 1..(Len(queue) + 1)
        /\ Append(queue, m)[Len(queue) + 1] = m /\ \A i \in 1..Len(queue) : Append(queue, m)[i] = queue[i]
    BY <1>2, Appended
  <2>2. Len(queue) < Capacity
    BY <1>3 DEF Room
  <2>3. Len(queue) + 1 <= Capacity
    BY <2>1, <2>2, AlsaBounds
  <2>4. \A j \in 1..(Len(queue) + 1) : j = Len(queue) + 1 \/ j \in 1..Len(queue)
    BY <2>1
  <2> QED
    BY <1>3, <2>1, <2>3, <2>4, Zenon
<1>4. ASSUME NEW f \in Formats, SetFormat(f), queue' # queue
      PROVE  AlsaInv'
  <2> DEFINE m == [kind |-> "set_format", fmt |-> f]
  <2>1. /\ task = "play" /\ fmt' = f /\ changes' = changes + 1 /\ changes < MaxChanges /\ told' = TRUE /\ Room /\ writer # "exited"
        /\ queue' = Append(queue, m)
        /\ UNCHANGED <<tx, handle, device, task, sent, closer, accepted>>
    BY <1>4 DEF SetFormat, TrySend
  <2>2. m \in Msg /\ m.kind = "set_format"
    BY DEF Msg
  <2> HIDE DEF m
  <2>3. /\ queue' \in Seq(Msg) /\ Len(queue') <= Capacity
        /\ \A j \in DOMAIN queue' : queue'[j] = m \/ (j \in DOMAIN queue /\ queue'[j] = queue[j])
    BY <1>3, <2>1, <2>2
  <2>4. TypeOK'
    BY <1>1, <1>2, <2>1, <2>3, AlsaBounds DEF TypeOK, device
  <2>5. PlaceInv'
    BY <1>1, <2>1 DEF PlaceInv, device
  <2>6. CloseInv'
    BY <1>1, <2>1, <2>2, <2>3 DEF CloseInv, NoClose, device
  <2>7. Sent' = Sent
    BY <2>1 DEF Sent
  <2> QED
    BY <2>1, <2>2, <2>4, <2>5, <2>6, <2>7, AlsaAppends DEF device
<1>5. ASSUME Send, writer # "exited"
      PROVE  AlsaInv'
  <2> DEFINE m == [kind |-> "write", n |-> sent, fmt |-> fmt, told |-> told]
  <2>1. /\ task = "send" /\ Room /\ task' = "play" /\ queue' = Append(queue, m)
        /\ UNCHANGED <<tx, handle, device, fmt, sent, changes, told, closer, accepted>>
    BY <1>5 DEF Send
  <2>2. m \in Msg /\ m.kind = "write" /\ m.n = sent
    BY <1>2, <2>1, AlsaBounds DEF Msg, Chunk
  <2> HIDE DEF m
  <2>3. /\ queue' \in Seq(Msg) /\ Len(queue') <= Capacity
        /\ \A j \in DOMAIN queue' : queue'[j] = m \/ (j \in DOMAIN queue /\ queue'[j] = queue[j])
    BY <1>3, <2>1, <2>2
  <2>4. TypeOK'
    BY <1>1, <1>2, <2>1, <2>3 DEF TypeOK, device
  <2>5. PlaceInv'
    BY <1>1, <2>1 DEF PlaceInv, device
  <2>6. CloseInv'
    BY <1>1, <2>1, <2>2, <2>3 DEF CloseInv, NoClose, device
  <2>7. Sent' = Sent + 1 /\ m.n = Sent + 1
    BY <1>2, <2>1, <2>2, AlsaBounds DEF Sent
  <2> QED
    BY <1>5, <2>1, <2>2, <2>4, <2>5, <2>6, <2>7, AlsaAppends DEF device
<1>6. ASSUME NEW c \in Closers, SendClose(c)
      PROVE  AlsaInv'
  <2>1. /\ closer[c] = "send" /\ Room /\ closer' = [closer EXCEPT ![c] = "join"]
        /\ queue' = Append(queue, Close) /\ accepted' = Sent
        /\ UNCHANGED <<tx, handle, device, player>>
    BY <1>6 DEF SendClose, At, Go, Sent
  <2>2. Close \in Msg /\ Close.kind = "close"
    BY DEF Msg, Close
  <2>3. /\ queue' \in Seq(Msg) /\ Len(queue') <= Capacity
        /\ \A j \in DOMAIN queue' : queue'[j] = Close \/ (j \in DOMAIN queue /\ queue'[j] = queue[j])
    BY <1>3, <2>1, <2>2
  <2>4. Sent \in 0..MaxChunks /\ Sent' = Sent /\ accepted = -1 /\ ~tx /\ writer # "exited"
    BY <1>1, <1>2, <2>1, AlsaBounds DEF CloseInv, Sent, player
  <2>5. closer' \in [Closers -> {"none", "send", "join", "joining", "done"}]
    BY <1>2, <2>1
  <2>6. TypeOK'
    BY <1>1, <1>2, <2>1, <2>3, <2>4, <2>5, AlsaBounds DEF TypeOK, device, player
  <2>7. PlaceInv'
    BY <1>1, <1>2, <2>1 DEF PlaceInv, device, player
  <2>8. CloseInv'
    <3>1. \A d \in Closers : closer'[d] # "send"
      BY <1>1, <1>2, <2>1 DEF CloseInv
    <3>2. accepted' # -1 /\ ~tx'
      BY <2>1, <2>4, AlsaBounds
    <3> QED
      BY <3>1, <3>2 DEF CloseInv
  <2> QED
    BY <2>1, <2>2, <2>4, <2>6, <2>7, <2>8, AlsaAppends DEF device
<1> QED
  BY <1>4, <1>5, <1>6

\* The writer takes the next message.
LEMMA Receiving ==
  ASSUME AlsaInv, Recv
  PROVE  AlsaInv'
<1>1. TypeOK /\ PlaceInv /\ OrderInv /\ CloseInv /\ CoveredInv
  BY DEF AlsaInv
<1>2. /\ writer = "recv" /\ queue # <<>> /\ msg' = Head(queue) /\ queue' = Tail(queue)
      /\ UNCHANGED <<tx, handle, currentFmt, stalled, heard, task, fmt, sent, changes, told, closer, accepted>>
  BY DEF Recv, player
<1>3. /\ queue' \in Seq(Msg) /\ Len(queue') <= Capacity /\ msg' \in Msg /\ Len(queue) \in Nat \ {0}
      /\ DOMAIN queue = 1..Len(queue) /\ DOMAIN queue' = 1..(Len(queue) - 1) /\ msg' = queue[1]
      /\ \A i \in 1..(Len(queue) - 1) : queue'[i] = queue[i + 1]
  <2>1. queue \in Seq(Msg) /\ Len(queue) <= Capacity
    BY <1>1 DEF TypeOK
  <2> QED
    BY <1>2, <2>1, Taken, AlsaBounds
<1>4. Sent' = Sent
  BY <1>2 DEF Sent
<1>5. /\ msg'.kind \in {"write", "set_format", "close"} /\ (msg'.kind = "write" => msg'.n \in 1..MaxChunks)
  BY <1>3, Kinds
<1>6. \/ /\ msg'.kind = "close" /\ writer' = "drain" /\ UNCHANGED <<pcm, lost>>
      \/ /\ msg'.kind = "set_format" /\ writer' \in {"recv", "open"} /\ pcm' \in {pcm, None} /\ lost' = lost
      \/ /\ msg'.kind = "write" /\ pcm' = pcm
         /\ \/ writer' = "recv" /\ lost' = lost \cup {msg'.n}
            \/ writer' = "write" /\ pcm # None /\ lost' = lost
  BY <1>2 DEF Recv, Lose
<1>7. TypeOK'
  <2>1. lost' \subseteq 1..MaxChunks /\ pcm' \in Formats \cup {None}
    BY <1>1, <1>5, <1>6 DEF TypeOK
  <2> QED
    BY <1>1, <1>2, <1>3, <1>6, <2>1 DEF TypeOK
<1>8. PlaceInv'
  BY <1>1, <1>2, <1>6 DEF PlaceInv
<1>9. ASSUME NEW i \in DOMAIN queue' PROVE i \in DOMAIN queue /\ i + 1 \in DOMAIN queue /\ queue'[i] = queue[i + 1]
  BY <1>3
<1>10. CloseInv'
  <2>1. accepted = -1 => NoClose' /\ msg'.kind # "close"
    BY <1>1, <1>3, <1>9 DEF CloseInv, NoClose
  <2> QED
    BY <1>1, <1>2, <1>6, <2>1 DEF CloseInv
<1>11. OrderInv'
  <2>1. \A i, j \in DOMAIN queue' :
          i < j /\ queue'[i].kind = "write" /\ queue'[j].kind = "write" => queue'[i].n < queue'[j].n
    BY <1>1, <1>3, <1>9 DEF OrderInv
  <2>2. \A i \in DOMAIN heard, j \in DOMAIN queue' : queue'[j].kind = "write" => heard[i].n < queue'[j].n
    BY <1>1, <1>9 DEF OrderInv
  <2>3. \A j \in DOMAIN queue' : queue'[j].kind = "write" => queue'[j].n <= Sent
    BY <1>1, <1>9 DEF OrderInv
  <2>4. writer' = "write" =>
          /\ msg'.n <= Sent /\ \A i \in DOMAIN heard : heard[i].n < msg'.n
          /\ \A j \in DOMAIN queue' : queue'[j].kind = "write" => msg'.n < queue'[j].n
    <3> SUFFICES ASSUME writer' = "write" PROVE
          /\ msg'.n <= Sent /\ \A i \in DOMAIN heard : heard[i].n < msg'.n
          /\ \A j \in DOMAIN queue' : queue'[j].kind = "write" => msg'.n < queue'[j].n
      OBVIOUS
    <3>1. msg'.kind = "write" /\ msg' = queue[1] /\ 1 \in DOMAIN queue
      BY <1>3, <1>6
    <3> QED
      BY <1>1, <1>3, <1>9, <3>1 DEF OrderInv
  <2> QED
    BY <1>1, <1>2, <1>4, <2>1, <2>2, <2>3, <2>4 DEF OrderInv
<1>12. CoveredInv'
  <2> DEFINE In(k) == WasHeard(k) \/ k \in lost \/ InHand(k) \/ InChannel(k)
             last == IF accepted = -1 THEN Sent ELSE accepted
  <2>1. \A k \in 1..last : WasHeard(k) \/ k \in lost \/ InChannel(k)
    BY <1>1, <1>2 DEF CoveredInv, InHand
  <2>2. CASE msg'.kind = "close"
    <3>1. ASSUME NEW k PROVE ~InChannel(k)
      BY <1>3, <2>2 DEF InChannel, BeforeClose
    <3>2. accepted # -1
      BY <1>1, <1>3, <2>2 DEF CloseInv, NoClose
    <3> QED
      BY <1>2, <1>6, <2>1, <2>2, <3>1, <3>2 DEF CoveredInv, WasHeard
  <2>3. CASE msg'.kind # "close"
    <3>1. ASSUME NEW k, InChannel(k) PROVE In(k)'
      <4>1. PICK i \in DOMAIN queue : queue[i].kind = "write" /\ queue[i].n = k /\ BeforeClose(i)
        BY <3>1 DEF InChannel
      <4>2. CASE i = 1
        BY <1>3, <1>6, <4>1, <4>2 DEF InHand
      <4>3. CASE i # 1
        <5>1. i - 1 \in DOMAIN queue' /\ queue'[i - 1] = queue[i]
          BY <1>3, <4>3
        <5>2. ASSUME NEW j \in DOMAIN queue', queue'[j].kind = "close" PROVE i - 1 < j
          <6>1. j + 1 \in DOMAIN queue /\ queue[j + 1].kind = "close"
            BY <1>9, <5>2
          <6>2. i < j + 1
            BY <4>1, <6>1 DEF BeforeClose
          <6> QED
            BY <1>3, <6>1, <6>2
        <5> QED
          BY <4>1, <5>1, <5>2 DEF InChannel, BeforeClose
      <4> QED
        BY <4>2, <4>3
    <3>2. ASSUME NEW k, WasHeard(k) \/ k \in lost PROVE In(k)'
      BY <1>2, <1>6, <3>2 DEF WasHeard
    <3>3. writer' \notin {"drain", "exited"}
      BY <1>2, <1>6, <2>3
    <3> HIDE DEF In
    <3>4. \A k \in 1..last : In(k)'
      BY <2>1, <3>1, <3>2
    <3> QED
      BY <1>2, <1>4, <3>3, <3>4 DEF CoveredInv, In
  <2> QED
    BY <2>2, <2>3
<1> QED
  BY <1>7, <1>8, <1>10, <1>11, <1>12 DEF AlsaInv

\* The writer opens the PCM, hands it a chunk, or drains it and ends.
LEMMA Writing ==
  ASSUME AlsaInv, Open \/ WriteDevice \/ Drain
  PROVE  AlsaInv'
<1>1. TypeOK /\ PlaceInv /\ OrderInv /\ CloseInv /\ CoveredInv
  BY DEF AlsaInv
<1>2. UNCHANGED <<tx, handle, msg, stalled, task, fmt, sent, changes, told, closer, accepted>>
  BY DEF Open, WriteDevice, Drain, player
<1>3. Sent' = Sent
  BY <1>2 DEF Sent
<1>4. CASE Open
  <2>1. /\ writer = "open" /\ writer' = "recv" /\ pcm' \in {pcm, msg.fmt} /\ currentFmt' \in {currentFmt, msg.fmt}
        /\ UNCHANGED <<queue, heard, lost>>
    BY <1>4 DEF Open
  <2>2. msg.fmt \in Formats
    BY <1>1, <2>1, Kinds DEF TypeOK, PlaceInv
  <2>3. TypeOK' /\ PlaceInv'
    BY <1>1, <1>2, <2>1, <2>2 DEF TypeOK, PlaceInv
  <2>4. CloseInv' /\ OrderInv'
    BY <1>1, <1>2, <1>3, <2>1 DEF CloseInv, NoClose, OrderInv
  <2>5. CoveredInv'
    BY <1>1, <1>2, <1>3, <2>1 DEF CoveredInv, WasHeard, InHand, InChannel, BeforeClose
  <2> QED
    BY <2>3, <2>4, <2>5 DEF AlsaInv
<1>5. CASE WriteDevice
  <2> DEFINE h == [n |-> msg.n, fmt |-> msg.fmt, told |-> msg.told, pcm |-> pcm]
  <2>1. /\ writer = "write" /\ writer' = "recv" /\ UNCHANGED <<queue, pcm, currentFmt>>
        /\ \/ heard' = Append(heard, h) /\ lost' = lost
           \/ heard' = heard /\ lost' = IF msg.kind = "write" THEN lost \cup {msg.n} ELSE lost
    BY <1>5 DEF WriteDevice, Lose
  <2>2. msg.kind = "write" /\ msg \in Chunk /\ msg.n \in 1..MaxChunks /\ heard \in Seq(Heard)
    BY <1>1, <2>1, Kinds DEF TypeOK, PlaceInv
  <2>9. h \in Heard /\ h.n = msg.n
    BY <1>1, <2>1, <2>2 DEF TypeOK, PlaceInv, Heard, Chunk
  <2> HIDE DEF h
  <2>3. /\ DOMAIN heard = 1..Len(heard) /\ Len(heard) \in Nat
        /\ DOMAIN Append(heard, h) = 1..(Len(heard) + 1) /\ Append(heard, h) \in Seq(Heard)
        /\ Append(heard, h)[Len(heard) + 1] = h
        /\ \A i \in 1..Len(heard) : Append(heard, h)[i] = heard[i]
    BY <2>2, <2>9, Appended
  <2>4. heard' \in Seq(Heard) /\ lost' \subseteq 1..MaxChunks
    BY <1>1, <2>1, <2>2, <2>3 DEF TypeOK
  <2>5. TypeOK' /\ PlaceInv'
    BY <1>1, <1>2, <2>1, <2>4 DEF TypeOK, PlaceInv
  <2>6. CloseInv'
    BY <1>1, <1>2, <2>1 DEF CloseInv, NoClose
  <2>7. OrderInv'
    <3>1. CASE heard' = heard
      BY <1>1, <1>3, <2>1, <3>1 DEF OrderInv
    <3>2. CASE heard' = Append(heard, h)
      <4>1. /\ DOMAIN heard' = 1..(Len(heard) + 1)
            /\ \A i \in DOMAIN heard' : IF i = Len(heard) + 1 THEN heard'[i].n = msg.n
                                        ELSE i \in DOMAIN heard /\ heard'[i].n = heard[i].n
        BY <2>3, <2>9, <3>2
      <4>2. /\ msg.n <= Sent /\ \A i \in DOMAIN heard : heard[i].n < msg.n
            /\ \A j \in DOMAIN queue : queue[j].kind = "write" => msg.n < queue[j].n
        BY <1>1, <2>1 DEF OrderInv
      <4>3. \A i, j \in DOMAIN heard' : i < j => heard'[i].n < heard'[j].n
        BY <1>1, <2>3, <4>1, <4>2 DEF OrderInv
      <4>4. \A i \in DOMAIN heard', j \in DOMAIN queue : queue[j].kind = "write" => heard'[i].n < queue[j].n
        BY <1>1, <4>1, <4>2 DEF OrderInv
      <4>5. \A i \in DOMAIN heard' : heard'[i].n <= Sent
        BY <1>1, <4>1, <4>2 DEF OrderInv
      <4> QED
        BY <1>1, <1>3, <2>1, <4>3, <4>4, <4>5 DEF OrderInv
    <3> QED
      BY <2>1, <3>1, <3>2
  <2>8. CoveredInv'
    <3> DEFINE last == IF accepted = -1 THEN Sent ELSE accepted
    <3>1. \A k \in 1..last : WasHeard(k) \/ k \in lost \/ InHand(k) \/ InChannel(k)
      BY <1>1, <2>1 DEF CoveredInv
    <3>2. ASSUME NEW k, WasHeard(k) PROVE WasHeard(k)'
      BY <2>1, <2>3, <3>2 DEF WasHeard
    <3>3. ASSUME NEW k, InHand(k) PROVE WasHeard(k)' \/ k \in lost'
      BY <2>1, <2>2, <2>3, <2>9, <3>3 DEF WasHeard, InHand
    <3>4. ASSUME NEW k, InChannel(k) PROVE InChannel(k)'
      BY <2>1, <3>4 DEF InChannel, BeforeClose
    <3>5. \A k \in 1..last : (WasHeard(k) \/ k \in lost \/ InHand(k) \/ InChannel(k))'
      BY <2>1, <3>1, <3>2, <3>3, <3>4
    <3> QED
      BY <1>2, <1>3, <2>1, <3>5 DEF CoveredInv
  <2> QED
    BY <2>5, <2>6, <2>7, <2>8 DEF AlsaInv
<1>6. CASE Drain
  <2>1. /\ writer = "drain" /\ writer' = "exited" /\ pcm' = None /\ queue' = <<>>
        /\ UNCHANGED <<currentFmt, heard, lost>>
    BY <1>6 DEF Drain
  <2>2. queue' \in Seq(Msg) /\ Len(queue') = 0 /\ \A i \in DOMAIN queue' : FALSE
    BY <2>1
  <2>3. TypeOK' /\ PlaceInv'
    BY <1>1, <1>2, <2>1, <2>2, AlsaBounds DEF TypeOK, PlaceInv
  <2>4. CloseInv' /\ OrderInv'
    BY <1>1, <1>2, <1>3, <2>1, <2>2 DEF CloseInv, NoClose, OrderInv
  <2>5. CoveredInv'
    BY <1>1, <1>2, <2>1 DEF CoveredInv, WasHeard
  <2> QED
    BY <2>3, <2>4, <2>5 DEF AlsaInv
<1> QED
  BY <1>4, <1>5, <1>6

\* Every step of the ALSA sink keeps the invariant.
LEMMA AlsaNext == AlsaInv /\ [Next]_vars => AlsaInv'
<1> SUFFICES ASSUME AlsaInv, [Next]_vars PROVE AlsaInv'
  OBVIOUS
<1>1. CASE TaskStep
  BY <1>1, TaskAside, Sending DEF TaskStep
<1>2. CASE Send
  BY <1>2, TaskAside, Sending
<1>3. CASE Stall \/ \E c \in Closers : TakeTx(c) \/ CloseStep(c)
  BY <1>3, CloserAside, Sending DEF CloseStep
<1>4. CASE WriterStep
  BY <1>4, Receiving, Writing DEF WriterStep
<1>5. CASE UNCHANGED vars
  <2>1. TypeOK' /\ PlaceInv' /\ CloseInv' /\ Sent' = Sent
    BY <1>5 DEF vars, device, player, AlsaInv, TypeOK, PlaceInv, CloseInv, NoClose, Sent
  <2> QED
    BY <1>5, <2>1, AlsaAside DEF vars, device
<1> QED
  BY <1>1, <1>2, <1>3, <1>4, <1>5 DEF Next

\* The invariant implies the property.
LEMMA AlsaPlayed == AlsaInv => ClosedIsPlayed
<1> SUFFICES ASSUME AlsaInv PROVE ClosedIsPlayed
  OBVIOUS
<1>1. (\E c \in Closers : closer[c] = "done") => writer = "exited" /\ pcm = None
  BY DEF AlsaInv, PlaceInv
<1>2. \A i, j \in DOMAIN heard : i < j => heard[i].n < heard[j].n
  BY DEF AlsaInv, OrderInv
<1>3. writer = "exited" => 1..accepted \subseteq {heard[i].n : i \in DOMAIN heard} \cup lost
  BY DEF AlsaInv, CoveredInv, WasHeard
<1> QED
  BY <1>1, <1>2, <1>3 DEF ClosedIsPlayed

-----------------------------------------------------------------------------
(* Formats: the last one announced ahead of a chunk is the chunk's own, and *)
(* the PCM is open in no other unless a later announcement waits.          *)

Reach == IF writer = "open" THEN msg.fmt ELSE pcm
Unannounced(i) == \A k \in DOMAIN queue : k < i => queue[k].kind # "set_format"
LastAnnounced(j, i) ==
  /\ j < i /\ queue[j].kind = "set_format"
  /\ \A k \in DOMAIN queue : j < k /\ k < i => queue[k].kind # "set_format"
Suits(i, f) == \/ \E j \in DOMAIN queue : LastAnnounced(j, i) /\ queue[j].fmt = f
               \/ Unannounced(i) /\ Reach \in {None, f}

DeviceFormat ==
  /\ pcm # None => pcm = currentFmt
  /\ writer = "open" => pcm = None
  /\ writer = "write" /\ msg.told => pcm = msg.fmt
ChannelFormats ==
  /\ \A i \in DOMAIN queue : queue[i].kind = "write" /\ queue[i].told => Suits(i, queue[i].fmt)
  /\ told => Suits(Len(queue) + 1, fmt)

FormatInv == DeviceFormat /\ ChannelFormats /\ HeardAsCoded

\* The initial states satisfy the invariant.
LEMMA FormatInit == Init => FormatInv
<1> SUFFICES ASSUME Init PROVE FormatInv
  OBVIOUS
<1>1. queue = <<>> /\ writer = "recv" /\ pcm = None /\ told = FALSE /\ heard = <<>>
  BY DEF Init
<1> QED
  BY <1>1 DEF FormatInv, DeviceFormat, ChannelFormats, HeardAsCoded

\* The steps that leave the channel alone.
LEMMA FormatAside ==
  ASSUME AlsaInv, FormatInv, UNCHANGED queue, Reach' \in {None, Reach},
         DeviceFormat', HeardAsCoded', told' => told /\ fmt' = fmt
  PROVE  FormatInv'
<1>1. ASSUME NEW i, NEW f, Suits(i, f) PROVE Suits(i, f)'
  BY <1>1 DEF Suits, Unannounced, LastAnnounced
<1>2. ChannelFormats'
  BY <1>1 DEF FormatInv, ChannelFormats
<1> QED
  BY <1>2 DEF FormatInv

\* What enters the channel.
LEMMA FormatAppends ==
  ASSUME AlsaInv, FormatInv, NEW m \in Msg, queue' = Append(queue, m),
         UNCHANGED <<writer, msg, pcm, currentFmt, heard>>,
         m.kind = "write" => m.told = told /\ m.fmt = fmt,
         m.kind # "set_format" => UNCHANGED <<told, fmt>>,
         m.kind = "set_format" => m.fmt = fmt'
  PROVE  FormatInv'
<1> PICK last \in Nat : last = Len(queue)
  BY Queued DEF AlsaInv, TypeOK
<1>1. /\ DOMAIN queue = 1..last /\ DOMAIN queue' = 1..(last + 1) /\ Len(queue) = last
      /\ queue'[last + 1] = m /\ (\A i \in 1..last : queue'[i] = queue[i])
      /\ Len(queue') = last + 1
  BY Appended DEF AlsaInv, TypeOK
<1>2. Reach' = Reach
  BY DEF Reach
<1>3. ASSUME NEW i \in 1..(last + 1), NEW f, Suits(i, f) PROVE Suits(i, f)'
  <2>1. Unannounced(i) => Unannounced(i)'
    BY <1>1 DEF Unannounced
  <2>2. ASSUME NEW j \in DOMAIN queue, LastAnnounced(j, i)
        PROVE  j \in DOMAIN queue' /\ LastAnnounced(j, i)' /\ queue'[j].fmt = queue[j].fmt
    BY <1>1, <2>2 DEF LastAnnounced
  <2> QED
    BY <1>2, <1>3, <2>1, <2>2 DEF Suits
<1>4. m.kind # "set_format" => \A f : Suits(last + 1, f) => Suits(last + 2, f)'
  <2> SUFFICES ASSUME m.kind # "set_format", NEW f, Suits(last + 1, f)
               PROVE  Suits(last + 2, f)'
    OBVIOUS
  <2>1. Unannounced(last + 1) => Unannounced(last + 2)'
    BY <1>1 DEF Unannounced
  <2>2. ASSUME NEW j \in DOMAIN queue, LastAnnounced(j, last + 1)
        PROVE  j \in DOMAIN queue' /\ LastAnnounced(j, last + 2)' /\ queue'[j].fmt = queue[j].fmt
    BY <1>1, <2>2 DEF LastAnnounced
  <2> QED
    BY <1>2, <2>1, <2>2 DEF Suits
<1>5. m.kind = "set_format" => Suits(Len(queue) + 1, fmt)'
  <2> SUFFICES ASSUME m.kind = "set_format" PROVE Suits(Len(queue) + 1, fmt)'
    OBVIOUS
  <2>1. last + 1 \in DOMAIN queue' /\ LastAnnounced(last + 1, last + 2)'
    BY <1>1 DEF LastAnnounced
  <2>2. queue'[last + 1].fmt = fmt' /\ Len(queue') + 1 = last + 2
    BY <1>1
  <2> QED
    BY <1>1, <2>1, <2>2 DEF Suits
<1>6. \A i \in DOMAIN queue' : queue'[i].kind = "write" /\ queue'[i].told => Suits(i, queue[i].fmt)'
  <2> SUFFICES ASSUME NEW i \in DOMAIN queue', queue'[i].kind = "write", queue'[i].told
               PROVE  Suits(i, queue[i].fmt)'
    OBVIOUS
  <2>1. PICK f : f = queue'[i].fmt
    OBVIOUS
  <2>2. Suits(i, f)
    BY <1>1, <2>1 DEF FormatInv, ChannelFormats
  <2>3. Suits(i, f)'
    BY <1>1, <1>3, <2>2
  <2> QED
    BY <2>1, <2>3
<1>7. told' => Suits(Len(queue) + 1, fmt)'
  <2>1. CASE m.kind # "set_format"
    <3>1. PICK f : f = fmt
      OBVIOUS
    <3>2. told => Suits(last + 1, f)
      BY <1>1, <3>1 DEF FormatInv, ChannelFormats
    <3>3. told => Suits(last + 2, f)'
      BY <1>4, <2>1, <3>2
    <3>4. fmt' = f /\ Len(queue') + 1 = last + 2
      BY <1>1, <2>1, <3>1
    <3> QED
      BY <2>1, <3>3, <3>4
  <2> QED
    BY <1>5, <2>1
<1>8. ChannelFormats'
  BY <1>1, <1>6, <1>7 DEF ChannelFormats
<1>9. DeviceFormat' /\ HeardAsCoded'
  BY DEF FormatInv, DeviceFormat, HeardAsCoded
<1> QED
  BY <1>8, <1>9 DEF FormatInv

\* The writer takes a message: a format the PCM is open in already, another one that
\* closes it, or a chunk that finds the PCM open in its own format, or closed.
LEMMA FormatRecv == AlsaInv /\ FormatInv /\ Recv => FormatInv'
<1> SUFFICES ASSUME AlsaInv, FormatInv, Recv PROVE FormatInv'
  OBVIOUS
<1>1. /\ writer = "recv" /\ msg' = queue[1] /\ Len(queue) \in Nat \ {0} /\ DOMAIN queue = 1..Len(queue)
      /\ DOMAIN queue' = 1..(Len(queue) - 1) /\ Len(queue') = Len(queue) - 1
      /\ (\A i \in 1..(Len(queue) - 1) : queue'[i] = queue[i + 1])
      /\ UNCHANGED <<currentFmt, heard, fmt, told>>
  <2>1. queue \in Seq(Msg)
    BY DEF AlsaInv, TypeOK
  <2> QED
    BY <2>1, Taken DEF Recv, player
<1>2. /\ pcm # None => pcm = currentFmt
      /\ Reach = pcm
  BY <1>1 DEF FormatInv, DeviceFormat, Reach
<1>3. ASSUME NEW i \in 2..(Len(queue) + 1), NEW f, Suits(i, f) PROVE Suits(i - 1, f)'
  <2>1. CASE \E j \in DOMAIN queue : j # 1 /\ LastAnnounced(j, i) /\ queue[j].fmt = f
    <3>1. PICK j \in DOMAIN queue : j # 1 /\ LastAnnounced(j, i) /\ queue[j].fmt = f
      BY <2>1
    <3>2. j - 1 \in DOMAIN queue' /\ queue'[j - 1] = queue[j]
      BY <1>1, <3>1
    <3>3. LastAnnounced(j - 1, i - 1)'
      <4>1. ASSUME NEW k \in DOMAIN queue', j - 1 < k, k < i - 1
            PROVE  queue'[k].kind # "set_format"
        <5>1. k + 1 \in DOMAIN queue /\ j < k + 1 /\ k + 1 < i /\ queue'[k] = queue[k + 1]
          BY <1>1, <3>1, <4>1
        <5> QED
          BY <3>1, <5>1 DEF LastAnnounced
      <4>2. j - 1 < i - 1 /\ queue'[j - 1].kind = "set_format"
        BY <1>1, <3>1, <3>2 DEF LastAnnounced
      <4> QED
        BY <4>1, <4>2 DEF LastAnnounced
    <3> QED
      BY <3>1, <3>2, <3>3 DEF Suits
  <2>2. CASE LastAnnounced(1, i) /\ queue[1].fmt = f
    <3>1. Unannounced(i - 1)'
      BY <1>1, <2>2 DEF LastAnnounced, Unannounced
    <3>2. Reach' \in {None, f}
      BY <1>1, <1>2, <2>2 DEF LastAnnounced, Recv, Reach
    <3> QED
      BY <3>1, <3>2 DEF Suits
  <2>3. CASE Unannounced(i) /\ Reach \in {None, f}
    <3>1. queue[1].kind # "set_format" /\ Unannounced(i - 1)'
      BY <1>1, <2>3 DEF Unannounced
    <3>2. Reach' = Reach
      BY <1>1, <3>1 DEF Recv, Reach
    <3> QED
      BY <2>3, <3>1, <3>2 DEF Suits
  <2> QED
    BY <1>3, <2>1, <2>2, <2>3 DEF Suits
<1>4. ChannelFormats'
  <2>1. ASSUME NEW i \in DOMAIN queue', queue'[i].kind = "write", queue'[i].told
        PROVE  Suits(i, queue[i].fmt)'
    <3>1. PICK f : f = queue'[i].fmt
      OBVIOUS
    <3>2. i + 1 \in 2..(Len(queue) + 1) /\ i + 1 \in DOMAIN queue /\ queue'[i] = queue[i + 1] /\ (i + 1) - 1 = i
      BY <1>1
    <3>3. Suits(i + 1, f)
      BY <2>1, <3>1, <3>2 DEF FormatInv, ChannelFormats
    <3>4. Suits((i + 1) - 1, f)'
      BY <1>3, <3>2, <3>3
    <3> QED
      BY <3>1, <3>2, <3>4
  <2>2. told' => Suits(Len(queue) + 1, fmt)'
    <3> PICK f : f = fmt
      OBVIOUS
    <3>1. PICK i \in 2..(Len(queue) + 1) : i = Len(queue) + 1
      BY <1>1
    <3>2. told => Suits(i, f)
      BY <3>1 DEF FormatInv, ChannelFormats
    <3>3. told => Suits(i - 1, f)'
      BY <1>3, <3>2
    <3>4. fmt' = f /\ Len(queue') + 1 = i - 1
      BY <1>1, <3>1
    <3> QED
      BY <1>1, <3>3, <3>4
  <2> QED
    BY <2>1, <2>2 DEF ChannelFormats
<1>5. DeviceFormat'
  <2>1. queue[1].kind = "write" /\ queue[1].told => pcm \in {None, queue[1].fmt}
    <3>1. 1 \in DOMAIN queue /\ ~(\E j \in DOMAIN queue : j < 1)
      BY <1>1
    <3> QED
      BY <1>2, <3>1 DEF FormatInv, ChannelFormats, Suits, LastAnnounced
  <2> QED
    BY <1>1, <1>2, <2>1 DEF DeviceFormat, Recv
<1>6. HeardAsCoded'
  BY <1>1 DEF FormatInv, HeardAsCoded
<1> QED
  BY <1>4, <1>5, <1>6 DEF FormatInv

\* Every step of the ALSA sink keeps the formats.
LEMMA FormatNext == AlsaInv /\ FormatInv /\ [Next]_vars => FormatInv'
<1> SUFFICES ASSUME AlsaInv, FormatInv, [Next]_vars PROVE FormatInv'
  OBVIOUS
<1>1. TypeOK /\ PlaceInv /\ DeviceFormat /\ HeardAsCoded
  BY DEF AlsaInv, FormatInv
<1>2. ASSUME NEW f \in Formats, SetFormat(f) PROVE FormatInv'
  <2>1. UNCHANGED <<writer, msg, pcm, currentFmt, heard>> /\ fmt' = f
    BY <1>2 DEF SetFormat, device
  <2>2. CASE told'
    <3>1. queue' = Append(queue, [kind |-> "set_format", fmt |-> f])
      BY <1>2, <2>2 DEF SetFormat, TrySend
    <3>2. [kind |-> "set_format", fmt |-> f] \in Msg
      BY DEF Msg
    <3> QED
      BY <2>1, <3>1, <3>2, FormatAppends
  <2>3. CASE ~told'
    <3>1. queue' = queue
      BY <1>2, <2>3 DEF SetFormat, TrySend
    <3>2. DeviceFormat' /\ HeardAsCoded' /\ Reach' = Reach
      BY <1>1, <2>1 DEF DeviceFormat, HeardAsCoded, Reach
    <3> QED
      BY <2>3, <3>1, <3>2, FormatAside
  <2> QED
    BY <2>2, <2>3
<1>3. CASE Send /\ writer # "exited"
  <2> DEFINE m == [kind |-> "write", n |-> sent, fmt |-> fmt, told |-> told]
  <2>1. queue' = Append(queue, m) /\ UNCHANGED <<writer, msg, pcm, currentFmt, heard, told, fmt>>
    BY <1>3 DEF Send, device
  <2>2. m \in Msg
    BY <1>1, <1>3, AlsaBounds DEF Msg, Chunk, TypeOK, PlaceInv, Send
  <2> QED
    BY <2>1, <2>2, FormatAppends
<1>4. ASSUME NEW c \in Closers, SendClose(c) PROVE FormatInv'
  <2>1. queue' = Append(queue, Close) /\ UNCHANGED <<writer, msg, pcm, currentFmt, heard, told, fmt>>
    BY <1>4 DEF SendClose, device, player
  <2>2. Close \in Msg /\ Close.kind = "close"
    BY DEF Msg, Close
  <2> QED
    BY <2>1, <2>2, FormatAppends
<1>5. CASE \/ Write \/ End \/ (Send /\ writer = "exited") \/ Stall \/ UNCHANGED vars
           \/ \E c \in Closers : TakeTx(c) \/ Join(c) \/ Joined(c)
  <2>1. UNCHANGED <<queue, writer, msg, pcm, currentFmt, heard, told, fmt>>
    BY <1>5 DEF Write, End, Send, Stall, TakeTx, Join, Joined, vars, device, player
  <2>2. DeviceFormat' /\ HeardAsCoded' /\ Reach' = Reach
    BY <1>1, <2>1 DEF DeviceFormat, HeardAsCoded, Reach
  <2> QED
    BY <2>1, <2>2, FormatAside
<1>6. CASE Open
  <2>1. /\ writer = "open" /\ writer' = "recv" /\ pcm' \in {pcm, msg.fmt} /\ pcm = None
        /\ pcm' # None => pcm' = currentFmt'
        /\ UNCHANGED <<queue, msg, heard, told, fmt>>
    BY <1>1, <1>6 DEF Open, DeviceFormat, player
  <2>2. DeviceFormat' /\ HeardAsCoded' /\ Reach' \in {None, Reach}
    BY <1>1, <2>1 DEF DeviceFormat, HeardAsCoded, Reach
  <2> QED
    BY <2>1, <2>2, FormatAside
<1>7. CASE WriteDevice
  <2> DEFINE h == [n |-> msg.n, fmt |-> msg.fmt, told |-> msg.told, pcm |-> pcm]
  <2>1. /\ writer = "write" /\ writer' = "recv" /\ heard' \in {heard, Append(heard, h)}
        /\ UNCHANGED <<queue, msg, pcm, currentFmt, told, fmt>>
    BY <1>7 DEF WriteDevice, player
  <2>2. DeviceFormat' /\ Reach' = Reach
    BY <1>1, <2>1 DEF DeviceFormat, Reach
  <2>3. h \in Heard /\ heard \in Seq(Heard) /\ (h.told => h.pcm = h.fmt)
    BY <1>1, <2>1, Kinds DEF TypeOK, PlaceInv, DeviceFormat, Heard, Chunk
  <2> HIDE DEF h
  <2>4. HeardAsCoded'
    <3>1. CASE heard' = heard
      BY <1>1, <3>1 DEF HeardAsCoded
    <3>2. CASE heard' = Append(heard, h)
      <4>1. \A i \in DOMAIN heard' : heard'[i] = h \/ (i \in DOMAIN heard /\ heard'[i] = heard[i])
        BY <2>3, <3>2, Appended
      <4> QED
        BY <1>1, <2>3, <4>1 DEF HeardAsCoded
    <3> QED
      BY <2>1, <3>1, <3>2
  <2> QED
    BY <2>1, <2>2, <2>4, FormatAside
<1>8. CASE Drain
  <2>1. /\ writer' = "exited" /\ pcm' = None /\ queue' = <<>> /\ UNCHANGED <<msg, heard, told, fmt>>
    BY <1>8 DEF Drain, player
  <2>2. DeviceFormat' /\ HeardAsCoded' /\ Reach' = None /\ Len(queue') = 0 /\ \A i \in DOMAIN queue' : FALSE
    BY <1>1, <2>1 DEF DeviceFormat, HeardAsCoded, Reach
  <2>3. ChannelFormats'
    BY <2>1, <2>2 DEF ChannelFormats, Suits, Unannounced
  <2> QED
    BY <2>2, <2>3 DEF FormatInv
<1> QED
  BY <1>2, <1>3, <1>4, <1>5, <1>6, <1>7, <1>8, FormatRecv
  DEF Next, TaskStep, CloseStep, WriterStep

-----------------------------------------------------------------------------
(* The pipe: each half follows the one before it, from what the reader has, *)
(* over what the FIFO holds, to what the task writes next.                  *)

Follows(a, b) == \/ a.half = 1 /\ b.n = a.n
                 \/ a.half = 2 /\ b.half = 1 /\ b.n \in {a.n, a.n + 1}
NextHalf == [n |-> IF writing = "play" THEN n + 1 ELSE n, half |-> half]

PipePlace ==
  /\ lock = "write" <=> writing \in {"open", "data"}
  /\ writing \in {"play", "lock", "open"} => half = 1
  /\ writing \in {"lock", "open", "data"} => n >= 1

PipeOrder ==
  /\ attached /\ got # <<>> /\ pipe # <<>> => Follows(got[Len(got)], pipe[1])
  /\ writing \notin {"ended", "failed"} =>
       /\ pipe # <<>> => Follows(pipe[1], NextHalf)
       /\ attached /\ got # <<>> /\ pipe = <<>> => Follows(got[Len(got)], NextHalf)

\* A reader that came to an empty FIFO that was being opened: it gets a first half.
PipeFresh == attached /\ fresh /\ got = <<>> =>
  IF pipe = <<>> THEN writing \in {"open", "data"} /\ half = 1 ELSE pipe[1].half = 1

PipeInv == Pipe!TypeOK /\ PipePlace /\ PipeOrder /\ PipeFresh /\ Pipe!NoHole

\* The parts of a half.
LEMMA Halves == ASSUME NEW h \in Pipe!Half PROVE h.n \in Nat /\ h.half \in 1..2
BY SinksAssumption DEF Pipe!Half

\* What a FIFO of one half gives the reader.
LEMMA OneMore ==
  ASSUME NEW S, NEW q \in Seq(S), NEW p \in Seq(S), Len(p) <= 1, p # <<>>
  PROVE  /\ p[1] \in S /\ q \o p \in Seq(S) /\ Len(q) \in Nat /\ Len(q \o p) = Len(q) + 1
         /\ DOMAIN q = 1..Len(q) /\ DOMAIN (q \o p) = 1..(Len(q) + 1) /\ (q = <<>> <=> Len(q) = 0)
         /\ (q \o p)[Len(q) + 1] = p[1] /\ \A i \in 1..Len(q) : (q \o p)[i] = q[i]
<1>1. Len(p) \in Nat \ {0} /\ Head(p) = p[1] /\ Head(p) \in S
  BY Taken
<1>2. Len(p) = 1 /\ p[1] \in S
  <2>1. \A k \in Nat \ {0} : k <= 1 => k = 1
    OBVIOUS
  <2> QED
    BY <1>1, <2>1, Zenon
<1>3. Len(q) \in Nat /\ DOMAIN q = 1..Len(q) /\ (q = <<>> <=> Len(q) = 0)
  OBVIOUS
<1>4. q \o p \in Seq(S) /\ Len(q \o p) = Len(q) + Len(p) /\ DOMAIN (q \o p) = 1..Len(q \o p)
  OBVIOUS
<1>5. \A i \in 1..Len(q) : (q \o p)[i] = q[i]
  BY <1>3
<1>6. (q \o p)[Len(q) + 1] = p[1]
  BY <1>2, <1>3
<1> QED
  BY <1>2, <1>3, <1>4, <1>5, <1>6

\* The initial states satisfy the invariant.
LEMMA PipeInit == Pipe!Init => PipeInv
<1> SUFFICES ASSUME Pipe!Init PROVE PipeInv
  OBVIOUS
<1>1. /\ file = FALSE /\ lock = "free" /\ writing = "play" /\ n = 0 /\ half = 1 /\ tries = 0
      /\ closing = [c \in Pipe!Closers |-> "none"]
      /\ readers = 0 /\ attached = FALSE /\ pipe = <<>> /\ got = <<>> /\ fresh = FALSE
  BY DEF Pipe!Init
<1>2. n \in 0..PipeChunks /\ readers \in 0..MaxReaders
  BY <1>1, SinksAssumption
<1>3. closing \in [Pipe!Closers -> {"none", "wait", "done"}]
  BY <1>1
<1>4. pipe \in Seq(Pipe!Half) /\ got \in Seq(Pipe!Half) /\ Len(pipe) <= 1
  BY <1>1
<1>5. Pipe!TypeOK
  <2>1. /\ file \in BOOLEAN /\ lock \in {"free", "write"} /\ attached \in BOOLEAN /\ fresh \in BOOLEAN
        /\ writing \in {"play", "lock", "open", "data", "ended", "failed"}
    BY <1>1
  <2>2. half \in 1..2 /\ tries \in 0..1
    BY <1>1
  <2> QED
    BY <1>2, <1>3, <1>4, <2>1, <2>2, Zenon DEF Pipe!TypeOK
<1>6. PipePlace /\ PipeOrder /\ PipeFresh /\ Pipe!NoHole
  BY <1>1 DEF PipePlace, PipeOrder, PipeFresh, Pipe!NoHole
<1> QED
  BY <1>5, <1>6 DEF PipeInv

\* The task's steps that write nothing, and the stages of close().
LEMMA PipeAside ==
  ASSUME PipeInv, Pipe!Write \/ Pipe!Lock \/ Pipe!Open \/ Pipe!Broken \/ Pipe!End
                  \/ \E c \in Pipe!Closers : Pipe!Close(c)
  PROVE  PipeInv'
<1>1. Pipe!TypeOK /\ PipePlace /\ PipeOrder /\ PipeFresh /\ Pipe!NoHole
  BY DEF PipeInv
<1>2. UNCHANGED <<pipe, readers, attached, got, fresh>>
  BY DEF Pipe!Write, Pipe!Lock, Pipe!Open, Pipe!Broken, Pipe!End, Pipe!Close, Pipe!reader
<1>3. n \in 0..PipeChunks /\ PipeChunks \in Nat /\ n \in Nat
  BY <1>1, SinksAssumption DEF Pipe!TypeOK
<1>4. Pipe!NoHole'
  BY <1>1, <1>2 DEF Pipe!NoHole
<1>5. Pipe!TypeOK' /\ PipePlace'
  <2>1. CASE Pipe!Write
    BY <1>1, <1>2, <1>3, <2>1 DEF Pipe!TypeOK, PipePlace, Pipe!Write
  <2>2. CASE Pipe!Lock
    BY <1>1, <1>2, <2>2 DEF Pipe!TypeOK, PipePlace, Pipe!Lock
  <2>3. CASE Pipe!Open \/ Pipe!End
    BY <1>1, <1>2, <2>3 DEF Pipe!TypeOK, PipePlace, Pipe!Open, Pipe!End
  <2>4. CASE Pipe!Broken
    BY <1>1, <1>2, <2>4 DEF Pipe!TypeOK, PipePlace, Pipe!Broken
  <2>5. CASE \E c \in Pipe!Closers : Pipe!Close(c)
    BY <1>1, <1>2, <2>5 DEF Pipe!TypeOK, PipePlace, Pipe!Close
  <2> QED
    BY <2>1, <2>2, <2>3, <2>4, <2>5
<1>6. PipeOrder' /\ PipeFresh'
  <2>1. CASE Pipe!Write
    BY <1>1, <1>2, <1>3, <2>1 DEF PipeOrder, PipeFresh, PipePlace, NextHalf, Follows, Pipe!Write
  <2>2. CASE Pipe!Lock
    BY <1>1, <1>2, <2>2 DEF PipeOrder, PipeFresh, PipePlace, NextHalf, Follows, Pipe!Lock
  <2>3. CASE Pipe!Open \/ Pipe!End
    BY <1>1, <1>2, <2>3 DEF PipeOrder, PipeFresh, PipePlace, NextHalf, Follows, Pipe!Open, Pipe!End
  <2>4. CASE Pipe!Broken
    <3>1. ~attached /\ writing = "data" /\ n' = n
          /\ (writing' = "failed" \/ (writing' = "open" /\ half' = 1))
      BY <2>4 DEF Pipe!Broken
    <3>2. half \in 1..2 /\ pipe \in Seq(Pipe!Half)
      BY <1>1 DEF Pipe!TypeOK
    <3>3. pipe # <<>> => pipe[1].half \in 1..2 /\ pipe[1].n \in Nat
      BY <3>2, Halves
    <3> QED
      BY <1>1, <1>2, <1>3, <3>1, <3>2, <3>3 DEF PipeOrder, PipeFresh, NextHalf, Follows
  <2>5. CASE \E c \in Pipe!Closers : Pipe!Close(c)
    BY <1>1, <1>2, <2>5 DEF PipeOrder, PipeFresh, NextHalf, Follows, Pipe!Close
  <2> QED
    BY <2>1, <2>2, <2>3, <2>4, <2>5
<1> QED
  BY <1>4, <1>5, <1>6 DEF PipeInv

\* Half a chunk enters the FIFO.
LEMMA PipeData ==
  ASSUME PipeInv, Pipe!Data
  PROVE  PipeInv'
<1>1. Pipe!TypeOK /\ PipePlace /\ PipeOrder /\ PipeFresh /\ Pipe!NoHole
  BY DEF PipeInv
<1> DEFINE h == [n |-> n, half |-> half]
<1>2. /\ writing = "data" /\ attached /\ pipe = <<>> /\ pipe' = <<h>>
      /\ \/ half = 1 /\ half' = 2 /\ writing' = "data" /\ lock' = lock
         \/ half = 2 /\ half' = 1 /\ writing' = "play" /\ lock' = "free"
      /\ UNCHANGED <<file, n, tries, closing, readers, attached, got, fresh>>
  BY <1>1 DEF Pipe!Data, Pipe!reader, Pipe!TypeOK
<1>3. n \in 0..PipeChunks /\ PipeChunks \in Nat /\ n \in Nat /\ n >= 1
  BY <1>1, <1>2, SinksAssumption DEF Pipe!TypeOK, PipePlace
<1>4. h \in Pipe!Half /\ h.n = n /\ h.half = half
  BY <1>2, <1>3 DEF Pipe!Half
<1> HIDE DEF h
<1>5. pipe' \in Seq(Pipe!Half) /\ Len(pipe') = 1 /\ pipe'[1] = h /\ pipe' # <<>>
  BY <1>2, <1>4
<1>6. Pipe!TypeOK' /\ PipePlace'
  BY <1>1, <1>2, <1>3, <1>5 DEF Pipe!TypeOK, PipePlace
<1>7. Pipe!NoHole'
  BY <1>1, <1>2 DEF Pipe!NoHole
<1>8. PipeOrder' /\ PipeFresh'
  BY <1>1, <1>2, <1>3, <1>4, <1>5 DEF PipeOrder, PipeFresh, NextHalf, Follows
<1> QED
  BY <1>6, <1>7, <1>8 DEF PipeInv

\* A reader comes or goes, or the sink closes the file.
LEMMA PipeEnds ==
  ASSUME PipeInv, Pipe!Attach \/ Pipe!Detach \/ \E c \in Pipe!Closers : Pipe!CloseFile(c)
  PROVE  PipeInv'
<1>1. Pipe!TypeOK /\ PipePlace /\ PipeOrder /\ PipeFresh /\ Pipe!NoHole
  BY DEF PipeInv
<1>2. UNCHANGED <<lock, writing, n, half, tries>>
  BY DEF Pipe!Attach, Pipe!Detach, Pipe!CloseFile
<1>3. <<>> \in Seq(Pipe!Half) /\ Len(<<>>) = 0 /\ DOMAIN <<>> = {}
  OBVIOUS
<1>4. CASE Pipe!Attach
  <2>1. /\ ~attached /\ readers < MaxReaders /\ attached' = TRUE /\ readers' = readers + 1 /\ got' = <<>>
        /\ fresh' = (pipe = <<>> /\ writing = "open") /\ UNCHANGED <<file, closing, pipe>>
    BY <1>4 DEF Pipe!Attach
  <2>2. readers' \in 0..MaxReaders /\ fresh' \in BOOLEAN
    BY <1>1, <2>1, SinksAssumption DEF Pipe!TypeOK
  <2>3. Pipe!TypeOK' /\ PipePlace'
    <3>1. attached' \in BOOLEAN /\ got' \in Seq(Pipe!Half)
      BY <1>3, <2>1
    <3> QED
      BY <1>1, <1>2, <2>1, <2>2, <3>1 DEF Pipe!TypeOK, PipePlace
  <2>4. Pipe!NoHole'
    BY <1>3, <2>1 DEF Pipe!NoHole
  <2>5. PipeOrder' /\ PipeFresh'
    BY <1>1, <1>2, <2>1 DEF PipeOrder, PipeFresh, PipePlace, NextHalf, Follows
  <2> QED
    BY <2>3, <2>4, <2>5 DEF PipeInv
<1>5. CASE Pipe!Detach
  <2>1. /\ attached /\ attached' = FALSE /\ pipe' \in {pipe, <<>>}
        /\ UNCHANGED <<file, closing, readers, got, fresh>>
    BY <1>5 DEF Pipe!Detach
  <2>2. Pipe!TypeOK' /\ PipePlace'
    <3>1. pipe' \in Seq(Pipe!Half) /\ Len(pipe') <= 1
      <4>1. pipe \in Seq(Pipe!Half) /\ Len(pipe) <= 1 /\ 0 <= 1
        BY <1>1 DEF Pipe!TypeOK
      <4> QED
        BY <1>3, <2>1, <4>1, Zenon
    <3> QED
      BY <1>1, <1>2, <2>1, <3>1 DEF Pipe!TypeOK, PipePlace
  <2>3. Pipe!NoHole' /\ PipeOrder' /\ PipeFresh'
    BY <1>1, <1>2, <2>1 DEF PipeOrder, PipeFresh, Pipe!NoHole, NextHalf, Follows
  <2> QED
    BY <2>2, <2>3 DEF PipeInv
<1>6. ASSUME NEW c \in Pipe!Closers, Pipe!CloseFile(c)
      PROVE  PipeInv'
  <2>1. /\ file' = FALSE /\ pipe' = IF attached THEN pipe ELSE <<>>
        /\ closing' = [closing EXCEPT ![c] = "done"]
        /\ UNCHANGED <<readers, attached, got, fresh>>
    BY <1>6 DEF Pipe!CloseFile, Pipe!reader
  <2>2. closing' \in [Pipe!Closers -> {"none", "wait", "done"}] /\ pipe' \in {pipe, <<>>}
    BY <1>1, <2>1 DEF Pipe!TypeOK
  <2>3. Pipe!TypeOK' /\ PipePlace'
    <3>1. pipe' \in Seq(Pipe!Half) /\ Len(pipe') <= 1
      <4>1. pipe \in Seq(Pipe!Half) /\ Len(pipe) <= 1 /\ 0 <= 1
        BY <1>1 DEF Pipe!TypeOK
      <4> QED
        BY <1>3, <2>2, <4>1, Zenon
    <3> QED
      BY <1>1, <1>2, <2>1, <2>2, <3>1 DEF Pipe!TypeOK, PipePlace
  <2>4. Pipe!NoHole' /\ PipeOrder' /\ PipeFresh'
    BY <1>1, <1>2, <2>1 DEF PipeOrder, PipeFresh, Pipe!NoHole, NextHalf, Follows
  <2> QED
    BY <2>3, <2>4 DEF PipeInv
<1> QED
  BY <1>4, <1>5, <1>6

\* The reader reads.
LEMMA PipeRead ==
  ASSUME PipeInv, Pipe!Read
  PROVE  PipeInv'
<1>1. Pipe!TypeOK /\ PipePlace /\ PipeOrder /\ PipeFresh /\ Pipe!NoHole
  BY DEF PipeInv
<1>2. /\ attached /\ pipe # <<>> /\ got' = got \o pipe /\ pipe' = <<>>
      /\ UNCHANGED <<file, lock, writing, n, half, tries, closing, readers, attached, fresh>>
  BY DEF Pipe!Read
<1>3. pipe \in Seq(Pipe!Half) /\ got \in Seq(Pipe!Half) /\ Len(pipe) <= 1
  BY <1>1 DEF Pipe!TypeOK
<1>4. /\ pipe[1] \in Pipe!Half /\ got' \in Seq(Pipe!Half) /\ Len(got) \in Nat
      /\ Len(got') = Len(got) + 1 /\ DOMAIN got = 1..Len(got) /\ DOMAIN got' = 1..(Len(got) + 1)
      /\ got'[Len(got) + 1] = pipe[1] /\ \A i \in 1..Len(got) : got'[i] = got[i]
  BY <1>2, <1>3, OneMore
<1>5. Len(got) = 0 <=> got = <<>>
  BY <1>3
<1>6. Pipe!TypeOK' /\ PipePlace'
  BY <1>1, <1>2, <1>4 DEF Pipe!TypeOK, PipePlace
<1>7. PipeOrder' /\ PipeFresh'
  BY <1>1, <1>2, <1>3, <1>4 DEF PipeOrder, PipeFresh, NextHalf, Follows
<1>8. Pipe!NoHole'
  <2>1. fresh' /\ got' # <<>> => got'[1].half = 1
    BY <1>1, <1>2, <1>3, <1>4, <1>5 DEF PipeFresh, Pipe!NoHole
  <2>2. ASSUME NEW i \in DOMAIN got', i + 1 \in DOMAIN got' PROVE Follows(got'[i], got'[i + 1])
    <3>1. CASE i = Len(got)
      BY <1>1, <1>2, <1>3, <1>4, <1>5, <2>2, <3>1 DEF PipeOrder
    <3>2. CASE i # Len(got)
      <4>1. i \in 1..Len(got) /\ i + 1 \in 1..Len(got)
        BY <1>3, <1>4, <2>2, <3>2
      <4>2. got[i] \in Pipe!Half /\ got[i + 1] \in Pipe!Half
        BY <1>3, <4>1
      <4> QED
        <5>1. got[i].n \in Nat /\ got[i + 1].n \in Nat
          BY <4>2, Halves
        <5>2. \/ got[i].half = 1 /\ got[i + 1].n = got[i].n
              \/ got[i].half = 2 /\ got[i + 1].n \in got[i].n..(got[i].n + 1) /\ got[i + 1].half = 1
          BY <1>1, <1>4, <4>1 DEF Pipe!NoHole
        <5>3. Follows(got[i], got[i + 1])
          BY <5>1, <5>2 DEF Follows
        <5> QED
          BY <1>4, <4>1, <5>3
    <3> QED
      BY <3>1, <3>2
  <2>3. \A i \in DOMAIN got' : got'[i].n \in Nat
    <3>1. \A i \in 1..Len(got') : got'[i] \in Pipe!Half
      BY <1>4, Queued
    <3> QED
      BY <1>4, <3>1, Halves
  <2> QED
    BY <2>1, <2>2, <2>3 DEF Pipe!NoHole, Follows
<1> QED
  BY <1>6, <1>7, <1>8 DEF PipeInv

\* Every step of the pipe sink keeps the invariant.
LEMMA PipeNext == PipeInv /\ (Pipe!Next \/ UNCHANGED pipeVars) => PipeInv'
<1> SUFFICES ASSUME PipeInv, Pipe!Next \/ UNCHANGED pipeVars PROVE PipeInv'
  OBVIOUS
<1>1. CASE UNCHANGED pipeVars
  BY <1>1 DEF pipeVars, PipeInv, Pipe!TypeOK, PipePlace, PipeOrder, PipeFresh, Pipe!NoHole, NextHalf
<1>2. CASE Pipe!Next
  BY <1>2, PipeAside, PipeData, PipeEnds, PipeRead DEF Pipe!Next, Pipe!TaskStep
<1> QED
  BY <1>1, <1>2

-----------------------------------------------------------------------------
(* cpal: the callback takes whole frames, two to begin with and then one by *)
(* one, so what it has read is always a number of frames.                   *)

Whole(samples) == \E k \in Nat : samples = k * Channels

\* No sample is written before the channels are known, and no callback begins to
\* take frames before there are samples.
CpalFmt ==
  /\ rate \in Nat /\ pcmFmt.channels \in {0, Channels} /\ channels \in {0, Channels}
  /\ filling # "channels" => channels = pcmFmt.channels
  /\ filling = "channels" => pcmFmt.channels = Channels
  /\ filling = "write" \/ written > 0 \/ primed \/ callback > 0 => channels = Channels
  /\ callback \in {0, Channels}

CpalWhole ==
  /\ read \in Nat /\ written \in Nat /\ Whole(read)
  /\ frame.count = 0 \/ (frame.count = Channels /\ Whole(frame.from))

CpalInv == Cpal!TypeOK /\ CpalFmt /\ CpalWhole

\* The constants, one by one.
LEMMA CpalBounds == /\ Channels \in Nat \ {0} /\ RingCapacity \in Nat /\ RingCapacity >= 4 * Channels
                    /\ \A f \in CpalFormats : f.rate \in Nat /\ f.channels = Channels
BY SinksAssumption DEF CpalFormats

\* Frames of the channels.
LEMMA Frames ==
  /\ Whole(0)
  /\ \A x \in Nat : Whole(x) =>
       Whole(x + Channels) /\ Whole(x + 2 * Channels) /\ x % Channels = 0
<1>1. Channels \in Nat \ {0}
  BY CpalBounds
<1>2. Whole(0)
  BY <1>1 DEF Whole
<1>3. ASSUME NEW x \in Nat, Whole(x)
      PROVE  Whole(x + Channels) /\ Whole(x + 2 * Channels) /\ x % Channels = 0
  <2>1. PICK k \in Nat : x = k * Channels
    BY <1>3 DEF Whole
  <2>2. k * Channels + Channels = (k + 1) * Channels /\ k * Channels + 2 * Channels = (k + 2) * Channels
    BY <1>1
  <2>3. (k * Channels) % Channels = 0
    BY <1>1
  <2> QED
    BY <2>1, <2>2, <2>3 DEF Whole
<1> QED
  BY <1>2, <1>3

\* What an unprimed callback waits for is two frames or more.
LEMMA Needed ==
  ASSUME rate \in Nat
  PROVE  Cpal!Need(Channels) \in Nat /\ Cpal!Need(Channels) >= 2 * Channels
         /\ Cpal!Need(1) \in Nat /\ Cpal!Need(1) >= 2
<1>1. Channels \in Nat \ {0} /\ RingCapacity \in Nat /\ RingCapacity >= 4 * Channels
  BY CpalBounds
<1> DEFINE a == Cpal!Max2((rate * 3) \div 2, 2)
<1>2. a \in Nat /\ a >= 2
  BY DEF Cpal!Max2
<1>3. RingCapacity \div 2 \in Nat /\ RingCapacity \div 2 >= 2 * Channels
  BY <1>1
<1>4. Cpal!Need(Channels) = Cpal!Min2(a * Channels, RingCapacity \div 2)
      /\ Cpal!Need(1) = Cpal!Min2(a * 1, RingCapacity \div 2)
  BY DEF Cpal!Need
<1> HIDE DEF a
<1>5. a * Channels \in Nat /\ a * Channels >= 2 * Channels /\ a * 1 \in Nat /\ a * 1 >= 2
  BY <1>1, <1>2
<1>6. \A i, j, k \in Nat : i >= k /\ j >= k => Cpal!Min2(i, j) \in Nat /\ Cpal!Min2(i, j) >= k
  BY DEF Cpal!Min2
<1>7. RingCapacity \div 2 >= 2 /\ 2 * Channels \in Nat
  BY <1>1, <1>3
<1>8. Cpal!Need(Channels) \in Nat /\ Cpal!Need(Channels) >= 2 * Channels
  BY <1>3, <1>4, <1>5, <1>6, <1>7
<1> QED
  BY <1>3, <1>4, <1>5, <1>6, <1>7, <1>8

\* The initial states satisfy the invariant.
LEMMA CpalInit == Cpal!Init => CpalInv
<1> SUFFICES ASSUME Cpal!Init PROVE CpalInv
  OBVIOUS
<1>1. /\ stream = TRUE /\ producer = TRUE /\ rate = 0 /\ channels = 0
      /\ written = 0 /\ read = 0
      /\ filling = "play" /\ pcmFmt.channels = 0 /\ left = 0
      /\ callback = 0 /\ primed = FALSE /\ frame.count = 0
      /\ dropping = [c \in Cpal!Closers |-> "none"]
  BY DEF Cpal!Init
<1>2. dropping \in [Cpal!Closers -> {"none", "stream", "producer", "done"}]
  BY <1>1
<1>3. Cpal!TypeOK
  <2>1. stream \in BOOLEAN /\ producer \in BOOLEAN /\ primed \in BOOLEAN
    BY <1>1
  <2>2. read <= written /\ Cpal!Slots <= RingCapacity /\ callback \in Nat /\ left \in Nat
    BY <1>1, CpalBounds DEF Cpal!Slots
  <2> QED
    BY <1>1, <1>2, <2>1, <2>2 DEF Cpal!TypeOK
<1>4. CpalFmt
  BY <1>1 DEF CpalFmt
<1>5. CpalWhole
  BY <1>1, Frames DEF CpalWhole
<1> QED
  BY <1>3, <1>4, <1>5 DEF CpalInv

\* The task, which sets formats and copies samples, and the stages of close().
LEMMA CpalTask ==
  ASSUME CpalInv,
         \/ (\E f \in CpalFormats : Cpal!SetRate(f)) \/ Cpal!SetChannels \/ Cpal!Write \/ Cpal!Copy \/ Cpal!End
         \/ \E c \in Cpal!Closers : Cpal!Close(c) \/ Cpal!CloseStep(c)
  PROVE  CpalInv'
<1>1. Cpal!TypeOK /\ CpalFmt /\ CpalWhole
  BY DEF CpalInv
<1>2. UNCHANGED <<read, callback, primed, frame>>
  BY DEF Cpal!SetRate, Cpal!SetChannels, Cpal!Write, Cpal!Copy, Cpal!End, Cpal!Close, Cpal!CloseStep,
         Cpal!ring, Cpal!audio
<1>3. /\ read \in Nat /\ written \in Nat /\ left \in Nat /\ read <= written /\ written - read <= RingCapacity
      /\ rate \in Nat /\ pcmFmt.channels \in {0, Channels} /\ channels \in {0, Channels}
      /\ Channels \in Nat \ {0} /\ RingCapacity \in Nat
  BY <1>1, CpalBounds DEF Cpal!TypeOK, CpalFmt, CpalWhole, Cpal!Slots
<1>4. ASSUME written' \in Nat, written' >= written
      PROVE  CpalWhole'
  BY <1>1, <1>2, <1>4 DEF CpalWhole, Whole
<1>5. ASSUME NEW f \in CpalFormats, Cpal!SetRate(f) PROVE CpalInv'
  <2>1. /\ filling = "play" /\ pcmFmt' = f /\ rate' = f.rate /\ filling' = "channels"
        /\ UNCHANGED <<stream, producer, channels, written, left, dropping>>
    BY <1>5 DEF Cpal!SetRate, Cpal!ring
  <2>2. pcmFmt'.channels = Channels /\ rate' \in Nat
    BY <2>1, CpalBounds
  <2> QED
    BY <1>1, <1>2, <1>3, <1>4, <2>1, <2>2 DEF CpalInv, Cpal!TypeOK, CpalFmt, Cpal!Slots
<1>6. CASE Cpal!SetChannels
  <2>1. /\ filling = "channels" /\ channels' = pcmFmt.channels /\ filling' = "play"
        /\ UNCHANGED <<stream, producer, rate, written, pcmFmt, left, dropping>>
    BY <1>6 DEF Cpal!SetChannels, Cpal!ring
  <2> QED
    BY <1>1, <1>2, <1>3, <1>4, <2>1 DEF CpalInv, Cpal!TypeOK, CpalFmt, Cpal!Slots
<1>7. CASE Cpal!Write
  <2>1. /\ filling = "play" /\ pcmFmt.channels > 0 /\ filling' = "write"
        /\ UNCHANGED <<stream, producer, rate, channels, written, pcmFmt, dropping>>
    BY <1>7 DEF Cpal!Write, Cpal!ring, Cpal!atomics
  <2>2. PICK k \in 1..2 : left' = k * pcmFmt.channels
    BY <1>7 DEF Cpal!Write
  <2>3. left' \in Nat
    BY <1>3, <2>2
  <2>4. channels = Channels
    BY <1>1, <1>3, <2>1 DEF CpalFmt
  <2> QED
    BY <1>1, <1>2, <1>3, <1>4, <2>1, <2>3, <2>4 DEF CpalInv, Cpal!TypeOK, CpalFmt, Cpal!Slots
<1>8. CASE Cpal!Copy
  <2>1. /\ filling = "write" /\ filling' \in {"play", "write"}
        /\ UNCHANGED <<stream, producer, rate, channels, pcmFmt, dropping>>
    BY <1>8 DEF Cpal!Copy, Cpal!atomics
  <2>2. /\ written' \in Nat /\ written' >= written /\ left' \in Nat /\ written' - read <= RingCapacity
    BY <1>3, <1>8 DEF Cpal!Copy, Cpal!Min2, Cpal!Slots
  <2>3. Cpal!TypeOK'
    <3>1. read' <= written' /\ Cpal!Slots' <= RingCapacity
      <4>1. \A i, j, k \in Nat : i <= j /\ j <= k => i <= k
        OBVIOUS
      <4>2. read' = read /\ read <= written' /\ written' - read <= RingCapacity
        BY <1>2, <1>3, <2>2, <4>1
      <4> QED
        BY <4>2 DEF Cpal!Slots
    <3> QED
      BY <1>1, <1>2, <2>1, <2>2, <3>1 DEF Cpal!TypeOK
  <2>4. CpalFmt'
    BY <1>1, <1>2, <1>3, <2>1, <2>2 DEF CpalFmt
  <2> QED
    BY <1>4, <2>2, <2>3, <2>4 DEF CpalInv
<1>9. CASE Cpal!End
  <2>1. /\ filling = "play" /\ filling' = "end"
        /\ UNCHANGED <<stream, producer, rate, channels, written, pcmFmt, left, dropping>>
    BY <1>9 DEF Cpal!End, Cpal!ring, Cpal!atomics
  <2> QED
    BY <1>1, <1>2, <1>3, <1>4, <2>1 DEF CpalInv, Cpal!TypeOK, CpalFmt, Cpal!Slots
<1>10. ASSUME NEW c \in Cpal!Closers, Cpal!Close(c) \/ Cpal!CloseStep(c) PROVE CpalInv'
  <2>1. /\ UNCHANGED <<rate, channels, written, filling, pcmFmt, left>>
        /\ stream' \in {stream, FALSE} /\ producer' \in {producer, FALSE}
    BY <1>10 DEF Cpal!Close, Cpal!CloseStep, Cpal!ring, Cpal!atomics, Cpal!player
  <2>2. \E stage \in {"none", "stream", "producer", "done"} : dropping' = [dropping EXCEPT ![c] = stage]
    BY <1>10 DEF Cpal!Close, Cpal!CloseStep
  <2>3. dropping' \in [Cpal!Closers -> {"none", "stream", "producer", "done"}]
    BY <1>1, <2>2 DEF Cpal!TypeOK
  <2> QED
    <3>1. stream' \in BOOLEAN /\ producer' \in BOOLEAN
      BY <1>1, <2>1 DEF Cpal!TypeOK
    <3>2. Cpal!TypeOK'
      BY <1>1, <1>2, <2>1, <2>3, <3>1 DEF Cpal!TypeOK, Cpal!Slots
    <3>3. CpalFmt'
      BY <1>1, <1>2, <2>1 DEF CpalFmt
    <3> QED
      BY <1>3, <1>4, <2>1, <3>2, <3>3 DEF CpalInv
<1> QED
  BY <1>5, <1>6, <1>7, <1>8, <1>9, <1>10

\* The audio callback.
LEMMA CpalAudio ==
  ASSUME CpalInv, Cpal!Audio
  PROVE  CpalInv'
<1>1. Cpal!TypeOK /\ CpalFmt /\ CpalWhole
  BY DEF CpalInv
<1>2. UNCHANGED <<stream, producer, rate, channels, written, filling, pcmFmt, left, dropping>>
  BY DEF Cpal!Audio, Cpal!Begin, Cpal!Advance, Cpal!EndCallback, Cpal!atomics, Cpal!ring, Cpal!player
<1>3. /\ read \in Nat /\ written \in Nat /\ read <= written /\ written - read <= RingCapacity
      /\ rate \in Nat /\ channels \in {0, Channels} /\ callback \in {0, Channels} /\ primed \in BOOLEAN
      /\ Channels \in Nat \ {0} /\ RingCapacity \in Nat
      /\ primed \/ callback > 0 \/ written > 0 => channels = Channels
      /\ Whole(read)
  BY <1>1, CpalBounds DEF Cpal!TypeOK, CpalFmt, CpalWhole, Cpal!Slots
\* What is to be shown of each step.
<1>4. ASSUME read' \in Nat, read <= read', read' <= written, callback' \in {0, Channels}, primed' \in BOOLEAN,
             primed' \/ callback' > 0 => channels = Channels,
             CpalWhole'
      PROVE  CpalInv'
  <2>1. Cpal!TypeOK'
    <3>1. read' <= written' /\ Cpal!Slots' <= RingCapacity /\ callback' \in Nat
      <4>1. \A i, j, k \in Nat : i <= j /\ k - i <= RingCapacity => k - j <= RingCapacity
        BY <1>3
      <4>2. Cpal!Slots' = written - read' /\ written' = written
        BY <1>2 DEF Cpal!Slots
      <4>3. written - read' <= RingCapacity /\ callback' \in Nat
        <5>1. written - read' <= RingCapacity
          BY <1>3, <1>4, <4>1
        <5>2. callback' \in Nat
          BY <1>3, <1>4
        <5> QED
          BY <5>1, <5>2
      <4> QED
        BY <1>4, <4>2, <4>3
    <3> QED
      BY <1>1, <1>2, <1>4, <3>1 DEF Cpal!TypeOK
  <2>2. CpalFmt'
    BY <1>1, <1>2, <1>3, <1>4 DEF CpalFmt
  <2> QED
    BY <1>4, <2>1, <2>2 DEF CpalInv
<1>5. CASE Cpal!Begin
  <2>1. CASE primed
    <3>1. callback' = Channels /\ UNCHANGED <<read, primed, frame>>
      BY <1>3, <1>5, <2>1 DEF Cpal!Begin, Cpal!Max2
    <3>2. CpalWhole'
      BY <1>1, <1>2, <3>1 DEF CpalWhole, Whole
    <3> QED
      BY <1>3, <1>4, <2>1, <3>1, <3>2
  <2>2. CASE ~primed
    <3> DEFINE ch == Cpal!Max2(channels, 1)
    <3>1. /\ written - read >= Cpal!Need(ch) /\ callback' = ch /\ primed' = TRUE
          /\ read' = read + Cpal!Min2(2 * ch, written - read)
          /\ frame' = [from |-> read + ch, count |-> Cpal!Min2(ch, written - read - ch)]
      BY <1>5, <2>2 DEF Cpal!Begin, Cpal!Slots
    <3>2. channels = Channels
      <4>1. CASE channels = 0
        <5>1. ch = 1
          BY <4>1 DEF Cpal!Max2
        <5>2. written - read >= 2
          <6>1. Cpal!Need(1) >= 2 /\ Cpal!Need(1) \in Nat /\ written - read >= Cpal!Need(1)
            BY <1>3, <3>1, <5>1, Needed, Zenon
          <6> QED
            BY <1>3, <6>1
        <5> QED
          BY <1>3, <5>2
      <4> QED
        BY <1>3, <4>1
    <3>3. ch = Channels
      BY <1>3, <3>2 DEF Cpal!Max2
    <3> HIDE DEF ch
    <3>4. written - read >= 2 * Channels
      BY <1>3, <3>1, <3>3, Needed
    <3>5. /\ Cpal!Min2(2 * Channels, written - read) = 2 * Channels
          /\ Cpal!Min2(Channels, written - read - Channels) = Channels
      BY <1>3, <3>4 DEF Cpal!Min2
    <3>6. read' = read + 2 * Channels /\ frame'.from = read + Channels /\ frame'.count = Channels
      BY <3>1, <3>3, <3>5
    <3>7. Whole(read + Channels) /\ Whole(read + 2 * Channels)
      BY <1>3, Frames
    <3>8. CpalWhole'
      <4>1. read' \in Nat /\ written' \in Nat /\ Whole(read') /\ Whole(frame'.from)
        BY <1>2, <1>3, <3>6, <3>7
      <4> QED
        BY <3>6, <4>1 DEF CpalWhole, Whole
    <3> QED
      BY <1>3, <1>4, <3>1, <3>2, <3>3, <3>4, <3>6, <3>8
  <2> QED
    BY <2>1, <2>2
<1>6. CASE Cpal!Advance
  <2>1. callback = Channels /\ channels = Channels
    BY <1>3, <1>6 DEF Cpal!Advance
  <2>2. CASE written - read < Channels
    <3>1. callback' = 0 /\ primed' = FALSE /\ UNCHANGED <<read, frame>>
      BY <1>6, <2>1, <2>2 DEF Cpal!Advance, Cpal!Slots
    <3>2. CpalWhole'
      BY <1>1, <1>2, <3>1 DEF CpalWhole, Whole
    <3>3. callback' \in {0, Channels} /\ primed' \in BOOLEAN /\ ~(primed' \/ callback' > 0)
      <4>1. ~(0 > 0)
        OBVIOUS
      <4> QED
        BY <3>1, <4>1, Zenon
    <3> QED
      BY <1>3, <1>4, <3>1, <3>2, <3>3
  <2>3. CASE ~(written - read < Channels)
    <3>1. /\ read' = read + Channels /\ frame' = [from |-> read, count |-> Channels]
          /\ UNCHANGED <<callback, primed>>
      BY <1>6, <2>1, <2>3 DEF Cpal!Advance, Cpal!Slots, Cpal!Take
    <3>2. frame'.from = read /\ frame'.count = Channels
      BY <3>1
    <3>3. Whole(read + Channels)
      BY <1>3, Frames
    <3>4. CpalWhole'
      BY <1>2, <1>3, <3>1, <3>2, <3>3 DEF CpalWhole, Whole
    <3> QED
      BY <1>3, <1>4, <2>1, <2>3, <3>1, <3>4
  <2> QED
    BY <2>2, <2>3
<1>7. CASE Cpal!EndCallback
  <2>1. callback' = 0 /\ UNCHANGED <<read, primed, frame>>
    BY <1>7 DEF Cpal!EndCallback, Cpal!ring
  <2>2. CpalWhole'
    BY <1>1, <1>2, <2>1 DEF CpalWhole, Whole
  <2> QED
    BY <1>3, <1>4, <2>1, <2>2
<1> QED
  BY <1>5, <1>6, <1>7 DEF Cpal!Audio

\* Every step of the cpal sink keeps the invariant.
LEMMA CpalNext == CpalInv /\ (Cpal!Next \/ UNCHANGED cpalVars) => CpalInv'
<1> SUFFICES ASSUME CpalInv, Cpal!Next \/ UNCHANGED cpalVars PROVE CpalInv'
  OBVIOUS
<1>1. CASE UNCHANGED cpalVars
  BY <1>1 DEF cpalVars, CpalInv, Cpal!TypeOK, Cpal!Slots, CpalFmt, CpalWhole, Whole
<1>2. CASE Cpal!Next
  BY <1>2, CpalTask, CpalAudio DEF Cpal!Next
<1> QED
  BY <1>1, <1>2

\* The invariant implies the property.
LEMMA CpalFramesWhole == CpalInv => Cpal!FramesWhole
<1> SUFFICES ASSUME CpalInv, frame.count > 0, NEW f \in CpalFormats
             PROVE  frame.count = f.channels /\ frame.from % f.channels = 0
  BY DEF Cpal!FramesWhole
<1>1. f.channels = Channels /\ Channels \in Nat \ {0}
  BY CpalBounds
<1>2. frame.count = Channels /\ Whole(frame.from)
  BY <1>1 DEF CpalInv, CpalWhole
<1>3. frame.from \in Nat
  BY <1>1, <1>2 DEF Whole
<1> QED
  BY <1>1, <1>2, <1>3, Frames

-----------------------------------------------------------------------------
(* The sink that was chosen. *)

SinkInv == output \in Outputs /\ AlsaInv /\ FormatInv /\ PipeInv /\ CpalInv

\* The invariant holds in every behaviour.
THEOREM SinkInvariant == SinkSpec => []SinkInv
<1>1. SinkInit => SinkInv
  BY AlsaInit, FormatInit, PipeInit, CpalInit DEF SinkInit, SinkInv
<1>2. SinkInv /\ [SinkNext]_allVars => SinkInv'
  <2> SUFFICES ASSUME SinkInv, [SinkNext]_allVars PROVE SinkInv'
    OBVIOUS
  <2>1. /\ output' = output
        /\ Next \/ UNCHANGED vars
        /\ Pipe!Next \/ UNCHANGED pipeVars
        /\ Cpal!Next \/ UNCHANGED cpalVars
    BY DEF SinkNext, Alsa, Fifo, Ring, allVars
  <2> QED
    BY <2>1, AlsaNext, FormatNext, PipeNext, CpalNext DEF SinkInv
<1> QED
  BY <1>1, <1>2, PTL DEF SinkSpec

\* Each sink keeps its types.
THEOREM SinkTypeCorrect == SinkSpec => []SinkTypeOK
<1>1. SinkInv => SinkTypeOK
  BY DEF SinkInv, AlsaInv, PipeInv, CpalInv, SinkTypeOK
<1> QED
  BY <1>1, SinkInvariant, PTL

\* alsa_sink.rs: when close() has returned, the writer is gone and the device
\* drained, and of the chunks accepted before the Close each was played, in order,
\* or lost to a failure of the device.
THEOREM ClosedSinkIsPlayed == SinkSpec => []ClosedIsPlayed
<1>1. SinkInv => ClosedIsPlayed
  BY AlsaPlayed DEF SinkInv
<1> QED
  BY <1>1, SinkInvariant, PTL

\* alsa_sink.rs: the device plays each chunk in the chunk's own format, across formats
\* that were skipped, reopened or failed to open, and whichever of the announcements
\* were dropped, save a chunk whose own announcement was.
THEOREM ChunksHeardAsCoded == SinkSpec => []HeardAsCoded
<1>1. SinkInv => HeardAsCoded
  BY DEF SinkInv, FormatInv
<1> QED
  BY <1>1, SinkInvariant, PTL

\* output.rs and cpal_sink.rs: a reader of the FIFO hears no chunk with a hole, and
\* what cpal plays is whole frames, however write and the callback alternate.
THEOREM NoHoleIsPlayed == SinkSpec => []NoHole
<1>1. SinkInv => NoHole
  BY CpalFramesWhole DEF SinkInv, PipeInv, NoHole
<1> QED
  BY <1>1, SinkInvariant, PTL
=============================================================================

-------------------------- MODULE LiveStreamProofs --------------------------
(***************************************************************************)
(* Theorems about module LiveStream, for any stream, failures, windows and *)
(* caps.  The main loop, the fetch task and the history move together      *)
(* (LoopInv): the pending fetch is of the segment next, what is decoded is *)
(* the one before, and what was before that is done.  The other tasks only *)
(* touch the cache and the deque (AsideKeeps).                             *)
(***************************************************************************)
EXTENDS LiveStream, TLAPS, FiniteSetTheorems, SequenceTheorems

-----------------------------------------------------------------------------
(* Sequences. *)

\* A sequence and its elements.
LEMMA Elements ==
  ASSUME NEW S, NEW q \in Seq(S)
  PROVE  /\ Len(q) \in Nat /\ DOMAIN q = 1..Len(q) /\ (q = <<>> <=> Len(q) = 0)
         /\ \A i \in 1..Len(q) : q[i] \in S
OBVIOUS

\* The set of its elements.
LEMMA Members ==
  ASSUME NEW S, NEW q \in Seq(S)
  PROVE  ToSet(q) \subseteq S
BY DEF ToSet

\* An element more.
LEMMA Longer ==
  ASSUME NEW q \in Seq(Nat), NEW e \in Nat
  PROVE  /\ ToSet(Append(q, e)) = ToSet(q) \cup {e}
         /\ Ascending(q) /\ (\A s \in ToSet(q) : s < e) => Ascending(Append(q, e))
<1>1. /\ DOMAIN q = 1..Len(q) /\ DOMAIN Append(q, e) = 1..(Len(q) + 1) /\ Len(q) \in Nat
      /\ Append(q, e)[Len(q) + 1] = e /\ \A i \in 1..Len(q) : Append(q, e)[i] = q[i]
  OBVIOUS
<1>2. ToSet(Append(q, e)) = ToSet(q) \cup {e}
  BY <1>1 DEF ToSet
<1>3. Ascending(q) /\ (\A s \in ToSet(q) : s < e) => Ascending(Append(q, e))
  BY <1>1 DEF ToSet, Ascending
<1> QED
  BY <1>2, <1>3

\* A sequence given by its elements.
LEMMA Listed ==
  ASSUME NEW S, NEW n \in Nat, NEW q \in [1..n -> S]
  PROVE  q \in Seq(S) /\ Len(q) = n /\ DOMAIN q = 1..n
OBVIOUS

\* What is left when the first m elements are taken.
LEMMA Rest ==
  ASSUME NEW S, NEW q \in Seq(S), NEW m \in Nat, m <= Len(q)
  PROVE  LET rest == SubSeq(q, 1 + m, Len(q)) IN
         /\ rest \in Seq(S) /\ Len(rest) = Len(q) - m /\ DOMAIN rest = 1..(Len(q) - m)
         /\ \A i \in 1..(Len(q) - m) : rest[i] = q[i + m]
OBVIOUS

\* The constants, one by one.
LEMMA Bounds ==
  /\ Ahead \in Nat \ {0} /\ CacheCap \in Nat \ {0} /\ KnownCap \in Nat \ {0} /\ Window \in Nat \ {0}
  /\ DashWindow \in Nat \ {0} /\ MaxSeq \in Nat \ {0} /\ Chunks \in Nat \ {0}
  /\ Window <= MaxSeq /\ DashWindow < MaxSeq
BY LiveAssumption

\* Latest keeps the end of a queue.
LEMMA LatestKeeps ==
  ASSUME NEW S, NEW q \in Seq(S), NEW n \in Nat
  PROVE  /\ Latest(q, n) \in Seq(S) /\ Len(Latest(q, n)) <= n
         /\ ToSet(Latest(q, n)) \subseteq ToSet(q)
         /\ Ascending(q) => Ascending(Latest(q, n))
         /\ IsInjective(q) => IsInjective(Latest(q, n))
<1>1. Len(q) \in Nat /\ DOMAIN q = 1..Len(q)
  OBVIOUS
<1>2. CASE Len(q) <= n
  <2>1. Latest(q, n) = q
    BY <1>1, <1>2 DEF Latest
  <2> QED
    BY <1>2, <2>1
<1>3. CASE Len(q) > n
  <2>1. Latest(q, n) = SubSeq(q, Len(q) - n + 1, Len(q))
    BY <1>3 DEF Latest
  <2>2. /\ Latest(q, n) \in Seq(S) /\ Len(Latest(q, n)) = n /\ DOMAIN Latest(q, n) = 1..n
        /\ \A i \in 1..n : Latest(q, n)[i] = q[i + (Len(q) - n)] /\ i + (Len(q) - n) \in DOMAIN q
    BY <1>1, <1>3, <2>1
  <2>3. ToSet(Latest(q, n)) \subseteq ToSet(q)
    BY <2>2 DEF ToSet
  <2>4. Ascending(q) => Ascending(Latest(q, n))
    <3> DEFINE l == Latest(q, n)
               d == Len(q) - n
    <3>1. SUFFICES ASSUME Ascending(q), NEW i \in DOMAIN l, NEW j \in DOMAIN l, i < j PROVE l[i] < l[j]
      BY DEF Ascending
    <3>2. l[i] = q[i + d] /\ l[j] = q[j + d] /\ i + d \in DOMAIN q /\ j + d \in DOMAIN q
      BY <2>2
    <3>3. i + d < j + d
      <4>1. i \in Int /\ j \in Int
        BY <2>2
      <4>2. d \in Int
        BY <1>1
      <4> HIDE DEF d, l
      <4> QED
        BY <3>1, <4>1, <4>2
    <3> HIDE DEF l, d
    <3> QED
      BY <3>1, <3>2, <3>3 DEF Ascending
  <2>5. IsInjective(q) => IsInjective(Latest(q, n))
    <3> SUFFICES ASSUME IsInjective(q), NEW i \in 1..n, NEW j \in 1..n, Latest(q, n)[i] = Latest(q, n)[j]
                 PROVE  i = j
      BY <2>2 DEF IsInjective
    <3>1. i + (Len(q) - n) = j + (Len(q) - n)
      BY <2>2 DEF IsInjective
    <3> QED
      BY <1>1, <3>1
  <2> QED
    BY <2>2, <2>3, <2>4, <2>5
<1> QED
  BY <1>1, <1>2, <1>3

\* The cache holds a segment once and is within its cap, whoever puts.
LEMMA PutKeeps ==
  ASSUME cache \in Seq(1..MaxSeq), IsInjective(cache), Len(cache) <= CacheCap, NEW s \in 1..MaxSeq
  PROVE  Put(s) \in Seq(1..MaxSeq) /\ IsInjective(Put(s)) /\ Len(Put(s)) <= CacheCap
<1>1. CASE Contains(cache, s)
  BY <1>1 DEF Put
<1>2. CASE ~Contains(cache, s)
  <2> DEFINE q == Append(cache, s)
  <2>1. /\ q \in Seq(1..MaxSeq) /\ Len(q) = Len(cache) + 1 /\ Len(cache) \in Nat
        /\ DOMAIN q = 1..(Len(cache) + 1) /\ q[Len(cache) + 1] = s
        /\ \A i \in 1..Len(cache) : q[i] = cache[i] /\ cache[i] # s
    BY <1>2 DEF Contains
  <2>2. IsInjective(q)
    BY <2>1 DEF IsInjective
  <2>3. Put(s) = Latest(q, CacheCap)
    BY <1>2 DEF Put
  <2> HIDE DEF q
  <2> QED
    BY <2>1, <2>2, <2>3, Bounds, LatestKeeps
<1> QED
  BY <1>1, <1>2

\* A playlist's segments.
LEMMA ConsecutiveList ==
  ASSUME NEW lo \in 1..MaxSeq, NEW hi \in 0..MaxSeq
  PROVE  LET list == Consecutive(lo, hi) IN
         /\ list \in Seq(1..MaxSeq) /\ Len(list) = IF lo <= hi THEN hi + 1 - lo ELSE 0
         /\ DOMAIN list = 1..(hi + 1 - lo)
         /\ \A i \in 1..(hi + 1 - lo) : list[i] = lo + i - 1
         /\ ToSet(list) = lo..hi /\ Ascending(list)
<1> DEFINE list == Consecutive(lo, hi)
           n == IF lo <= hi THEN hi + 1 - lo ELSE 0
<1>1. /\ n \in Nat /\ 1..(hi + 1 - lo) = 1..n /\ lo + n - 1 <= MaxSeq
      /\ n = 0 \/ n = hi + 1 - lo
  BY Bounds
<1>a. list = [i \in 1..n |-> lo + i - 1]
  BY <1>1 DEF Consecutive
<1> HIDE DEF list, n
<1>b. list \in [1..n -> 1..MaxSeq] /\ \A i \in 1..n : list[i] = lo + i - 1
  BY <1>1, <1>a, Bounds
<1>2. /\ list \in Seq(1..MaxSeq) /\ Len(list) = n /\ DOMAIN list = 1..n
      /\ \A i \in 1..n : list[i] = lo + i - 1
  BY <1>1, <1>b, Listed
<1> USE DEF n
<1>3. Ascending(list)
  BY <1>2 DEF Ascending
<1>4. ASSUME NEW s \in lo..hi PROVE s \in ToSet(list)
  <2>1. s + 1 - lo \in 1..n /\ list[s + 1 - lo] = s
    BY <1>2, Bounds
  <2> QED
    BY <1>2, <2>1 DEF ToSet
<1>5. ToSet(list) \subseteq lo..hi
  BY <1>2, Bounds DEF ToSet
<1> QED
  BY <1>1, <1>2, <1>3, <1>4, <1>5 DEF list

\* What is newer of a playlist continues what is known.
LEMMA NewerContinues ==
  ASSUME NEW lo \in 1..MaxSeq, NEW hi \in 0..MaxSeq, NEW last \in Nat
  PROVE  LET new == Newer(Consecutive(lo, hi), last) IN
         /\ new \in Seq(1..MaxSeq) /\ Ascending(new)
         /\ \A i \in DOMAIN new : new[i] > last
<1> DEFINE list == Consecutive(lo, hi)
           old == {i \in DOMAIN list : list[i] <= last}
           n == IF lo <= hi THEN hi + 1 - lo ELSE 0
           m == IF last < lo THEN 0 ELSE IF last - lo + 1 < n THEN last - lo + 1 ELSE n
           new == Newer(list, last)
<1>n. n \in Nat /\ m \in Nat /\ m <= n /\ 1..(hi + 1 - lo) = 1..n
  BY Bounds
<1>1. /\ list \in Seq(1..MaxSeq) /\ Len(list) = n /\ DOMAIN list = 1..n
      /\ \A i \in 1..n : list[i] = lo + i - 1
  <2>1. /\ list \in Seq(1..MaxSeq) /\ Len(list) = n /\ DOMAIN list = 1..(hi + 1 - lo)
        /\ \A i \in 1..(hi + 1 - lo) : list[i] = lo + i - 1
    BY ConsecutiveList
  <2>2. 1..(hi + 1 - lo) = 1..n
    BY <1>n
  <2> HIDE DEF list, n
  <2> QED
    BY <2>1, <2>2, Zenon
<1>2. old = 1..m
  <2>1. ASSUME NEW i \in 1..n PROVE list[i] <= last <=> i \in 1..m
    BY <1>1
  <2> QED
    BY <1>1, <2>1
<1>3. Cardinality(old) = m
  <2> HIDE DEF m, old
  <2>1. Cardinality(1..m) = m
    BY <1>n, FS_Interval
  <2> QED
    BY <1>2, <2>1
<1>4. new = SubSeq(list, 1 + m, n)
  BY <1>1, <1>3 DEF Newer
<1> HIDE DEF list, m, n, old
<1> HIDE DEF new
<1>5. /\ new \in Seq(1..MaxSeq) /\ DOMAIN new = 1..(n - m)
      /\ \A i \in 1..(n - m) : new[i] = list[i + m] /\ i + m \in 1..n /\ i + m \notin 1..m
  <2>1. /\ new \in Seq(1..MaxSeq) /\ DOMAIN new = 1..(n - m)
        /\ \A i \in 1..(n - m) : new[i] = list[i + m]
    <3>1. list \in Seq(1..MaxSeq) /\ m \in Nat /\ m <= Len(list) /\ Len(list) = n
      BY <1>n, <1>1
    <3>2. new = SubSeq(list, 1 + m, Len(list))
      BY <1>4, <3>1
    <3> HIDE DEF m, n
    <3>3. /\ new \in Seq(1..MaxSeq) /\ DOMAIN new = 1..(Len(list) - m)
          /\ \A i \in 1..(Len(list) - m) : new[i] = list[i + m]
      BY <3>1, <3>2, Rest, Zenon
    <3> QED
      BY <3>1, <3>3, Zenon
  <2>2. \A i \in 1..(n - m) : i + m \in 1..n /\ i + m \notin 1..m
    BY <1>n
  <2> QED
    BY <2>1, <2>2
<1>6. \A i \in 1..(n - m) : new[i] = lo + (i + m) - 1 /\ new[i] > last
  <2> TAKE i \in 1..(n - m)
  <2>1. new[i] = list[i + m] /\ list[i + m] = lo + (i + m) - 1 /\ i + m \notin old
    BY <1>1, <1>2, <1>5
  <2>2. ~(list[i + m] <= last)
    BY <1>1, <1>5, <2>1 DEF old
  <2> QED
    BY <1>n, <2>1, <2>2
<1>7. Ascending(new) /\ \A i \in DOMAIN new : new[i] > last
  BY <1>n, <1>5, <1>6 DEF Ascending
<1> QED
  BY <1>5, <1>7 DEF list, new

\* Merging keeps the deque in order.
LEMMA MergedKeeps ==
  ASSUME known \in Seq(1..MaxSeq), Ascending(known), NEW lo \in 1..MaxSeq, NEW hi \in 0..MaxSeq
  PROVE  LET q == Merged(Consecutive(lo, hi)) IN q \in Seq(1..MaxSeq) /\ Ascending(q)
<1> DEFINE last == IF known = <<>> THEN 0 ELSE Last(known)
           new == Newer(Consecutive(lo, hi), last)
<1>1. /\ Len(known) \in Nat /\ DOMAIN known = 1..Len(known)
      /\ \A i \in 1..Len(known) : known[i] \in 1..MaxSeq
      /\ known = <<>> <=> Len(known) = 0
  BY Elements, Zenon
<1>2. last \in Nat /\ \A i \in 1..Len(known) : known[i] <= last
  <2>1. CASE known = <<>>
    BY <1>1, <2>1
  <2>2. CASE known # <<>>
    <3>a. Len(known) \in Nat /\ Len(known) # 0
      BY <1>1, <2>2
    <3>b. Len(known) \in 1..Len(known)
      BY <3>a
    <3>1. last = known[Len(known)] /\ Len(known) \in 1..Len(known)
      BY <2>2, <3>b DEF Last
    <3> HIDE DEF last
    <3>2. last \in 1..MaxSeq
      BY <1>1, <3>1
    <3>3. \A i \in 1..Len(known) : i < Len(known) => known[i] < last
      BY <1>1, <3>1 DEF Ascending
    <3>4. \A i \in 1..Len(known) : i < Len(known) \/ i = Len(known)
      BY <3>a
    <3> QED
      <4>1. last \in Nat /\ \A i \in 1..Len(known) : known[i] \in Nat
        BY <1>1, <3>2, Bounds
      <4> QED
        BY <3>1, <3>3, <3>4, <4>1
  <2> QED
    BY <2>1, <2>2
<1>3. /\ new \in Seq(1..MaxSeq) /\ Ascending(new)
      /\ \A i \in DOMAIN new : new[i] > last
  BY <1>2, NewerContinues
<1>4. Merged(Consecutive(lo, hi)) = Latest(known \o new, KnownCap)
  BY DEF Merged
<1> HIDE DEF last, new
<1>5. /\ known \o new \in Seq(1..MaxSeq) /\ DOMAIN (known \o new) = 1..(Len(known) + Len(new))
      /\ Len(new) \in Nat /\ DOMAIN new = 1..Len(new)
      /\ \A i \in 1..(Len(known) + Len(new)) :
           (known \o new)[i] = IF i <= Len(known) THEN known[i] ELSE new[i - Len(known)]
  BY <1>1, <1>3
<1>6. Ascending(known \o new)
  <2> SUFFICES ASSUME NEW i \in DOMAIN (known \o new), NEW j \in DOMAIN (known \o new), i < j
               PROVE  (known \o new)[i] < (known \o new)[j]
    BY DEF Ascending
  <2>1. CASE j <= Len(known)
    BY <1>1, <1>5, <2>1 DEF Ascending
  <2>2. CASE i > Len(known)
    <3>1. i - Len(known) \in DOMAIN new /\ j - Len(known) \in DOMAIN new /\ i - Len(known) < j - Len(known)
      BY <1>1, <1>5, <2>2
    <3> QED
      BY <1>1, <1>3, <1>5, <2>2, <3>1 DEF Ascending
  <2>3. CASE i <= Len(known) /\ j > Len(known)
    <3>1. j - Len(known) \in DOMAIN new
      BY <1>1, <1>5, <2>3
    <3>a. new[j - Len(known)] \in 1..MaxSeq
      BY <1>3, <3>1, Elements
    <3>2. (known \o new)[i] <= last /\ (known \o new)[j] > last
      BY <1>1, <1>2, <1>3, <1>5, <2>3, <3>1, <3>a
    <3>3. (known \o new)[i] \in Nat /\ (known \o new)[j] \in Nat
      BY <1>1, <1>5, <2>3, <3>1, <3>a, Bounds
    <3> QED
      BY <1>2, <3>2, <3>3
  <2> QED
    BY <1>1, <1>5, <2>1, <2>2, <2>3
<1>7. /\ Latest(known \o new, KnownCap) \in Seq(1..MaxSeq)
      /\ Ascending(Latest(known \o new, KnownCap))
  BY <1>5, <1>6, Bounds, LatestKeeps
<1> QED
  BY <1>4, <1>7

\* What the origin's manifests list.
LEMMA Playlists ==
  ASSUME TypeOK, NEW url, NEW list \in FetchAndParse(url)
  PROVE  \E lo \in 1..MaxSeq, hi \in 0..MaxSeq :
           /\ list = Consecutive(lo, hi)
           /\ kind = "vod" => lo = origin.lo /\ hi = origin.hi
<1>1. origin.lo \in 1..MaxSeq /\ origin.hi \in 0..MaxSeq
  BY DEF TypeOK
<1>2. CASE IsDash
  <2> DEFINE lo == IF LiveHead > origin.lo + DashWindow THEN LiveHead - DashWindow ELSE origin.lo
  <2>1. list = Consecutive(lo, LiveHead)
    BY <1>2 DEF FetchAndParse, ParseDash
  <2>2. LiveHead \in 0..MaxSeq /\ lo \in 1..MaxSeq
    BY <1>1, Bounds DEF LiveHead
  <2> QED
    BY <1>2, <2>1, <2>2 DEF IsDash
<1>3. CASE ~IsDash
  <2>1. list = Consecutive(origin.lo, origin.hi)
    BY <1>3 DEF FetchAndParse, ParseHls, HlsMedia
  <2> QED
    BY <1>1, <2>1
<1> QED
  BY <1>2, <1>3

-----------------------------------------------------------------------------
(* The inductive invariant. *)

Playing == {"loop", "await", "decode", "write"}

\* What has been played and given up when the segments up to n are done.
Done(n) == /\ Ascending(played) /\ ToSet(played) = (start..n) \ skipped
           /\ skipped \subseteq start..n

\* The main loop: the pending fetch is of the segment next, what is decoded the one
\* before it, and all before that is done.  A stop in the middle of a segment leaves
\* it undone, and the loop at its end.
LoopInv ==
  /\ main \in Playing => fetch.seq = next /\ start <= next
  /\ fetch.st \in {"get", "download", "bytes", "failed"} => fetch.seq \in 1..MaxSeq
  /\ main \in {"manifest", "prefetch"} => played = <<>> /\ skipped = {}
  /\ main = "prefetch" => next = start
  /\ main = "await" \/ (main = "loop" /\ ~stop) => Done(next - 1)
  /\ main \in {"decode", "write"} =>
       /\ decoding.seq = next - 1 /\ decoding.seq \in start..MaxSeq
       /\ Done(decoding.seq - 1)
  /\ main = "write" => decoding.left \in 1..Chunks

\* A recorded stream: its playlist stays whole, and a fetch finds nothing only past its end.
RecordedInv == kind = "vod" =>
  /\ origin = [lo |-> 1, hi |-> MaxSeq] /\ refresher = "off"
  /\ main \in Playing \cup {"prefetch"} => KnownSegments = 1..MaxSeq /\ start = 1
FetchInv == main \in Playing /\ fetch.st = "absent" => kind = "vod" /\ fetch.seq \notin KnownSegments

IInv == TypeOK /\ Bookkept /\ PlayedInOrder /\ LoopInv /\ RecordedInv /\ FetchInv

-----------------------------------------------------------------------------
(* Init establishes the invariant. *)

\* The initial states satisfy the invariant.
LEMMA InvInit == Init => IInv
<1> SUFFICES ASSUME Init PROVE IInv
  OBVIOUS
<1>1. origin.lo = 1 /\ origin.hi \in 0..MaxSeq /\ (kind = "vod" => origin = [lo |-> 1, hi |-> MaxSeq])
  BY Bounds DEF Init
<1>2. /\ main = "manifest" /\ next = 1 /\ decoding = [seq |-> 1, left |-> 0]
      /\ known = <<>> /\ cache = <<>> /\ prefetches = {}
      /\ fetch = [seq |-> 1, st |-> "none"] /\ refresher = "off" /\ stop = FALSE /\ paused = FALSE
      /\ start = 1 /\ played = <<>> /\ skipped = {} /\ kind \in Kinds
  BY DEF Init
<1>4. TypeOK
  <2>1. decoding \in [seq : Segments, left : 0..Chunks]
    BY <1>2, Bounds DEF Segments
  <2>2. known \in Seq(1..MaxSeq) /\ cache \in Seq(1..MaxSeq) /\ played \in Seq(1..MaxSeq)
    BY <1>2
  <2> QED
    <3>1. origin.lo \in 1..MaxSeq /\ next \in Segments /\ start \in 1..MaxSeq /\ 1 \in Segments
      BY <1>1, <1>2, Bounds DEF Segments
    <3>2. fetch \in [seq : Segments, st : {"none", "find", "get", "download", "bytes", "failed", "absent"}]
      BY <1>2, <3>1
    <3> QED
      BY <1>1, <1>2, <2>1, <2>2, <3>1, <3>2 DEF TypeOK
<1>5. Bookkept
  BY <1>2, Bounds DEF Bookkept, IsInjective, Ascending
<1>6. PlayedInOrder
  BY <1>2 DEF PlayedInOrder
<1>7. LoopInv
  BY <1>2 DEF LoopInv, Playing
<1>8. RecordedInv /\ FetchInv
  BY <1>1, <1>2 DEF RecordedInv, FetchInv, Playing
<1> QED
  BY <1>4, <1>5, <1>6, <1>7, <1>8 DEF IInv

-----------------------------------------------------------------------------
(* The tasks. *)

\* The prefetch tasks of a list of segments.
LEMMA Spawned ==
  ASSUME prefetches \subseteq (0..(MaxSeq + 1)) \X (1..MaxSeq), NEW who \in 0..(MaxSeq + 1),
         NEW segments \in SUBSET (1..MaxSeq)
  PROVE  Spawn(who, segments) \subseteq (0..(MaxSeq + 1)) \X (1..MaxSeq)
BY DEF Spawn

\* What a step must show that leaves the main loop and the history alone.
LEMMA AsideKeeps ==
  ASSUME IInv, TypeOK', Bookkept', UNCHANGED <<kind, player, start, played, skipped>>,
         stop => stop', fetch'.seq = fetch.seq,
         fetch'.st \in {"get", "download", "bytes", "failed"} => fetch.seq \in 1..MaxSeq,
         kind = "vod" => UNCHANGED <<origin, refresher, known>>,
         fetch'.st = "absent" => fetch.st = "absent" \/ (kind = "vod" /\ fetch.seq \notin KnownSegments)
  PROVE  IInv'
<1>1. PlayedInOrder'
  BY DEF IInv, PlayedInOrder, player, reading, Accounted
<1>2. LoopInv'
  BY DEF IInv, LoopInv, player, reading, Done
<1>3. RecordedInv' /\ FetchInv'
  BY DEF IInv, RecordedInv, FetchInv, player, reading, KnownSegments
<1> QED
  BY <1>1, <1>2, <1>3 DEF IInv

\* A prefetch task puts its segment, or fails.
LEMMA PrefetchKeeps ==
  ASSUME IInv, NEW p \in prefetches, Prefetch(p)
  PROVE  IInv'
<1>1. /\ prefetches' \subseteq prefetches /\ cache' \in {cache, Put(p[2])}
      /\ UNCHANGED <<kind, origin, player, known, fetch, refresher, flags, history>>
  BY DEF Prefetch
<1>2. TypeOK /\ Bookkept /\ p[2] \in 1..MaxSeq /\ cache \in Seq(1..MaxSeq)
  BY DEF IInv, TypeOK
<1>3. cache' \in Seq(1..MaxSeq) /\ IsInjective(cache') /\ Len(cache') <= CacheCap
  BY <1>1, <1>2, PutKeeps DEF Bookkept
<1>4. TypeOK'
  BY <1>1, <1>2, <1>3 DEF TypeOK, player, reading, flags, history
<1>5. Bookkept'
  BY <1>1, <1>2, <1>3 DEF Bookkept
<1>6. LoopInv
  BY DEF IInv
<1> QED
  BY <1>1, <1>4, <1>5, <1>6, AsideKeeps DEF player, flags, history, LoopInv

\* The fetch task finds its segment, takes it from the cache or downloads it.
LEMMA FetchKeeps ==
  ASSUME IInv, FetchStep
  PROVE  IInv'
<1>1. TypeOK /\ Bookkept /\ LoopInv /\ known \in Seq(1..MaxSeq) /\ cache \in Seq(1..MaxSeq)
  BY DEF IInv, TypeOK
<1>2. KnownSegments \subseteq 1..MaxSeq
  BY <1>1, Members DEF KnownSegments
<1>3. fetch \in [seq : Segments, st : {"none", "find", "get", "download", "bytes", "failed", "absent"}]
  BY <1>1 DEF TypeOK
<1>4. CASE Find \/ Get
  <2>1. /\ \E st \in {"get", "absent", "bytes", "download"} : fetch' = [fetch EXCEPT !.st = st]
        /\ UNCHANGED <<kind, origin, player, known, cache, prefetches, refresher, flags, history>>
        /\ fetch.st = "get" \/ (fetch.st = "find" /\ fetch'.st = "get" /\ fetch.seq \in KnownSegments)
           \/ (fetch'.st = "absent" /\ kind = "vod" /\ fetch.seq \notin KnownSegments)
        /\ fetch.st = "get" => fetch'.st # "absent"
    BY <1>3, <1>4 DEF Find, Get, Live
  <2>2. /\ fetch'.seq = fetch.seq /\ fetch'.st \in {"get", "absent", "bytes", "download"}
        /\ fetch' \in [seq : Segments, st : {"none", "find", "get", "download", "bytes", "failed", "absent"}]
    BY <1>3, <2>1
  <2>3. TypeOK' /\ Bookkept'
    BY <1>1, <2>1, <2>2 DEF TypeOK, Bookkept, player, reading, flags, history
  <2>4. /\ fetch'.st \in {"get", "download", "bytes", "failed"} => fetch.seq \in 1..MaxSeq
        /\ fetch'.st = "absent" => kind = "vod" /\ fetch.seq \notin KnownSegments
    BY <1>1, <1>2, <2>1, <2>2 DEF LoopInv
  <2> QED
    BY <2>1, <2>2, <2>3, <2>4, AsideKeeps DEF flags, history
<1>5. CASE Download
  <2>1. /\ \E st \in {"bytes", "failed"} : fetch' = [fetch EXCEPT !.st = st]
        /\ UNCHANGED <<kind, origin, player, known, prefetches, refresher, flags, history>>
        /\ cache' \in {cache, Put(fetch.seq)} /\ fetch.st = "download"
    BY <1>5 DEF Download
  <2>2. /\ fetch'.seq = fetch.seq /\ fetch'.st \in {"bytes", "failed"} /\ fetch.seq \in 1..MaxSeq
        /\ fetch' \in [seq : Segments, st : {"none", "find", "get", "download", "bytes", "failed", "absent"}]
    BY <1>1, <1>3, <2>1 DEF LoopInv
  <2>3. cache' \in Seq(1..MaxSeq) /\ IsInjective(cache') /\ Len(cache') <= CacheCap
    BY <1>1, <2>1, <2>2, PutKeeps DEF Bookkept
  <2>4. TypeOK' /\ Bookkept'
    BY <1>1, <2>1, <2>2, <2>3 DEF TypeOK, Bookkept, player, reading, flags, history
  <2> QED
    BY <2>1, <2>2, <2>4, AsideKeeps DEF flags, history
<1> QED
  BY <1>4, <1>5 DEF FetchStep

\* The refresher merges what the playlist has beyond the deque.
LEMMA RefresherKeeps ==
  ASSUME IInv, RefresherStep
  PROVE  IInv'
<1>1. TypeOK /\ Bookkept /\ LoopInv /\ RecordedInv
  BY DEF IInv
<1>2. CASE Refresh
  <2>1. /\ refresher = "sleep" /\ refresher' = "prefetch"
        /\ UNCHANGED <<kind, origin, player, cache, fetch, flags, history>>
    BY <1>2 DEF Refresh
  <2>2. known' \in Seq(1..MaxSeq) /\ Ascending(known') /\ prefetches' \subseteq (0..(MaxSeq + 1)) \X (1..MaxSeq)
    <3>1. CASE UNCHANGED <<known, prefetches>>
      BY <1>1, <3>1 DEF TypeOK, Bookkept
    <3>2. CASE \E new \in FetchAndParse("given") :
                 known' = Merged(new) /\ prefetches' = Spawn(0, ToSet(Latest(known', Ahead)))
      <4>1. PICK new \in FetchAndParse("given") :
                   known' = Merged(new) /\ prefetches' = Spawn(0, ToSet(Latest(known', Ahead)))
        BY <3>2
      <4>2. PICK lo \in 1..MaxSeq, hi \in 0..MaxSeq : new = Consecutive(lo, hi)
        BY <1>1, Playlists
      <4>3. known' \in Seq(1..MaxSeq) /\ Ascending(known')
        BY <1>1, <4>1, <4>2, MergedKeeps DEF TypeOK, Bookkept
      <4>4. ToSet(Latest(known', Ahead)) \subseteq 1..MaxSeq
        BY <4>3, Bounds, LatestKeeps, Members
      <4>5. prefetches' \subseteq (0..(MaxSeq + 1)) \X (1..MaxSeq)
        <5>1. 0 \in 0..(MaxSeq + 1) /\ prefetches \subseteq (0..(MaxSeq + 1)) \X (1..MaxSeq)
          BY <1>1, Bounds DEF TypeOK
        <5> QED
          BY <4>1, <4>4, <5>1, Spawned
      <4> QED
        BY <4>3, <4>5
    <3> QED
      BY <1>2, <3>1, <3>2 DEF Refresh
  <2>3. TypeOK'
    BY <1>1, <2>1, <2>2 DEF TypeOK, player, reading, flags, history
  <2>4. Bookkept'
    BY <1>1, <2>1, <2>2 DEF Bookkept
  <2>5. kind # "vod"
    BY <1>1, <2>1 DEF RecordedInv
  <2> QED
    BY <1>1, <2>1, <2>3, <2>4, <2>5, AsideKeeps DEF LoopInv, flags, history
<1>3. CASE RefresherStops \/ RefreshFails \/ RefresherSleeps
  <2>1. /\ refresher # "off" /\ refresher' \in {"off", "failed", "sleep"}
        /\ UNCHANGED <<kind, origin, player, known, cache, fetch, prefetches, flags, history>>
    BY <1>3 DEF RefresherStops, RefreshFails, RefresherSleeps
  <2>2. TypeOK' /\ Bookkept'
    BY <1>1, <2>1 DEF TypeOK, Bookkept, player, reading, flags, history
  <2>3. kind # "vod"
    BY <1>1, <2>1 DEF RecordedInv
  <2> QED
    BY <1>1, <2>1, <2>2, <2>3, AsideKeeps DEF LoopInv, flags, history
<1> QED
  BY <1>2, <1>3 DEF RefresherStep

\* The origin publishes, and its playlist slides; the caller cancels or pauses.
LEMMA OutsideKeeps ==
  ASSUME IInv, Publish \/ Cancel \/ Toggle
  PROVE  IInv'
<1>1. TypeOK /\ Bookkept /\ LoopInv
  BY DEF IInv
<1>2. CASE Publish
  <2>1. /\ kind # "vod" /\ origin.hi < MaxSeq
        /\ UNCHANGED <<kind, player, tasks, flags, history>>
        /\ origin'.hi = origin.hi + 1
        /\ origin'.lo = origin.lo \/ (origin'.lo = origin.lo + 1 /\ origin.hi + 2 > origin.lo + Window)
    BY <1>2 DEF Publish, Live
  <2>2. origin'.lo \in 1..MaxSeq /\ origin'.hi \in 0..MaxSeq
    <3>1. origin.lo \in 1..MaxSeq /\ origin.hi \in 0..MaxSeq
      BY <1>1 DEF TypeOK
    <3> QED
      BY <2>1, <3>1, Bounds
  <2>3. TypeOK' /\ Bookkept'
    BY <1>1, <2>1, <2>2 DEF TypeOK, Bookkept, player, reading, tasks, flags, history
  <2> QED
    BY <1>1, <2>1, <2>3, AsideKeeps DEF LoopInv, tasks, flags, history
<1>3. CASE Cancel \/ Toggle
  <2>1. (stop => stop') /\ UNCHANGED <<kind, origin, player, tasks, history>>
    BY <1>1, <1>3 DEF Cancel, Toggle
  <2>2. stop' \in BOOLEAN /\ paused' \in BOOLEAN
    BY <1>1, <1>3 DEF Cancel, Toggle, TypeOK
  <2>3. TypeOK'
    BY <1>1, <2>1, <2>2 DEF TypeOK, player, reading, tasks, history
  <2>4. Bookkept'
    BY <1>1, <2>1 DEF Bookkept, tasks
  <2> QED
    BY <1>1, <2>1, <2>3, <2>4, AsideKeeps DEF LoopInv, tasks, history
<1> QED
  BY <1>2, <1>3

-----------------------------------------------------------------------------
(* The main task. *)

\* Giving up the segment n, or playing it, after those before it.
LEMMA GivenUp ==
  ASSUME TypeOK, NEW n \in 1..MaxSeq, start <= n, Done(n - 1),
         UNCHANGED <<start, played>>, skipped' = skipped \cup {n}
  PROVE  Done(n)'
<1>1. start \in Nat /\ n \in Nat /\ \A s \in start..(n - 1) : s # n
  BY Bounds DEF TypeOK
<1>2. ToSet(played)' = (start..n) \ skipped'
  <2>1. start..n = (start..(n - 1)) \cup {n} /\ n \notin start..(n - 1)
    BY <1>1
  <2> QED
    BY <2>1 DEF Done
<1>3. skipped' \subseteq start..n
  BY <1>1 DEF Done
<1> QED
  BY <1>2, <1>3 DEF Done, Ascending

\* The segment that follows is played.
LEMMA PlayedNext ==
  ASSUME TypeOK, NEW n \in 1..MaxSeq, start <= n, Done(n - 1),
         UNCHANGED <<start, skipped>>, played' = Append(played, n)
  PROVE  Done(n)'
<1>1. /\ start \in Nat /\ n \in Nat /\ played \in Seq(Nat)
      /\ start..n = (start..(n - 1)) \cup {n} /\ \A s \in start..(n - 1) : s < n
  <2>1. start \in Nat /\ n \in Nat /\ played \in Seq(Nat)
    BY Bounds DEF TypeOK
  <2> QED
    BY <2>1
<1>2. ToSet(played') = ToSet(played) \cup {n} /\ Ascending(played')
  BY <1>1, Longer DEF Done
<1>3. n \notin skipped
  BY <1>1 DEF Done
<1>4. ToSet(played') = (start..n) \ skipped
  BY <1>1, <1>2, <1>3 DEF Done
<1>5. skipped \subseteq start..n
  BY <1>1 DEF Done
<1>6. Ascending(played)' = Ascending(played') /\ ToSet(played)' = ToSet(played')
  BY DEF Ascending, ToSet
<1> QED
  BY <1>2, <1>4, <1>5, <1>6 DEF Done

\* The end of the loop, however it comes.
LEMMA EndKeeps ==
  ASSUME IInv, NEW how \in Over, Ends(how),
         UNCHANGED <<kind, origin, next, decoding, known, cache, fetch, prefetches, flags, history>>,
         how = "ended" /\ kind = "vod" /\ ~stop => Accounted = 1..MaxSeq
  PROVE  IInv'
<1>1. main' = how /\ refresher' \in {refresher, "off"} /\ how \in {"ended", "failed", "aborted"}
  BY DEF Ends, Over
<1>2. TypeOK'
  <2>1. TypeOK
    BY DEF IInv
  <2>2. refresher' \in {"off", "sleep", "prefetch", "failed"}
    BY <1>1, <2>1 DEF TypeOK
  <2> QED
    BY <1>1, <2>1, <2>2 DEF TypeOK, flags, history
<1>3. Bookkept'
  BY DEF IInv, Bookkept
<1>4. PlayedInOrder'
  BY <1>1 DEF PlayedInOrder, Accounted, flags, history
<1>5. LoopInv'
  BY <1>1 DEF IInv, LoopInv, Playing
<1>6. RecordedInv' /\ FetchInv'
  BY <1>1 DEF IInv, RecordedInv, FetchInv, Playing
<1> QED
  BY <1>2, <1>3, <1>4, <1>5, <1>6 DEF IInv

\* The first segment to play is one of the playlist's, and of a recorded stream the first.
LEMMA StartIsListed ==
  ASSUME TypeOK, NEW lo \in 1..MaxSeq, NEW hi \in 0..MaxSeq, Consecutive(lo, hi) # <<>>
  PROVE  /\ StartAt(Consecutive(lo, hi)) \in lo..hi
         /\ kind = "vod" => StartAt(Consecutive(lo, hi)) = lo
<1> DEFINE list == Consecutive(lo, hi)
<1>1. /\ list \in Seq(1..MaxSeq) /\ Len(list) = IF lo <= hi THEN hi + 1 - lo ELSE 0
      /\ \A i \in 1..(hi + 1 - lo) : list[i] = lo + i - 1
  BY ConsecutiveList
<1>2. Len(list) # 0
  BY <1>1, Elements, Zenon
<1>3. lo <= hi /\ Len(list) = hi + 1 - lo /\ lo \in Nat /\ hi \in Nat
  BY <1>1, <1>2, Bounds
<1> HIDE DEF list
<1>4. list[1] = lo
  BY <1>1, <1>3
<1>5. Len(list) > Ahead => list[Len(list) - Ahead + 1] \in lo..hi
  BY <1>1, <1>3, Bounds
<1> QED
  BY <1>3, <1>4, <1>5 DEF StartAt, Live, list

\* The manifest gives the playlist and the segment to start with.
LEMMA ManifestKeeps ==
  ASSUME IInv, Manifest
  PROVE  IInv'
<1>1. TypeOK /\ Bookkept /\ LoopInv /\ RecordedInv /\ main = "manifest"
  BY DEF IInv, Manifest
<1>2. CASE Ends("failed") /\ UNCHANGED <<known, next, start, prefetches>>
  <2>1. UNCHANGED <<kind, origin, decoding, cache, fetch, flags, played, skipped>>
    BY DEF Manifest
  <2> QED
    BY <1>2, <2>1, EndKeeps DEF Over, history
<1>3. ASSUME NEW url, NEW list \in FetchAndParse(url), list # <<>>, main' = "prefetch",
             known' = list, next' = StartAt(list), start' = StartAt(list),
             prefetches' = Spawn(0, {s \in ToSet(list) : s \in next'..(next' + Ahead - 1)}),
             UNCHANGED refresher,
             UNCHANGED <<kind, origin, decoding, cache, fetch, flags, played, skipped>>
      PROVE  IInv'
  <2>1. PICK lo \in 1..MaxSeq, hi \in 0..MaxSeq :
               list = Consecutive(lo, hi) /\ (kind = "vod" => lo = origin.lo /\ hi = origin.hi)
    BY <1>1, <1>3, Playlists
  <2>2. next' \in lo..hi /\ (kind = "vod" => next' = lo) /\ start' = next'
    BY <1>1, <1>3, <2>1, StartIsListed
  <2>3. known' \in Seq(1..MaxSeq) /\ Ascending(known') /\ ToSet(known') = lo..hi
    BY <1>3, <2>1, ConsecutiveList
  <2>4. lo..hi \subseteq 1..MaxSeq /\ 1..MaxSeq \subseteq Segments
    BY Bounds DEF Segments
  <2>5. prefetches' \subseteq (0..(MaxSeq + 1)) \X (1..MaxSeq)
    <3>1. ToSet(list) \subseteq 1..MaxSeq /\ 0 \in 0..(MaxSeq + 1)
      BY <1>3, <2>3, <2>4, Bounds
    <3>2. prefetches \subseteq (0..(MaxSeq + 1)) \X (1..MaxSeq)
      BY <1>1 DEF TypeOK
    <3> QED
      BY <1>3, <3>1, <3>2, Spawned
  <2>6. TypeOK'
    <3>2. next' \in Segments /\ start' \in 1..MaxSeq
      BY <2>2, <2>4
    <3> QED
      BY <1>1, <1>3, <2>3, <2>5, <3>2 DEF TypeOK, flags
  <2>7. Bookkept'
    BY <1>1, <1>3, <2>3 DEF Bookkept
  <2>8. PlayedInOrder'
    BY <1>3 DEF PlayedInOrder
  <2>9. LoopInv'
    BY <1>1, <1>3, <2>2 DEF LoopInv, Playing
  <2>10. RecordedInv'
    BY <1>1, <1>3, <2>1, <2>2, <2>3 DEF RecordedInv, Playing, KnownSegments
  <2>11. FetchInv'
    BY <1>3 DEF FetchInv, Playing
  <2> QED
    BY <2>6, <2>7, <2>8, <2>9, <2>10, <2>11 DEF IInv
<1> QED
  BY <1>2, <1>3 DEF Manifest

\* The loop begins.
LEMMA PlayKeeps ==
  ASSUME IInv, Play
  PROVE  IInv'
<1>1. TypeOK /\ Bookkept /\ LoopInv /\ RecordedInv /\ main = "prefetch" /\ main' = "loop"
  BY DEF IInv, Play
<1>2. /\ refresher' = IF Live THEN "sleep" ELSE "off"
      /\ fetch' = [seq |-> next, st |-> "find"]
      /\ UNCHANGED <<kind, origin, reading, known, cache, prefetches, flags, history>>
  BY DEF Play
<1>3. TypeOK'
  <2>1. fetch' \in [seq : Segments, st : {"none", "find", "get", "download", "bytes", "failed", "absent"}]
    BY <1>1, <1>2 DEF TypeOK
  <2> QED
    BY <1>1, <1>2, <2>1 DEF TypeOK, reading, flags, history
<1>4. Bookkept'
  BY <1>1, <1>2 DEF Bookkept
<1>5. next = start /\ played = <<>> /\ skipped = {} /\ start \in 1..MaxSeq
  BY <1>1 DEF LoopInv, TypeOK
<1>6. Done(next - 1)
  <2>1. ToSet(<<>>) = {} /\ Ascending(<<>>)
    BY DEF ToSet, Ascending
  <2>2. start..(next - 1) = {}
    BY <1>5, Bounds
  <2> QED
    BY <1>5, <2>1, <2>2 DEF Done
<1>7. Done(next - 1)'
  BY <1>2, <1>6 DEF Done, reading, history
<1>8. PlayedInOrder'
  BY <1>1, <1>7 DEF PlayedInOrder, Done
<1>9. LoopInv'
  BY <1>1, <1>2, <1>5, <1>7, Bounds DEF LoopInv, Playing, reading, history
<1>10. RecordedInv' /\ FetchInv'
  BY <1>1, <1>2 DEF RecordedInv, FetchInv, Playing, KnownSegments, Live, history
<1> QED
  BY <1>3, <1>4, <1>8, <1>9, <1>10 DEF IInv

\* The flags at the top of the loop, and an abort.
LEMMA LoopKeeps ==
  ASSUME IInv, Loop \/ Aborted
  PROVE  IInv'
<1>1. TypeOK /\ Bookkept /\ LoopInv
  BY DEF IInv
<1>2. UNCHANGED <<kind, origin, reading, known, cache, fetch, prefetches, flags, history>>
  BY DEF Loop, Aborted
<1>3. CASE stop /\ (Ends("ended") \/ Ends("aborted"))
  BY <1>2, <1>3, EndKeeps DEF Over, reading
<1>4. CASE main = "loop" /\ ~stop /\ ~paused /\ main' = "await" /\ UNCHANGED refresher
  <2>1. TypeOK' /\ Bookkept'
    BY <1>1, <1>2, <1>4 DEF TypeOK, Bookkept, reading, flags, history
  <2>2. Done(next - 1)'
    BY <1>1, <1>2, <1>4 DEF LoopInv, Done, reading, history
  <2>3. PlayedInOrder'
    BY <1>4, <2>2 DEF PlayedInOrder, Done
  <2>4. LoopInv'
    BY <1>1, <1>2, <1>4, <2>2 DEF LoopInv, Playing, reading, history
  <2>5. RecordedInv' /\ FetchInv'
    BY <1>2, <1>4 DEF IInv, RecordedInv, FetchInv, Playing, KnownSegments, reading, history
  <2> QED
    BY <2>1, <2>3, <2>4, <2>5 DEF IInv
<1> QED
  BY <1>3, <1>4 DEF Loop, Aborted

\* What a step must show that goes on with the loop.
LEMMA GoesOn ==
  ASSUME IInv, TypeOK', main \in Playing, main' \in Playing, fetch'.seq = next', next <= next',
         UNCHANGED <<kind, origin, known, cache, refresher, start>>,
         fetch'.st \in {"get", "download", "bytes", "failed"} => fetch.st = fetch'.st /\ fetch.seq = fetch'.seq,
         fetch'.st = "absent" => fetch' = fetch,
         main' = "await" \/ (main' = "loop" /\ ~stop') => Done(next - 1)',
         main' \in {"decode", "write"} => /\ decoding'.seq = next' - 1 /\ decoding'.seq \in start..MaxSeq
                                          /\ Done(decoding.seq - 1)',
         main' = "write" => decoding'.left \in 1..Chunks
  PROVE  IInv'
<1>1. TypeOK /\ LoopInv
  BY DEF IInv
<1>2. start <= next'
  <2>1. start <= next /\ start \in Int /\ next \in Int /\ next' \in Int
    BY <1>1, Bounds DEF TypeOK, LoopInv, Segments
  <2> QED
    BY <2>1
<1>3. Bookkept'
  BY DEF IInv, Bookkept
<1>4. PlayedInOrder'
  BY DEF PlayedInOrder, Playing, Done
<1>6. LoopInv'
  BY <1>1, <1>2 DEF LoopInv, Playing
<1>7. RecordedInv' /\ FetchInv'
  BY DEF IInv, RecordedInv, FetchInv, Playing, KnownSegments
<1> QED
  BY <1>3, <1>4, <1>6, <1>7 DEF IInv

\* The segment has been fetched, or given up, or there is none.
LEMMA TakeKeeps ==
  ASSUME IInv, Take
  PROVE  IInv'
<1>1. TypeOK /\ LoopInv /\ RecordedInv /\ main = "await" /\ fetch.seq = next /\ Done(next - 1) /\ start <= next
  BY DEF IInv, Take, LoopInv, Playing
<1>2. UNCHANGED <<kind, origin, known, cache, flags, start, played>>
  BY DEF Take
<1>3. start \in 1..MaxSeq /\ next \in 1..(MaxSeq + 1)
  BY <1>1 DEF TypeOK, Segments
<1>4. CASE fetch.st \in {"bytes", "failed"} /\ FetchNext
  <2>1. /\ next \in 1..MaxSeq /\ next' = next + 1 /\ fetch' = [seq |-> next + 1, st |-> "find"]
        /\ next + 1 \in Segments /\ (next + 1) - 1 = next /\ next <= next + 1
    BY <1>1, <1>4, Bounds DEF LoopInv, FetchNext, Segments
  <2>2. /\ fetch' \in [seq : Segments, st : {"none", "find", "get", "download", "bytes", "failed", "absent"}]
        /\ fetch'.seq = next' /\ fetch'.st = "find" /\ next' \in Segments
    BY <2>1
  <2>3. CASE /\ main' = "decode" /\ decoding' = [seq |-> next, left |-> 0]
             /\ prefetches' = Spawn(next', KnownSegments \cap (next' + 1)..(next' + Ahead))
             /\ UNCHANGED <<refresher, skipped>>
    <3>1. prefetches' \subseteq (0..(MaxSeq + 1)) \X (1..MaxSeq)
      <4>1. KnownSegments \subseteq 1..MaxSeq /\ prefetches \subseteq (0..(MaxSeq + 1)) \X (1..MaxSeq)
        BY <1>1, Members DEF TypeOK, KnownSegments
      <4>2. next' \in 0..(MaxSeq + 1)
        BY <2>2, Bounds DEF Segments
      <4> QED
        BY <2>3, <4>1, <4>2, Spawned, Zenon
    <3>2. decoding' \in [seq : Segments, left : 0..Chunks] /\ decoding'.seq = next /\ next \in start..MaxSeq
      BY <1>1, <1>3, <2>1, <2>3, Bounds DEF TypeOK
    <3>3. TypeOK'
      BY <1>1, <1>2, <2>2, <2>3, <3>1, <3>2 DEF TypeOK, flags
    <3>4. Done(decoding.seq - 1)'
      BY <1>1, <1>2, <2>3, <3>2 DEF Done
    <3> QED
      BY <1>1, <1>2, <2>1, <2>2, <2>3, <3>2, <3>3, <3>4, GoesOn DEF Playing
  <2>4. CASE main' = "loop" /\ skipped' = skipped \cup {next} /\ UNCHANGED <<decoding, prefetches, refresher>>
    <3>1. TypeOK'
      BY <1>1, <1>2, <2>1, <2>2, <2>4 DEF TypeOK, flags
    <3>2. Done(next - 1)'
      <4>1. PICK n \in 1..MaxSeq : n = next
        BY <2>1
      <4>2. Done(n)'
        BY <1>1, <1>2, <2>4, <4>1, GivenUp
      <4>3. next' - 1 = n
        BY <2>1, <4>1
      <4> QED
        BY <4>2, <4>3 DEF Done
    <3> QED
      BY <1>1, <1>2, <2>1, <2>2, <2>4, <3>1, <3>2, GoesOn DEF Playing
  <2> QED
    BY <1>4, <2>3, <2>4 DEF Take
<1>5. CASE fetch.st = "absent" /\ Ends("ended") /\ UNCHANGED <<next, decoding, fetch, prefetches, skipped>>
  <2>1. kind = "vod" /\ next \notin KnownSegments
    BY <1>1, <1>5 DEF IInv, FetchInv, Playing
  <2>2. KnownSegments = 1..MaxSeq /\ start = 1
    BY <1>1, <2>1 DEF RecordedInv, Playing
  <2>3. next - 1 = MaxSeq
    BY <1>3, <2>1, <2>2, Bounds
  <2>4. Accounted = 1..MaxSeq
    BY <1>1, <2>2, <2>3 DEF Accounted, Done
  <2> QED
    BY <1>2, <1>5, <2>4, EndKeeps DEF Over, history
<1> QED
  BY <1>4, <1>5 DEF Take

\* A segment is decoded, or not.
LEMMA DecodeKeeps ==
  ASSUME IInv, Decode \/ DecodeFails
  PROVE  IInv'
<1>1. /\ TypeOK /\ LoopInv /\ main = "decode" /\ fetch.seq = next /\ start <= next
      /\ decoding.seq = next - 1 /\ decoding.seq \in start..MaxSeq /\ Done(decoding.seq - 1)
  BY DEF IInv, Decode, DecodeFails, LoopInv, Playing
<1>2. UNCHANGED <<kind, origin, next, known, cache, fetch, prefetches, flags, start>>
  BY DEF Decode, DecodeFails, tasks
<1>3. /\ start \in 1..MaxSeq /\ next \in 1..(MaxSeq + 1) /\ decoding.seq \in 1..MaxSeq
      /\ start <= decoding.seq
  BY <1>1, Bounds DEF TypeOK, Segments
<1>6. ASSUME main' = "loop", UNCHANGED <<decoding, refresher>>,
             \/ Written /\ UNCHANGED skipped
             \/ skipped' = skipped \cup {decoding.seq} /\ UNCHANGED played
      PROVE  IInv'
  <2>1. Done(next - 1)'
    <3>1. PICK n \in 1..MaxSeq : n = decoding.seq
      BY <1>3
    <3>2. Done(n)'
      BY <1>1, <1>2, <1>3, <1>6, <3>1, GivenUp, PlayedNext DEF Written
    <3>3. next' - 1 = n
      BY <1>1, <1>2, <3>1
    <3> QED
      BY <3>2, <3>3 DEF Done
  <2>2. played' \in Seq(1..MaxSeq) /\ skipped' \subseteq 1..MaxSeq
    <3>1. played \in Seq(1..MaxSeq) /\ skipped \subseteq 1..MaxSeq
      BY <1>1 DEF TypeOK
    <3>2. Append(played, decoding.seq) \in Seq(1..MaxSeq)
      BY <1>3, <3>1
    <3> QED
      BY <1>3, <1>6, <3>1, <3>2 DEF Written
  <2>4. TypeOK'
    BY <1>1, <1>2, <1>6, <2>2 DEF TypeOK, flags
  <2> QED
    BY <1>1, <1>2, <1>3, <1>6, <2>1, <2>4, GoesOn DEF Playing
<1>7. CASE DecodeFails
  BY <1>6, <1>7 DEF DecodeFails, tasks
<1>8. CASE Decode
  <2>2. CASE main' = "loop" /\ Written /\ UNCHANGED <<decoding, refresher>> /\ UNCHANGED skipped
    BY <1>6, <2>2
  <2>4. CASE Ends("failed") /\ UNCHANGED <<decoding, played>> /\ UNCHANGED skipped
    BY <1>2, <2>4, EndKeeps DEF Over, history
  <2>5. CASE /\ \E n \in 1..Chunks : decoding' = [decoding EXCEPT !.left = n]
             /\ main' = "write" /\ UNCHANGED <<refresher, played>> /\ UNCHANGED skipped
    <3>1. /\ decoding' \in [seq : Segments, left : 0..Chunks]
          /\ decoding'.seq = decoding.seq /\ decoding'.left \in 1..Chunks
      <4>1. PICK n \in 1..Chunks : decoding' = [decoding EXCEPT !.left = n]
        BY <2>5
      <4>2. decoding \in [seq : Segments, left : 0..Chunks] /\ n \in 0..Chunks
        BY <1>1, Bounds DEF TypeOK
      <4> QED
        BY <4>1, <4>2
    <3>3. TypeOK'
      BY <1>1, <1>2, <2>5, <3>1 DEF TypeOK, flags
    <3>4. Done(decoding.seq - 1)'
      BY <1>1, <1>2, <2>5, <3>1 DEF Done
    <3> QED
      BY <1>1, <1>2, <1>3, <2>5, <3>1, <3>3, <3>4, GoesOn DEF Playing
  <2> QED
    BY <1>8, <2>2, <2>4, <2>5 DEF Decode
<1> QED
  BY <1>7, <1>8

\* A chunk is written; the segment is played when all are.
LEMMA WriteKeeps ==
  ASSUME IInv, Write
  PROVE  IInv'
<1>1. /\ TypeOK /\ LoopInv /\ main = "write" /\ fetch.seq = next /\ start <= next
      /\ decoding.seq = next - 1 /\ decoding.seq \in start..MaxSeq /\ Done(decoding.seq - 1)
      /\ decoding.left \in 1..Chunks
  BY DEF IInv, Write, LoopInv, Playing
<1>2. /\ UNCHANGED <<kind, origin, next, known, cache, fetch, prefetches, flags>>
      /\ UNCHANGED <<start, skipped>>
  BY DEF Write
<1>3. /\ start \in 1..MaxSeq /\ next \in 1..(MaxSeq + 1) /\ decoding.seq \in 1..MaxSeq
      /\ start <= decoding.seq
  BY <1>1, Bounds DEF TypeOK, Segments
<1>4. CASE stop /\ main' = "loop" /\ UNCHANGED <<decoding, refresher, played>>
  <2>1. TypeOK'
    BY <1>1, <1>2, <1>4 DEF TypeOK, flags
  <2> QED
    BY <1>1, <1>2, <1>3, <1>4, <2>1, GoesOn DEF Playing, flags
<1>5. CASE /\ ~stop /\ decoding' = [decoding EXCEPT !.left = @ - 1] /\ UNCHANGED refresher
           /\ IF decoding.left = 1 THEN main' = "loop" /\ Written ELSE UNCHANGED <<main, played>>
  <2>1. /\ decoding' \in [seq : Segments, left : 0..Chunks]
        /\ decoding'.seq = decoding.seq /\ decoding'.left = decoding.left - 1
    <3>1. decoding \in [seq : Segments, left : 0..Chunks] /\ decoding.left - 1 \in 0..Chunks
      BY <1>1, Bounds DEF TypeOK
    <3> QED
      BY <1>5, <3>1
  <2>2. CASE decoding.left = 1
    <3>1. Done(next - 1)'
      <4>1. PICK n \in 1..MaxSeq : n = decoding.seq
        BY <1>3
      <4>2. Done(n)'
        BY <1>1, <1>2, <1>3, <1>5, <2>2, <4>1, PlayedNext DEF Written
      <4>3. next' - 1 = n
        BY <1>1, <1>2, <4>1
      <4> QED
        BY <4>2, <4>3 DEF Done
    <3>2. played' \in Seq(1..MaxSeq)
      <4>1. played \in Seq(1..MaxSeq)
        BY <1>1 DEF TypeOK
      <4>2. Append(played, decoding.seq) \in Seq(1..MaxSeq)
        BY <1>3, <4>1
      <4> QED
        BY <1>5, <2>2, <4>2 DEF Written
    <3>3. TypeOK'
      BY <1>1, <1>2, <1>5, <2>1, <2>2, <3>2 DEF TypeOK, flags
    <3> QED
      BY <1>1, <1>2, <1>3, <1>5, <2>2, <3>1, <3>3, GoesOn DEF Playing
  <2>3. CASE decoding.left # 1
    <3>1. decoding'.left \in 1..Chunks
      BY <1>1, <2>1, <2>3, Bounds
    <3>2. TypeOK'
      BY <1>1, <1>2, <1>5, <2>1, <2>3 DEF TypeOK, flags
    <3>3. Done(decoding.seq - 1)'
      BY <1>1, <1>2, <1>5, <2>1, <2>3 DEF Done
    <3> QED
      BY <1>1, <1>2, <1>3, <1>5, <2>1, <2>3, <3>1, <3>2, <3>3, GoesOn DEF Playing
  <2> QED
    BY <2>2, <2>3
<1>6. CASE Ends("failed") /\ UNCHANGED <<decoding, played>>
  BY <1>2, <1>6, EndKeeps DEF Over, history
<1> QED
  BY <1>4, <1>5, <1>6 DEF Write

-----------------------------------------------------------------------------
(* The theorems. *)

\* Every step keeps the invariant.
LEMMA InvNext == IInv /\ [Next]_vars => IInv'
<1> SUFFICES ASSUME IInv, [Next]_vars PROVE IInv'
  OBVIOUS
<1>1. CASE MainStep
  BY <1>1, ManifestKeeps, PlayKeeps, LoopKeeps, TakeKeeps, DecodeKeeps, WriteKeeps DEF MainStep
<1>2. CASE FetchStep \/ RefresherStep \/ Publish \/ Cancel \/ Toggle
  BY <1>2, FetchKeeps, RefresherKeeps, OutsideKeeps
<1>3. CASE \E p \in prefetches : Prefetch(p)
  BY <1>3, PrefetchKeeps
<1>4. CASE UNCHANGED vars
  <2>1. UNCHANGED <<kind, origin, player, tasks, flags, history>>
    BY <1>4 DEF vars
  <2>2. TypeOK' /\ Bookkept' /\ LoopInv
    BY <2>1 DEF IInv, TypeOK, Bookkept, player, reading, tasks, flags, history
  <2> QED
    BY <2>1, <2>2, AsideKeeps DEF LoopInv, tasks, flags, history
<1> QED
  BY <1>1, <1>2, <1>3, <1>4 DEF Next

\* The invariant holds throughout.
THEOREM Invariant == Spec => []IInv
<1>1. Init => IInv
  BY InvInit
<1>2. IInv /\ [Next]_vars => IInv'
  BY InvNext
<1> QED
  BY <1>1, <1>2, PTL DEF Spec

\* Every state of the playback is well-formed: no segment number is beyond the last
\* one published.
THEOREM TypeCorrect == Spec => []TypeOK
<1>1. IInv => TypeOK
  BY DEF IInv
<1> QED
  BY <1>1, Invariant, PTL

\* However fetch, prefetch and refresher tasks interleave, the cache holds each
\* segment once and is within its cap, and the deque of known segments is in order.
THEOREM CacheAndDequeBookkept == Spec => []Bookkept
<1>1. IInv => Bookkept
  BY DEF IInv
<1> QED
  BY <1>1, Invariant, PTL

\* The loop has played every segment from the first to the one before next in order
\* and once, but for those given up; a recorded stream ends by itself only when all
\* of its segments are played or given up.
THEOREM SegmentsPlayedInOrder == Spec => []PlayedInOrder
<1>1. IInv => PlayedInOrder
  BY DEF IInv
<1> QED
  BY <1>1, Invariant, PTL
====

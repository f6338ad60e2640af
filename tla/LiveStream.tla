---------------------------- MODULE LiveStream ----------------------------
(***************************************************************************)
(* Playback of one HLS or DASH stream (run_player_inner in                 *)
(* crates/stream/src/player.rs) with its segment cache and prefetch tasks  *)
(* (fetcher.rs): the main loop, the task that fetches the next segment,    *)
(* the prefetch tasks and, for a live stream, the refresher.               *)
(*                                                                         *)
(* Segments are their sequence numbers; the origin serves a playlist of    *)
(* consecutive ones, which slides if the stream is live.  A live DASH      *)
(* manifest names no segments: they are computed from the clock.  Module   *)
(* Player models what surrounds this loop: the slot, the state, the sink's *)
(* end; module AlsaSink which format a chunk is played in.  Requests end,  *)
(* with an answer or an error (the client's 20 s timeout).                 *)
(***************************************************************************)
EXTENDS Naturals, Sequences, FiniteSets, SequencesExt

CONSTANTS Kinds,      \* of streams, see kind
          Failing,    \* what may fail, of "manifest", "segment", "decode", "sink"
          Ahead,      \* segments prefetched, and started behind the live edge (3)
          CacheCap,   \* CACHE_CAP (12)
          KnownCap,   \* known segments kept by a refresh (64)
          Window,     \* length of the origin's HLS playlist
          DashWindow, \* window of parse_dash (6)
          MaxSeq,     \* bound: last segment published
          Chunks      \* bound: chunks of a decoded segment

ASSUME LiveAssumption ==
  /\ Kinds \subseteq {"vod", "live", "master", "dash", "undated"}
  /\ Failing \subseteq {"manifest", "segment", "decode", "sink"}
  /\ {Ahead, CacheCap, KnownCap, Window, DashWindow, MaxSeq, Chunks} \subseteq Nat \ {0}
  /\ Window <= MaxSeq /\ DashWindow < MaxSeq

VARIABLES
  kind,        \* "vod": recorded; "live": HLS; "master": live HLS, and played from its
               \* master playlist; "dash": live DASH; "undated": live DASH without an
               \* availabilityStartTime
  origin,      \* segments origin.lo .. origin.hi: of the playlist, of DASH startNumber and
               \* the one being produced
  main,        \* where run_player_inner is
  next,        \* next_play_seq
  decoding,    \* decoding_seq, and the chunks of it not yet written
  known,       \* the deque of known segments
  cache,       \* SegmentCache: keys in order of insertion
  fetch,       \* pending_fetch: segment and progress
  prefetches,  \* prefetch tasks under way: <<who spawned it, segment>>
  refresher,   \* the refresher task
  stop, paused,
  start, played, skipped   \* history: first segment, those written, in order, and given up

flags == <<stop, paused>>
history == <<start, played, skipped>>
reading == <<next, decoding>>
player == <<main, reading>>
tasks == <<known, cache, fetch, prefetches, refresher>>
vars == <<kind, origin, player, tasks, flags, history>>

Live == kind # "vod"
IsDash == kind \in {"dash", "undated"}
Over == {"ended", "failed", "aborted"}
KnownSegments == ToSet(known)
Consecutive(lo, hi) == [i \in 1..(hi + 1 - lo) |-> lo + i - 1]

\* The segment that the clock gives as the head is still being produced.
Absent(s) == kind = "dash" /\ s = origin.hi

Init ==
  /\ kind \in Kinds
  /\ origin \in [lo : {1}, hi : IF kind = "vod" THEN {MaxSeq}
                                ELSE IF IsDash THEN 1..(DashWindow + 1) ELSE 0..Window]
  /\ main = "manifest" /\ next = 1 /\ decoding = [seq |-> 1, left |-> 0]
  /\ known = <<>> /\ cache = <<>> /\ prefetches = {}
  /\ fetch = [seq |-> 1, st |-> "none"]
  /\ refresher = "off" /\ stop = FALSE /\ paused = FALSE
  /\ start = 1 /\ played = <<>> /\ skipped = {}

-----------------------------------------------------------------------------
(* Manifests: what parsing yields, a playlist or (no element) an error. *)

\* parse_hls_media: the n-th segment listed has the number media_sequence + n.
HlsMedia == {Consecutive(origin.lo, origin.hi)}

\* parse_hls: of a master playlist an error that names a variant.
ParseHls(url) == IF kind = "master" /\ url = "given" THEN {} ELSE HlsMedia

\* compute_live_head: the number of whole segments since availabilityStartTime, and
\* startNumber when there is none.
LiveHead == IF kind = "undated" THEN origin.lo ELSE origin.hi

\* parse_dash: a live window ends with the head, and holds one segment more than
\* DashWindow.
ParseDash ==
  {Consecutive(IF LiveHead > origin.lo + DashWindow THEN LiveHead - DashWindow ELSE origin.lo, LiveHead)}

\* fetch_and_parse.
FetchAndParse(url) == IF IsDash THEN ParseDash ELSE ParseHls(url)

-----------------------------------------------------------------------------
(* The cache, and the tasks that fill it. *)

\* The last n elements of q, or all.
Latest(q, n) == IF Len(q) > n THEN SubSeq(q, Len(q) - n + 1, Len(q)) ELSE q

\* mutant
PutAgain(s) == Latest(Append(cache, s), CacheCap)

\* SegmentCache::put: a held segment keeps its place; the oldest go.
Put(s) == IF Contains(cache, s) THEN cache ELSE Latest(Append(cache, s), CacheCap)

\* prefetch: one task per segment; 0 stands for the callers that await it.
Spawn(who, segments) == prefetches \cup {<<who, s>> : s \in segments}
Awaited == {p \in prefetches : p[1] = 0}

\* A prefetch task finds its segment in the cache, or downloads and puts it, or
\* fails.  A put of a held segment changes nothing, so its lookup and its put
\* may be taken as one step.
Prefetch(p) ==
  /\ p \in prefetches /\ prefetches' = prefetches \ {p}
  /\ \/ ~Absent(p[2]) /\ cache' = Put(p[2])
     \/ (Absent(p[2]) \/ "segment" \in Failing) /\ cache' = cache
  /\ UNCHANGED <<kind, origin, player, known, fetch, refresher, flags, history>>

\* spawn_fetch: look the segment up among the known ones, every 200 ms if the
\* stream is live; take it from the cache or download and put it.
Find ==
  /\ fetch.st = "find"
  /\ \/ fetch.seq \in KnownSegments /\ fetch' = [fetch EXCEPT !.st = "get"]
     \/ fetch.seq \notin KnownSegments /\ ~Live /\ fetch' = [fetch EXCEPT !.st = "absent"]
  /\ UNCHANGED <<kind, origin, player, known, cache, prefetches, refresher, flags, history>>

Get ==
  /\ fetch.st = "get"
  /\ fetch' = [fetch EXCEPT !.st = IF Contains(cache, fetch.seq) THEN "bytes" ELSE "download"]
  /\ UNCHANGED <<kind, origin, player, known, cache, prefetches, refresher, flags, history>>

Download ==
  /\ fetch.st = "download"
  /\ \/ ~Absent(fetch.seq) /\ fetch' = [fetch EXCEPT !.st = "bytes"] /\ cache' = Put(fetch.seq)
     \/ /\ Absent(fetch.seq) \/ "segment" \in Failing
        /\ fetch' = [fetch EXCEPT !.st = "failed"] /\ cache' = cache
  /\ UNCHANGED <<kind, origin, player, known, prefetches, refresher, flags, history>>

-----------------------------------------------------------------------------
(* The refresher. *)

\* mutant
StopUnseen ==
  /\ refresher = "sleep" /\ stop /\ refresher' = "prefetch"
  /\ UNCHANGED <<kind, origin, player, known, cache, fetch, prefetches, flags, history>>

\* The stop flag is looked at after each sleep.
RefresherStops ==
  /\ refresher = "sleep" /\ stop /\ refresher' = "off"
  /\ UNCHANGED <<kind, origin, player, known, cache, fetch, prefetches, flags, history>>

\* mutant
MergedNothing(new) == known

\* mutant
MergedWithAll(new) == Latest(known \o new, KnownCap)

\* The segments of a playlist, which are in order, from the first after last on.
Newer(list, last) == SubSeq(list, 1 + Cardinality({i \in DOMAIN list : list[i] <= last}), Len(list))

\* The deque with the playlist's segments newer than its last one, trimmed.
Merged(new) == Latest(known \o Newer(new, IF known = <<>> THEN 0 ELSE Last(known)), KnownCap)

\* The playlist asked for is the one given to Play; a master playlist is no
\* media playlist, so what comes back is an error and nothing is merged.
Refresh ==
  /\ refresher = "sleep" /\ ~stop
  /\ \/ \E new \in FetchAndParse("given") :
          known' = Merged(new) /\ prefetches' = Spawn(0, ToSet(Latest(known', Ahead)))
     \/ FetchAndParse("given") = {} /\ UNCHANGED <<known, prefetches>>
  /\ refresher' = "prefetch"
  /\ UNCHANGED <<kind, origin, player, cache, fetch, flags, history>>

\* A refresh that fails is logged.
RefreshFails ==
  /\ refresher = "sleep" /\ ~stop /\ "manifest" \in Failing
  /\ refresher' = "failed"
  /\ UNCHANGED <<kind, origin, player, known, cache, fetch, prefetches, flags, history>>

RefresherSleeps ==
  /\ (refresher = "failed" \/ (refresher = "prefetch" /\ Awaited = {})) /\ refresher' = "sleep"
  /\ UNCHANGED <<kind, origin, player, known, cache, fetch, prefetches, flags, history>>

-----------------------------------------------------------------------------
(* The main task. *)

\* The end of run_player_inner: only a normal end aborts the refresher, and none
\* ends the fetch and prefetch tasks.
Ends(how) == main' = how /\ refresher' = IF how = "ended" THEN "off" ELSE refresher

\* The first segment to play: the last but Ahead of a longer live playlist.
StartAt(list) == IF Live /\ Len(list) > Ahead THEN list[Len(list) - Ahead + 1] ELSE list[1]

\* The manifest, the variant's if it was a master playlist, and the init segment.
Manifest ==
  /\ main = "manifest"
  /\ \/ \E list \in FetchAndParse(IF FetchAndParse("given") = {} THEN "variant" ELSE "given") :
          /\ list # <<>> /\ main' = "prefetch"
          /\ known' = list /\ next' = StartAt(list) /\ start' = StartAt(list)
          /\ prefetches' = Spawn(0, {s \in ToSet(list) : s \in next'..(next' + Ahead - 1)})
          /\ UNCHANGED refresher
     \/ /\ origin.hi < origin.lo \/ Failing \cap {"manifest", "segment", "sink"} # {}
        /\ Ends("failed") /\ UNCHANGED <<known, next, start, prefetches>>
  /\ UNCHANGED <<kind, origin, decoding, cache, fetch, flags, played, skipped>>

Play ==
  /\ main = "prefetch" /\ Awaited = {} /\ main' = "loop"
  /\ refresher' = IF Live THEN "sleep" ELSE "off"
  /\ fetch' = [seq |-> next, st |-> "find"]
  /\ UNCHANGED <<kind, origin, reading, known, cache, prefetches, flags, history>>

\* The top of the loop: the flags are looked at, and the pending fetch awaited.
Loop ==
  /\ main = "loop"
  /\ \/ stop /\ Ends("ended")
     \/ ~stop /\ ~paused /\ main' = "await" /\ UNCHANGED refresher
  /\ UNCHANGED <<kind, origin, reading, known, cache, fetch, prefetches, flags, history>>

\* mutant
FetchNextSkipping == next' = next + 2 /\ fetch' = [seq |-> next + 2, st |-> "find"]

\* mutant
FetchNotSpawned == next' = next + 1 /\ fetch' = [seq |-> next + 1, st |-> "none"]

\* mutant
FetchSame == next' = next /\ fetch' = [seq |-> next, st |-> "find"]

FetchNext == next' = next + 1 /\ fetch' = [seq |-> next + 1, st |-> "find"]

Take ==
  /\ main = "await"
  /\ \/ /\ fetch.st = "bytes" /\ FetchNext /\ main' = "decode" /\ decoding' = [seq |-> next, left |-> 0]
        /\ prefetches' = Spawn(next', KnownSegments \cap (next' + 1)..(next' + Ahead))
        /\ UNCHANGED <<refresher, skipped>>
     \/ /\ fetch.st = "failed" /\ FetchNext /\ main' = "loop"
        /\ skipped' = skipped \cup {next} /\ UNCHANGED <<decoding, prefetches, refresher>>
     \/ /\ fetch.st = "absent" /\ Ends("ended") /\ UNCHANGED <<next, decoding, fetch, prefetches, skipped>>
  /\ UNCHANGED <<kind, origin, known, cache, flags, start, played>>

Written == played' = Append(played, decoding.seq)

\* decode_segment, and set_format when the decoded format is a new one.  Bad frames
\* are dropped: a segment may decode to nothing.
Decode ==
  /\ main = "decode"
  /\ \/ /\ \E n \in 1..Chunks : decoding' = [decoding EXCEPT !.left = n]
        /\ main' = "write" /\ UNCHANGED <<refresher, played>>
     \/ main' = "loop" /\ Written /\ UNCHANGED <<decoding, refresher>>
     \/ "sink" \in Failing /\ Ends("failed") /\ UNCHANGED <<decoding, played>>
  /\ UNCHANGED <<kind, origin, next, known, cache, fetch, prefetches, flags, start, skipped>>

\* The segment cannot be probed, has no AAC track, or breaks off with an error.
DecodeFails ==
  /\ main = "decode" /\ "decode" \in Failing
  /\ main' = "loop" /\ skipped' = skipped \cup {decoding.seq}
  /\ UNCHANGED <<kind, origin, next, decoding, tasks, flags, start, played>>

\* A chunk is written; stop breaks off the segment.  A stop or a pause that comes
\* between the check and the write (module Player) is taken as coming after it.
Write ==
  /\ main = "write"
  /\ \/ stop /\ main' = "loop" /\ UNCHANGED <<decoding, refresher, played>>
     \/ /\ ~stop /\ ~paused /\ decoding' = [decoding EXCEPT !.left = @ - 1]
        /\ IF decoding.left = 1 THEN main' = "loop" /\ Written ELSE UNCHANGED <<main, played>>
        /\ UNCHANGED refresher
     \/ "sink" \in Failing /\ ~stop /\ ~paused /\ Ends("failed") /\ UNCHANGED <<decoding, played>>
  /\ UNCHANGED <<kind, origin, next, known, cache, fetch, prefetches, flags>>
  /\ UNCHANGED <<start, skipped>>

\* cancel() aborts the task; it is dropped where it awaits.
Aborted ==
  /\ stop /\ (main \in {"manifest", "prefetch", "await"} \/ (main \in {"loop", "write"} /\ paused))
  /\ Ends("aborted")
  /\ UNCHANGED <<kind, origin, reading, known, cache, fetch, prefetches, flags, history>>

-----------------------------------------------------------------------------
(* The origin and the caller. *)

Publish ==
  /\ Live /\ origin.hi < MaxSeq
  /\ LET slides == ~IsDash /\ origin.hi + 2 > origin.lo + Window IN
     origin' = [lo |-> IF slides THEN origin.lo + 1 ELSE origin.lo, hi |-> origin.hi + 1]
  /\ UNCHANGED <<kind, player, tasks, flags, history>>

Cancel ==
  /\ ~stop /\ stop' = TRUE
  /\ UNCHANGED <<kind, origin, player, tasks, paused, history>>

Toggle ==
  /\ main \in {"loop", "await", "write"} /\ paused' = ~paused
  /\ UNCHANGED <<kind, origin, player, tasks, stop, history>>

MainStep == Manifest \/ Play \/ Loop \/ Take \/ Decode \/ DecodeFails \/ Write \/ Aborted
FetchStep == Find \/ Get \/ Download
RefresherStep == RefresherStops \/ Refresh \/ RefreshFails \/ RefresherSleeps

Next == MainStep \/ FetchStep \/ RefresherStep \/ (\E p \in prefetches : Prefetch(p))
        \/ Publish \/ Cancel \/ Toggle

Spec == Init /\ [][Next]_vars

\* The runtime polls every task that can go on, and requests end.
FairSpec == Spec /\ WF_vars(MainStep) /\ WF_vars(FetchStep) /\ WF_vars(RefresherStep)
                 /\ WF_vars(\E p \in prefetches : Prefetch(p))

-----------------------------------------------------------------------------
(* Properties. *)

Segments == 1..(MaxSeq + 1)
Accounted == ToSet(played) \cup skipped
Ascending(q) == \A i, j \in DOMAIN q : i < j => q[i] < q[j]

TypeOK ==
  /\ kind \in Kinds
  /\ origin.lo \in 1..MaxSeq /\ origin.hi \in 0..MaxSeq
  /\ main \in Over \cup {"manifest", "prefetch", "loop", "await", "decode", "write"}
  /\ next \in Segments /\ decoding \in [seq : Segments, left : 0..Chunks]
  /\ known \in Seq(1..MaxSeq) /\ cache \in Seq(1..MaxSeq)
  /\ fetch \in [seq : Segments, st : {"none", "find", "get", "download", "bytes", "failed", "absent"}]
  /\ prefetches \subseteq (0..(MaxSeq + 1)) \X (1..MaxSeq)
  /\ refresher \in {"off", "sleep", "prefetch", "failed"}
  /\ stop \in BOOLEAN /\ paused \in BOOLEAN
  /\ start \in 1..MaxSeq /\ played \in Seq(1..MaxSeq) /\ skipped \subseteq 1..MaxSeq

\* Three kinds of task put into the cache, some of them late and twice: it holds
\* each segment once and never more than its cap.  Overlapping playlists are merged
\* without a repetition, in order, into the deque.
Bookkept ==
  /\ Len(cache) <= CacheCap /\ IsInjective(cache)
  /\ Ascending(known)

\* The loop has played the segments from the first to the one before next, in order
\* and once, but for those whose fetch or decoding failed ("skipping"); and a stream
\* that ends by itself has come to the end of its playlist.
PlayedInOrder ==
  /\ main \in {"loop", "await"} /\ ~stop =>
       Ascending(played) /\ ToSet(played) = (start..(next - 1)) \ skipped
  /\ kind = "vod" /\ main = "ended" /\ ~stop => Accounted = 1..MaxSeq

\* A recorded stream comes to its end unless it is paused again and again; and stop
\* ends the refresher, whether it finds the flag or is aborted.
Ending == /\ kind = "vod" => <>(main \in Over) \/ []<>paused
          /\ stop ~> refresher = "off"

\* A segment the loop waits for, or has ahead, that no refresh will bring.
Gap == known # <<>> /\ \E s \in next..Last(known) : s \notin KnownSegments

\* A live stream goes on: what is published while it plays is played or given up,
\* if the requests for the playlist do not fail again and again, unless an earlier
\* part was missed: then the fetch task waits for the missing segment for ever.  Of a
\* DASH stream without availabilityStartTime only the first segment is ever known.
FollowsOrigin ==
  kind = "undated" \/ []<>paused \/ []<>(refresher = "failed") \/ \A s \in 1..MaxSeq :
    (main = "await" /\ origin.hi = s) ~> (s \in Accounted \/ Gap \/ stop \/ main \in Over)
=============================================================================

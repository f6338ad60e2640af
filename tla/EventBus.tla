----------------------------- MODULE EventBus -----------------------------
(***************************************************************************)
(* The event bus (crates/events/src/lib.rs, a tokio broadcast channel) and *)
(* the subscriptions of EventsService (crates/server/src/events.rs).       *)
(*                                                                         *)
(* A kind such as "snap.client" is the sequence of its parts, a filter the *)
(* parts before an optional ".*".  The text prefix the code compares is    *)
(* taken at the borders of parts.  Events are numbered as published.       *)
(***************************************************************************)
EXTENDS Naturals, Sequences, FiniteSets, SequencesExt

CONSTANTS Kinds,        \* labels of events
          Filters,      \* the "kinds" of a SubscribeRequest: sets of [parts, wild]
          Subscribers,
          Capacity,     \* BUS_CAPACITY (512)
          MaxEvents     \* bound, kept by the composing module: events published

ASSUME BusAssumption == Capacity \in Nat \ {0} /\ MaxEvents \in Nat

VARIABLES
  published,   \* kinds of the events sent so far; the ring holds the last Capacity
  subscriber   \* of each: is it on, its filter, its cursor, history: what it got

busVars == <<published, subscriber>>

Off == [on |-> FALSE, filter |-> {}, from |-> 1, cursor |-> 1, got |-> <<>>]

BusInit == published = <<>> /\ subscriber = [s \in Subscribers |-> Off]

\* kinds_match: no filter at all matches everything.
KindsMatch(filter, kind) ==
  filter = {} \/ \E f \in filter : IF f.wild THEN IsPrefix(f.parts, kind) ELSE f.parts = kind

Oldest == IF Len(published) > Capacity THEN Len(published) - Capacity + 1 ELSE 1

\* publish never blocks; it overwrites the oldest event of a full ring.
Publish(kind) == published' = Append(published, kind) /\ UNCHANGED subscriber

\* A subscription sees what is published after it.
Subscribe(s) ==
  /\ ~subscriber[s].on
  /\ \E filter \in Filters :
       LET at == Len(published) + 1 IN
       subscriber' = [subscriber EXCEPT ![s] =
         [on |-> TRUE, filter |-> filter, from |-> at, cursor |-> at, got |-> <<>>]]
  /\ UNCHANGED published

Unsubscribe(s) ==
  /\ subscriber[s].on /\ subscriber' = [subscriber EXCEPT ![s] = Off] /\ UNCHANGED published

Move(s, cursor, item) == subscriber' = [subscriber EXCEPT ![s].cursor = cursor, ![s].got = @ \o item]

Event(n) == [event |-> n, dropped |-> 0]
Lagged(n) == [event |-> 0, dropped |-> n]
Matching(filter, n) == IF KindsMatch(filter, published[n]) THEN <<Event(n)>> ELSE <<>>

\* mutant
PollSilently(s) == LET me == subscriber[s] IN
  /\ me.on /\ me.cursor <= Len(published)
  /\ IF me.cursor < Oldest THEN Move(s, Oldest, <<>>)
     ELSE Move(s, me.cursor + 1, Matching(me.filter, me.cursor))
  /\ UNCHANGED published

\* mutant
PollSwapped(s) == LET me == subscriber[s] IN
  /\ me.on /\ me.cursor <= Len(published)
  /\ IF me.cursor < Oldest THEN Move(s, Oldest, <<Lagged(me.cursor - Oldest)>>)
     ELSE Move(s, me.cursor + 1, Matching(me.filter, me.cursor))
  /\ UNCHANGED published

\* The subscriber's stream is polled: an overtaken one learns how many events it
\* missed and goes on with the oldest, another gets the next event if it matches.
Poll(s) == LET me == subscriber[s] IN
  /\ me.on /\ me.cursor <= Len(published)
  /\ IF me.cursor < Oldest THEN Move(s, Oldest, <<Lagged(Oldest - me.cursor)>>)
     ELSE Move(s, me.cursor + 1, Matching(me.filter, me.cursor))
  /\ UNCHANGED published

BusStep == \E s \in Subscribers : Subscribe(s) \/ Unsubscribe(s) \/ Poll(s)

-----------------------------------------------------------------------------
(* Properties. *)

Item == [event : 0..MaxEvents, dropped : 0..MaxEvents]

BusTypeOK ==
  /\ published \in Seq(Kinds)
  /\ \A s \in Subscribers :
       /\ subscriber[s].on \in BOOLEAN /\ subscriber[s].filter \in Filters \cup {{}}
       /\ subscriber[s].from \in 1..(MaxEvents + 1) /\ subscriber[s].cursor \in 1..(MaxEvents + 1)
       /\ subscriber[s].got \in Seq(Item)

\* The first n items got say that told[n] events were dropped.
Told(got, told) == told[0] = 0 /\ \A n \in DOMAIN got : told[n] = told[n - 1] + got[n].dropped

\* The events up to its cursor that a subscriber should have got and did not.
Missed(me) == {n \in me.from..(me.cursor - 1) :
  KindsMatch(me.filter, published[n]) /\ \A i \in DOMAIN me.got : me.got[i].event # n}

\* "a synthetic LaggedEvent rather than dropping the stream" (lib.rs:14-16): of
\* the events up to its cursor, a subscriber got each one that its filter lets
\* through, but for as many as its LaggedEvents say.
NoSilentLoss ==
  \A s \in Subscribers : LET me == subscriber[s] IN
    \E told \in [0..Len(me.got) -> 0..MaxEvents] :
      Told(me.got, told) /\ Cardinality(Missed(me)) <= told[Len(me.got)]
=============================================================================

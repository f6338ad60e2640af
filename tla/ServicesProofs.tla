--------------------------- MODULE ServicesProofs ---------------------------
(***************************************************************************)
(* Theorems about modules Snapcast, EventBus, Services and MCServices, for *)
(* any calls, subscribers, filters, capacity of the bus and bounds.  A     *)
(* request is in one place: the queue, the server's inbox, or what it has  *)
(* carried out (OnceInv); the ids of a connection are used once, so that a *)
(* pending id, a request and a reply that agree are of one call (LinkInv,  *)
(* MatchInv).  Each of the composed modules takes its own steps or none,   *)
(* so that what is proved of it alone holds of the composition.  The bus   *)
(* has room for the notifications under way (RoomInv), and what a          *)
(* subscriber missed is at most what it was told (TellInv).                *)
(***************************************************************************)
EXTENDS MCServices, AccessProofs

-----------------------------------------------------------------------------
(* The snapserver client by itself. *)

Elems(q) == {q[i] : i \in DOMAIN q}
Msg == [id : Nat, for : Calls \cup {"server"}, result : {"ok", "error", "note"}]
Once(q) == \A i, j \in DOMAIN q : i # j => q[i] # q[j]

\* What Append does to a queue.
LEMMA Appended ==
  ASSUME NEW S, NEW q \in Seq(S), NEW e \in S
  PROVE  /\ Append(q, e) \in Seq(S) /\ Elems(Append(q, e)) = Elems(q) \cup {e}
         /\ Once(q) /\ e \notin Elems(q) => Once(Append(q, e))
<1>1. /\ Append(q, e) \in Seq(S) /\ DOMAIN q = 1..Len(q) /\ DOMAIN Append(q, e) = 1..(Len(q) + 1)
      /\ \A i \in 1..(Len(q) + 1) : Append(q, e)[i] = IF i = Len(q) + 1 THEN e ELSE q[i]
      /\ Len(q) \in Nat
  OBVIOUS
<1>2. Elems(Append(q, e)) = Elems(q) \cup {e}
  BY <1>1 DEF Elems
<1>3. Once(q) /\ e \notin Elems(q) => Once(Append(q, e))
  BY <1>1 DEF Elems, Once
<1> QED
  BY <1>1, <1>2, <1>3

\* What is left when the head is taken.
LEMMA Taken ==
  ASSUME NEW S, NEW q \in Seq(S), q # <<>>
  PROVE  /\ Tail(q) \in Seq(S) /\ Head(q) \in S /\ Elems(q) = Elems(Tail(q)) \cup {Head(q)}
         /\ Once(q) => Once(Tail(q)) /\ Head(q) \notin Elems(Tail(q))
<1>1. /\ Tail(q) \in Seq(S) /\ Head(q) \in S /\ Head(q) = q[1] /\ Len(q) \in Nat \ {0}
      /\ DOMAIN q = 1..Len(q) /\ DOMAIN Tail(q) = 1..(Len(q) - 1)
      /\ \A i \in 1..(Len(q) - 1) : Tail(q)[i] = q[i + 1]
  OBVIOUS
<1>2. ASSUME NEW i \in 1..Len(q) PROVE q[i] \in Elems(Tail(q)) \cup {Head(q)}
  <2>1. CASE i = 1
    BY <1>1, <2>1
  <2>2. CASE i # 1
    <3>1. i - 1 \in 1..(Len(q) - 1) /\ Tail(q)[i - 1] = q[i]
      BY <1>1, <2>2
    <3> QED
      BY <1>1, <3>1 DEF Elems
  <2> QED
    BY <2>1, <2>2
<1>3. Elems(Tail(q)) \cup {Head(q)} \subseteq Elems(q)
  BY <1>1 DEF Elems
<1>4. Elems(q) = Elems(Tail(q)) \cup {Head(q)}
  BY <1>1, <1>2, <1>3 DEF Elems
<1>5. Once(q) => Once(Tail(q)) /\ Head(q) \notin Elems(Tail(q))
  BY <1>1 DEF Elems, Once
<1> QED
  BY <1>1, <1>4, <1>5

-----------------------------------------------------------------------------
(* The inductive invariant. *)

LinkInv ==
  /\ IF sup = "up" THEN conn # 0 ELSE pending = {}
  /\ \A p \in pending : p[1] < nextId
  /\ \A r \in requests : r[1] <= conn /\ (r[1] = conn => r[2] < nextId)
  /\ \A x \in Elems(replies) : x.result # "note" => x.id < nextId

MatchInv == \A p \in pending :
  /\ \A r \in requests : r[1] = conn /\ r[2] = p[1] => r[3] = p[2]
  /\ \A x \in Elems(replies) : x.result # "note" /\ x.id = p[1] => x.for = p[2]

\* What is said to have succeeded was carried out.
OkInv ==
  /\ \A x \in Elems(replies) : x.result = "ok" => x.for \in Elems(handled)
  /\ \A c \in Calls : call[c] = "ok" => c \in Elems(handled)

OnceInv ==
  /\ Once(cmds) /\ Once(handled)
  /\ \A r, s \in requests : r[3] = s[3] => r = s
  /\ \A r \in requests : r[3] \notin Elems(cmds) \cup Elems(handled)
  /\ Elems(cmds) \cap Elems(handled) = {}
  /\ \A c \in Calls : call[c] = "idle" =>
       /\ c \notin Elems(cmds) \cup Elems(handled)
       /\ \A r \in requests : r[3] # c

Kept == \A c \in Calls : call[c] = "waiting" => c \in InFlight \/ c \in Elems(cmds)

IInv == SnapTypeOK /\ LinkInv /\ MatchInv /\ OkInv /\ OnceInv /\ Kept

\* The initial state satisfies the inductive invariant.
LEMMA InvInit == SnapInit => IInv
<1> SUFFICES ASSUME SnapInit PROVE IInv
  OBVIOUS
<1>1. Elems(<<>>) = {} /\ Once(<<>>)
  BY DEF Elems, Once
<1>2. SnapTypeOK
  BY BoundsAssumption DEF SnapInit, SnapTypeOK
<1> QED
  BY <1>1, <1>2 DEF SnapInit, IInv, LinkInv, MatchInv, OkInv, OnceInv, Kept

\* Answering calls leaves each call with an outcome, and disturbs no other.
LEMMA Outcomes ==
  ASSUME SnapTypeOK, NEW calls, NEW outcome \in {"ok", "error"}, Answer(calls, outcome)
  PROVE  /\ call' \in [Calls -> {"idle", "waiting", "ok", "error", "gone"}]
         /\ \A c \in Calls : /\ call'[c] = "idle" <=> call[c] = "idle"
                             /\ call'[c] = "waiting" => call[c] = "waiting" /\ c \notin calls
                             /\ call'[c] = "ok" => call[c] = "ok" \/ (c \in calls /\ outcome = "ok")
  BY DEF SnapTypeOK, Answer

\* A caller calls, or goes away.
LEMMA CallerSteps ==
  ASSUME IInv, NEW c \in Calls, CallRaw(c) \/ CallerGone(c)
  PROVE  IInv'
<1> USE DEF IInv
<1>1. CASE CallRaw(c)
  <2>1. /\ cmds' = Append(cmds, c) /\ cmds \in Seq(Calls) /\ call[c] = "idle"
        /\ call' = [call EXCEPT ![c] = "waiting"]
        /\ call \in [Calls -> {"idle", "waiting", "ok", "error", "gone"}]
        /\ UNCHANGED <<sup, conn, link, notes, handled>>
    BY <1>1 DEF CallRaw, SnapTypeOK
  <2>2. cmds' \in Seq(Calls) /\ Elems(cmds') = Elems(cmds) \cup {c} /\ (c \notin Elems(cmds) => Once(cmds'))
    BY <2>1, Appended, ZenonT(30) DEF OnceInv
  <2>3. SnapTypeOK'
    BY <2>1, <2>2 DEF SnapTypeOK, link
  <2>4. LinkInv' /\ MatchInv'
    BY <2>1 DEF LinkInv, MatchInv, link
  <2>5. OkInv'
    BY <2>1 DEF OkInv, link
  <2>6. OnceInv'
    BY <2>1, <2>2 DEF OnceInv, link
  <2>7. Kept'
    BY <2>1, <2>2 DEF Kept, InFlight, link
  <2> QED
    BY <2>3, <2>4, <2>5, <2>6, <2>7
<1>2. CASE CallerGone(c)
  <2>1. /\ call[c] = "waiting" /\ call' = [call EXCEPT ![c] = "gone"]
        /\ call \in [Calls -> {"idle", "waiting", "ok", "error", "gone"}]
        /\ UNCHANGED <<sup, conn, cmds, link, notes, handled>>
    BY <1>2 DEF CallerGone, SnapTypeOK
  <2>2. SnapTypeOK'
    BY <2>1 DEF SnapTypeOK, link
  <2>3. LinkInv' /\ MatchInv'
    BY <2>1 DEF LinkInv, MatchInv, link
  <2>4. OkInv' /\ OnceInv'
    BY <2>1 DEF OkInv, OnceInv, link
  <2>5. Kept'
    BY <2>1 DEF Kept, InFlight, link
  <2> QED
    BY <2>2, <2>3, <2>4, <2>5
<1> QED
  BY <1>1, <1>2

\* A connection is made or not, waited for, or given up.
LEMMA LinkSteps ==
  ASSUME IInv, Connect \/ BackoffOver \/ Drop
  PROVE  IInv'
<1> USE DEF IInv
<1>0. Elems(<<>>) = {}
  BY DEF Elems
<1>1. CASE Connect
  <2>1. /\ pending = {} /\ UNCHANGED <<cmds, call, requests, notes, handled>>
        /\ \/ /\ conn < MaxConns /\ sup' = "up" /\ conn' = conn + 1
              /\ nextId' = 1 /\ pending' = {} /\ replies' = <<>>
           \/ sup' = "backoff" /\ UNCHANGED <<conn, nextId, pending, replies>>
    BY <1>1 DEF Connect, LinkInv
  <2>2. conn \in 0..MaxConns /\ requests \subseteq (1..MaxConns) \X Nat \X Calls
    BY DEF SnapTypeOK
  <2>3. SnapTypeOK'
    <3>1. /\ sup' \in {"connecting", "up", "backoff"} /\ conn' \in 0..MaxConns
          /\ nextId' \in Nat /\ pending' \subseteq Nat \X Calls
      BY <2>1, BoundsAssumption DEF SnapTypeOK
    <3>2. replies' \in Seq(Msg)
      <4>1. CASE replies' = <<>>
        BY <4>1
      <4>2. CASE replies' = replies
        BY <4>2 DEF SnapTypeOK, Msg
      <4> QED
        BY <2>1, <4>1, <4>2
    <3> QED
      BY <2>1, <3>1, <3>2 DEF SnapTypeOK, Msg
  <2>4. LinkInv' /\ MatchInv'
    BY <2>1, <2>2, <1>0, BoundsAssumption DEF LinkInv, MatchInv
  <2>5. OkInv' /\ OnceInv'
    BY <2>1, <1>0 DEF OkInv, OnceInv
  <2>6. Kept'
    BY <2>1 DEF Kept, InFlight
  <2> QED
    BY <2>3, <2>4, <2>5, <2>6
<1>2. CASE BackoffOver
  <2>1. sup' = "connecting" /\ sup = "backoff" /\ UNCHANGED <<conn, cmds, link, call, notes, handled>>
    BY <1>2 DEF BackoffOver
  <2>2. SnapTypeOK'
    BY <2>1 DEF SnapTypeOK, link
  <2>3. LinkInv' /\ MatchInv'
    BY <2>1 DEF LinkInv, MatchInv, link
  <2>4. OkInv' /\ OnceInv' /\ Kept'
    BY <2>1 DEF OkInv, OnceInv, Kept, InFlight, link
  <2> QED
    BY <2>2, <2>3, <2>4
<1>3. CASE Drop
  <2>1. /\ sup' = "backoff" /\ pending' = {} /\ replies' = <<>> /\ Answer(InFlight, "error")
        /\ UNCHANGED <<conn, cmds, nextId, requests, notes, handled>>
    BY <1>3 DEF Drop, Ended
  <2>2. /\ call' \in [Calls -> {"idle", "waiting", "ok", "error", "gone"}]
        /\ \A c \in Calls : /\ call'[c] = "idle" <=> call[c] = "idle"
                            /\ call'[c] = "waiting" => call[c] = "waiting" /\ c \notin InFlight
                            /\ call'[c] = "ok" => call[c] = "ok"
    BY <2>1, Outcomes
  <2>3. SnapTypeOK'
    BY <2>1, <2>2 DEF SnapTypeOK
  <2>4. LinkInv' /\ MatchInv'
    BY <2>1, <1>0 DEF LinkInv, MatchInv
  <2>5. OkInv' /\ OnceInv'
    BY <2>1, <2>2, <1>0 DEF OkInv, OnceInv
  <2>6. Kept'
    BY <2>1, <2>2 DEF Kept
  <2> QED
    BY <2>3, <2>4, <2>5, <2>6
<1> QED
  BY <1>1, <1>2, <1>3

\* A command is refused between two connections.
LEMMA RefuseStep == IInv /\ Refuse => IInv'
<1> SUFFICES ASSUME IInv, Refuse PROVE IInv'
  OBVIOUS
<1> USE DEF IInv
<1>1. /\ cmds # <<>> /\ cmds' = Tail(cmds) /\ Answer({Head(cmds)}, "error")
      /\ UNCHANGED <<sup, conn, link, notes, handled>> /\ cmds \in Seq(Calls)
  BY DEF Refuse, SnapTypeOK
<1>2. /\ call' \in [Calls -> {"idle", "waiting", "ok", "error", "gone"}]
      /\ \A c \in Calls : /\ call'[c] = "idle" <=> call[c] = "idle"
                          /\ call'[c] = "waiting" => call[c] = "waiting" /\ c # Head(cmds)
                          /\ call'[c] = "ok" => call[c] = "ok"
  BY <1>1, Outcomes
<1>3. /\ cmds' \in Seq(Calls) /\ Elems(cmds) = Elems(cmds') \cup {Head(cmds)}
      /\ Once(cmds) => Once(cmds')
  BY <1>1, Taken, Zenon
<1>4. SnapTypeOK'
  BY <1>1, <1>2, <1>3 DEF SnapTypeOK, link
<1>5. LinkInv' /\ MatchInv'
  BY <1>1 DEF LinkInv, MatchInv, link
<1>6. OkInv' /\ OnceInv'
  BY <1>1, <1>2, <1>3 DEF OkInv, OnceInv, link
<1>7. Kept'
  BY <1>1, <1>2, <1>3 DEF Kept, InFlight, link
<1> QED
  BY <1>4, <1>5, <1>6, <1>7

\* A command is written, or the write fails and the connection ends.
LEMMA WriteStep == IInv /\ Write => IInv'
<1> SUFFICES ASSUME IInv, Write PROVE IInv'
  OBVIOUS
<1> DEFINE r0 == <<conn, nextId, Head(cmds)>>
<1>1. /\ sup = "up" /\ cmds # <<>> /\ cmds' = Tail(cmds) /\ nextId' = nextId + 1
      /\ requests' \in {requests, requests \cup {r0}}
      /\ \/ /\ requests' # requests /\ pending' = pending \cup {<<nextId, Head(cmds)>>}
            /\ UNCHANGED <<sup, replies, call>>
         \/ /\ sup' = "backoff" /\ pending' = {} /\ replies' = <<>>
            /\ Answer(InFlight \cup {Head(cmds)}, "error")
      /\ UNCHANGED <<conn, notes, handled>>
  BY DEF Write, Ended
<1>2. /\ cmds' \in Seq(Calls) /\ Head(cmds) \in Calls /\ Elems(cmds) = Elems(cmds') \cup {Head(cmds)}
      /\ Once(cmds') /\ Head(cmds) \notin Elems(cmds')
  <2>1. cmds \in Seq(Calls) /\ Once(cmds)
    BY DEF IInv, SnapTypeOK, OnceInv
  <2> QED
    BY <1>1, <2>1, Taken, Zenon
<1>3. /\ conn \in 1..MaxConns /\ conn \in Nat /\ nextId \in Nat /\ pending \subseteq Nat \X Calls
      /\ requests \subseteq (1..MaxConns) \X Nat \X Calls
  BY <1>1, BoundsAssumption DEF IInv, SnapTypeOK, LinkInv
<1>4. SnapTypeOK /\ LinkInv /\ MatchInv /\ OkInv /\ OnceInv /\ Kept /\ Elems(<<>>) = {}
  BY DEF IInv, Elems
<1>5. requests' \subseteq (1..MaxConns) \X Nat \X Calls /\ nextId' \in Nat
  BY <1>1, <1>2, <1>3
<1>6. \A s \in requests' : s = r0 \/ s \in requests
  BY <1>1
<1>7. /\ r0[1] = conn /\ r0[2] = nextId /\ r0[3] = Head(cmds)
  OBVIOUS
<1>8. r0 \notin requests
  BY <1>3, <1>4, <1>7 DEF LinkInv
<1> HIDE DEF r0
<1>9. /\ \A r, s \in requests' : r[3] = s[3] => r = s
      /\ \A r \in requests' : r[3] \notin Elems(cmds') \cup Elems(handled')
  BY <1>1, <1>2, <1>4, <1>6, <1>7 DEF OnceInv
<1>10. Once(cmds') /\ Once(handled') /\ Elems(cmds') \cap Elems(handled') = {}
  BY <1>1, <1>2, <1>4 DEF OnceInv
<1>11. \A c \in Calls : call[c] = "idle" => /\ c \notin Elems(cmds') \cup Elems(handled')
                                             /\ \A r \in requests' : r[3] # c
  BY <1>1, <1>2, <1>4, <1>6, <1>7 DEF OnceInv
<1>12. \A r \in requests' : r[1] <= conn' /\ (r[1] = conn' => r[2] < nextId')
  BY <1>1, <1>3, <1>4, <1>6, <1>7 DEF LinkInv
<1>13. CASE /\ requests' # requests /\ pending' = pending \cup {<<nextId, Head(cmds)>>}
            /\ UNCHANGED <<sup, replies, call>>
  <2>1. SnapTypeOK'
    BY <1>1, <1>2, <1>3, <1>4, <1>5, <1>13 DEF SnapTypeOK
  <2>2. LinkInv'
    <3>1. \A p \in pending' : p[1] < nextId'
      BY <1>1, <1>3, <1>4, <1>13 DEF LinkInv
    <3>2. \A x \in Elems(replies') : x.result # "note" => x.id < nextId'
      <4>1. \A x \in Elems(replies) : x.id \in Nat
        <5>1. replies \in Seq(Msg)
          BY <1>4 DEF SnapTypeOK, Msg
        <5>2. \A i \in DOMAIN replies : replies[i] \in Msg
          BY <5>1
        <5>3. \A x \in Msg : x.id \in Nat
          BY DEF Msg
        <5> QED
          BY <5>2, <5>3 DEF Elems
      <4> QED
        BY <1>1, <1>3, <1>4, <1>13, <4>1 DEF LinkInv
    <3> QED
      BY <1>1, <1>3, <1>4, <1>12, <1>13, <3>1, <3>2 DEF LinkInv
  <2>3. MatchInv'
    <3> SUFFICES ASSUME NEW p \in pending'
                 PROVE  /\ \A r \in requests' : r[1] = conn' /\ r[2] = p[1] => r[3] = p[2]
                        /\ \A x \in Elems(replies') : x.result # "note" /\ x.id = p[1] => x.for = p[2]
      BY DEF MatchInv
    <3>1. CASE p \in pending
      BY <1>1, <1>3, <1>4, <1>6, <1>7, <1>13, <3>1 DEF MatchInv, LinkInv
    <3>2. CASE p = <<nextId, Head(cmds)>>
      BY <1>1, <1>3, <1>4, <1>6, <1>7, <1>13, <3>2 DEF LinkInv
    <3> QED
      BY <1>13, <3>1, <3>2
  <2>4. OkInv' /\ OnceInv'
    BY <1>1, <1>4, <1>9, <1>10, <1>11, <1>13 DEF OkInv, OnceInv
  <2>5. Kept'
    <3>1. InFlight \subseteq InFlight'
      BY <1>13 DEF InFlight
    <3>2. Head(cmds) \in InFlight'
      <4>1. <<nextId, Head(cmds)>> \in pending'
        BY <1>13
      <4> QED
        BY <4>1 DEF InFlight
    <3> QED
      BY <1>2, <1>4, <1>13, <3>1, <3>2 DEF Kept
  <2> QED
    BY <2>1, <2>2, <2>3, <2>4, <2>5 DEF IInv
<1>14. CASE /\ sup' = "backoff" /\ pending' = {} /\ replies' = <<>>
            /\ Answer(InFlight \cup {Head(cmds)}, "error")
  <2>1. /\ call' \in [Calls -> {"idle", "waiting", "ok", "error", "gone"}]
        /\ \A c \in Calls :
             /\ call'[c] = "idle" <=> call[c] = "idle"
             /\ call'[c] = "waiting" => call[c] = "waiting" /\ c \notin InFlight /\ c # Head(cmds)
             /\ call'[c] = "ok" => call[c] = "ok"
    BY <1>4, <1>14, Outcomes
  <2>2. SnapTypeOK'
    BY <1>1, <1>2, <1>3, <1>4, <1>5, <1>14, <2>1 DEF SnapTypeOK
  <2>3. LinkInv' /\ MatchInv'
    BY <1>4, <1>12, <1>14 DEF LinkInv, MatchInv
  <2>4. OkInv' /\ OnceInv'
    BY <1>1, <1>4, <1>9, <1>10, <1>11, <1>14, <2>1 DEF OkInv, OnceInv
  <2>5. Kept'
    <3>1. \A c \in Calls : call[c] = "waiting" => c \in InFlight \/ c \in Elems(cmds') \/ c = Head(cmds)
      BY <1>2, <1>4 DEF Kept
    <3>2. \A c \in Calls : call'[c] = "waiting" => c \in Elems(cmds')
      BY <2>1, <3>1
    <3> QED
      BY <3>2 DEF Kept
  <2> QED
    BY <2>2, <2>3, <2>4, <2>5 DEF IInv
<1> QED
  BY <1>1, <1>13, <1>14

\* A message of the server is taken: a reply answers the call of its id.
LEMMA ReceiveSteps ==
  ASSUME IInv, ReceiveReply \/ ReceiveNote
  PROVE  IInv'
<1> DEFINE mine == {p \in pending : p[1] = Head(replies).id}
<1>1. /\ SnapTypeOK /\ LinkInv /\ MatchInv /\ OkInv /\ OnceInv /\ Kept
  BY DEF IInv
<1>2. /\ replies # <<>> /\ replies' = Tail(replies) /\ sup = "up"
      /\ UNCHANGED <<sup, conn, cmds, nextId, requests, notes, handled>>
  BY DEF ReceiveReply, ReceiveNote
<1>3. /\ replies' \in Seq(Msg) /\ Head(replies) \in Msg
      /\ Elems(replies) = Elems(replies') \cup {Head(replies)}
  <2>1. replies \in Seq(Msg)
    BY <1>1 DEF SnapTypeOK, Msg
  <2> QED
    BY <1>2, <2>1, Taken, Zenon
<1>4. CASE ReceiveNote
  <2>1. UNCHANGED <<pending, call>>
    BY <1>4 DEF ReceiveNote
  <2>2. SnapTypeOK'
    BY <1>1, <1>2, <1>3, <2>1 DEF SnapTypeOK
  <2>3. LinkInv' /\ MatchInv'
    BY <1>1, <1>2, <1>3, <2>1 DEF LinkInv, MatchInv
  <2>4. OkInv' /\ OnceInv' /\ Kept'
    BY <1>1, <1>2, <1>3, <2>1 DEF OkInv, OnceInv, Kept, InFlight
  <2> QED
    BY <2>2, <2>3, <2>4 DEF IInv
<1>5. CASE ReceiveReply
  <2>1. /\ Head(replies).result \in {"ok", "error"} /\ pending' = pending \ mine
        /\ Answer({p[2] : p \in mine}, Head(replies).result)
    BY <1>3, <1>5 DEF ReceiveReply, Msg
  <2>2. /\ call' \in [Calls -> {"idle", "waiting", "ok", "error", "gone"}]
        /\ \A c \in Calls :
             /\ call'[c] = "idle" <=> call[c] = "idle"
             /\ call'[c] = "waiting" => call[c] = "waiting" /\ c \notin {p[2] : p \in mine}
             /\ call'[c] = "ok" => \/ call[c] = "ok"
                                   \/ c \in {p[2] : p \in mine} /\ Head(replies).result = "ok"
    BY <1>1, <2>1, Outcomes
  <2>3. Head(replies).result = "ok" => \A p \in mine : p[2] \in Elems(handled)
    <3>1. Head(replies) \in Elems(replies)
      BY <1>3
    <3>2. \A p \in mine : Head(replies).for = p[2]
      BY <1>1, <2>1, <3>1 DEF MatchInv
    <3> QED
      BY <1>1, <3>1, <3>2 DEF OkInv
  <2>4. SnapTypeOK'
    BY <1>1, <1>2, <1>3, <2>1, <2>2 DEF SnapTypeOK
  <2>5. LinkInv' /\ MatchInv'
    BY <1>1, <1>2, <1>3, <2>1 DEF LinkInv, MatchInv
  <2>6. OkInv' /\ OnceInv'
    BY <1>1, <1>2, <1>3, <2>2, <2>3 DEF OkInv, OnceInv
  <2>7. Kept'
    <3> SUFFICES ASSUME NEW c \in Calls, call'[c] = "waiting"
                 PROVE  c \in InFlight' \/ c \in Elems(cmds')
      BY DEF Kept
    <3>1. call[c] = "waiting" /\ c \notin {p[2] : p \in mine}
      BY <2>2
    <3>2. CASE c \in Elems(cmds)
      BY <1>2, <3>2
    <3>3. CASE c \in InFlight
      <4>1. PICK p \in pending : p[2] = c
        BY <3>3 DEF InFlight
      <4>2. p \in pending'
        BY <2>1, <3>1, <4>1
      <4> QED
        BY <4>1, <4>2 DEF InFlight
    <3> QED
      BY <1>1, <3>1, <3>2, <3>3 DEF Kept
  <2> QED
    BY <2>4, <2>5, <2>6, <2>7 DEF IInv
<1> QED
  BY <1>4, <1>5

\* The server carries a request out, or not, and replies on the connection it is of.
LEMMA ServeStep ==
  ASSUME IInv, NEW r \in requests, Serve(r)
  PROVE  IInv'
<1>1. /\ SnapTypeOK /\ LinkInv /\ MatchInv /\ OkInv /\ OnceInv /\ Kept
  BY DEF IInv
<1>2. PICK result \in {"ok", "error"} :
        /\ handled' = IF result = "ok" THEN Append(handled, r[3]) ELSE handled
        /\ replies' = IF sup = "up" /\ r[1] = conn THEN Append(replies, Reply(r[2], r[3], result)) ELSE replies
  BY DEF Serve
<1>3. /\ requests' = requests \ {r}
      /\ UNCHANGED <<sup, conn, cmds, nextId, pending, call, notes>>
  BY DEF Serve
<1>4. /\ r[2] \in Nat /\ r[3] \in Calls /\ handled \in Seq(Calls) /\ replies \in Seq(Msg)
      /\ r[3] \notin Elems(cmds) \cup Elems(handled) /\ Once(handled) /\ call[r[3]] # "idle"
  BY <1>1 DEF SnapTypeOK, OnceInv, Msg
<1> DEFINE x0 == Reply(r[2], r[3], result)
<1>5. /\ x0 \in Msg /\ x0.id = r[2] /\ x0.for = r[3] /\ x0.result = result
  BY <1>4 DEF Reply, Msg
<1> HIDE DEF x0
<1>6. /\ handled' \in Seq(Calls) /\ Once(handled') /\ Elems(handled) \subseteq Elems(handled')
      /\ Elems(handled') \subseteq Elems(handled) \cup {r[3]} /\ (result = "ok" => r[3] \in Elems(handled'))
  <2>1. CASE result = "ok"
    <3>1. handled' = Append(handled, r[3])
      BY <1>2, <2>1
    <3>2. handled \in Seq(Calls) /\ r[3] \in Calls /\ r[3] \notin Elems(handled) /\ Once(handled)
      BY <1>4
    <3>3. /\ handled' \in Seq(Calls) /\ Elems(handled') = Elems(handled) \cup {r[3]}
          /\ Once(handled) /\ r[3] \notin Elems(handled) => Once(handled')
      BY <3>1, <3>2, Appended, ZenonT(90)
    <3> QED
      BY <3>2, <3>3
  <2>2. CASE result # "ok"
    <3>1. handled' = handled
      BY <1>2, <2>2
    <3> QED
      BY <1>4, <2>2, <3>1, Zenon
  <2> QED
    BY <2>1, <2>2
<1>7. /\ replies' \in Seq(Msg) /\ Elems(replies') \subseteq Elems(replies) \cup {x0}
      /\ x0 \in Elems(replies') => x0 \in Elems(replies) \/ (sup = "up" /\ r[1] = conn)
  <2>1. CASE sup = "up" /\ r[1] = conn
    <3>1. replies' = Append(replies, x0)
      BY <1>2, <2>1 DEF x0
    <3>2. replies \in Seq(Msg) /\ x0 \in Msg
      BY <1>4, <1>5
    <3>3. replies' \in Seq(Msg) /\ Elems(replies') = Elems(replies) \cup {x0}
      BY <3>1, <3>2, Appended, ZenonT(30)
    <3> QED
      BY <2>1, <3>3
  <2>2. CASE ~(sup = "up" /\ r[1] = conn)
    <3>1. replies' = replies
      BY <1>2, <2>2
    <3> QED
      BY <1>4, <2>2, <3>1, Zenon
  <2> QED
    BY <2>1, <2>2
<1>8. SnapTypeOK'
  BY <1>1, <1>3, <1>6, <1>7 DEF SnapTypeOK, Msg
<1>9. LinkInv'
  BY <1>1, <1>3, <1>5, <1>7 DEF LinkInv
<1>10. MatchInv'
  BY <1>1, <1>3, <1>5, <1>7 DEF MatchInv
<1>11. OkInv'
  BY <1>1, <1>2, <1>3, <1>5, <1>6, <1>7 DEF OkInv
<1>12. OnceInv'
  BY <1>1, <1>3, <1>4, <1>6 DEF OnceInv
<1>13. Kept'
  BY <1>1, <1>3 DEF Kept, InFlight
<1> QED
  BY <1>8, <1>9, <1>10, <1>11, <1>12, <1>13 DEF IInv

\* The server sends a notification.
LEMMA NotifyStep == IInv /\ Notify => IInv'
<1> SUFFICES ASSUME IInv, Notify PROVE IInv'
  OBVIOUS
<1>1. /\ SnapTypeOK /\ LinkInv /\ MatchInv /\ OkInv /\ OnceInv /\ Kept
  BY DEF IInv
<1>2. /\ notes' \in 0..MaxNotes /\ replies' = Append(replies, Note)
      /\ UNCHANGED <<sup, conn, cmds, nextId, pending, requests, call, handled>>
  BY <1>1, BoundsAssumption DEF Notify, SnapTypeOK
<1>3. Note \in Msg /\ Note.result = "note" /\ replies \in Seq(Msg)
  BY <1>1 DEF SnapTypeOK, Note, Msg
<1>4. replies' \in Seq(Msg) /\ Elems(replies') = Elems(replies) \cup {Note}
  BY <1>2, <1>3, Appended, ZenonT(30)
<1>5. SnapTypeOK'
  BY <1>1, <1>2, <1>4 DEF SnapTypeOK, Msg
<1>6. LinkInv' /\ MatchInv' /\ OkInv'
  BY <1>1, <1>2, <1>3, <1>4 DEF LinkInv, MatchInv, OkInv
<1>7. OnceInv' /\ Kept'
  BY <1>1, <1>2 DEF OnceInv, Kept, InFlight
<1> QED
  BY <1>5, <1>6, <1>7 DEF IInv

-----------------------------------------------------------------------------
\* No step of a caller, of the supervisor or of the server disturbs the invariant.
LEMMA InvNext == IInv /\ [SnapStep \/ ReceiveNote]_snapVars => IInv'
<1> SUFFICES ASSUME IInv, [SnapStep \/ ReceiveNote]_snapVars PROVE IInv'
  OBVIOUS
<1>1. CASE UNCHANGED snapVars
  <2>1. UNCHANGED <<sup, conn, cmds, nextId, pending, requests, replies, call, notes, handled>>
    BY <1>1 DEF snapVars, link
  <2> QED
    BY <2>1 DEF IInv, SnapTypeOK, LinkInv, MatchInv, OkInv, OnceInv, Kept, InFlight
<1>2. CASE SnapStep \/ ReceiveNote
  BY <1>2, CallerSteps, LinkSteps, RefuseStep, WriteStep, ReceiveSteps, ServeStep, NotifyStep
     DEF SnapStep, Supervise, ServerStep
<1> QED
  BY <1>1, <1>2

\* The supervisor, its connection and the server stay in the states of the type
\* invariant, and where a request is, is always in agreement: the inductive invariant.
THEOREM Invariant == SnapSpec => []IInv
<1>1. SnapInit => IInv
  BY InvInit
<1>2. IInv /\ [SnapStep \/ ReceiveNote]_snapVars => IInv'
  BY InvNext
<1> QED
  BY <1>1, <1>2, PTL DEF SnapSpec

\* However connections come and go, no caller is forgotten: one that waits has its
\* command in the channel or in the table of pending ids (call_raw, run_connection).
THEOREM NoneForgotten == SnapSpec => []NoCallerForgotten
<1>1. IInv => NoCallerForgotten
  BY DEF IInv, Kept, NoCallerForgotten, Elems
<1> QED
  BY <1>1, Invariant, PTL

\* What a caller is told has succeeded was carried out, and nothing is carried out
\* twice, for any calls and any number of reconnects (handle_inbound, disconnect).
THEOREM ReplyIsOfCall == SnapSpec => []OkIsHandledOnce
<1>1. IInv => OkIsHandledOnce
  BY DEF IInv, OkInv, OnceInv, Once, OkIsHandledOnce, Elems
<1> QED
  BY <1>1, Invariant, PTL

-----------------------------------------------------------------------------
(* The client, the bus and the machines together. *)

Subscription == [on : BOOLEAN, filter : Filters \cup {{}}, from : Nat, cursor : Nat, got : Seq(Item)]

\* Where the notifications are among the messages to the client.
NotesIn(q) == {i \in DOMAIN q : q[i] = Note}

\* The events published are those of others and those of notifications that
\* have arrived; the ones under way were counted when they were sent.
RoomInv == \E forwarded \in Nat :
  /\ forwarded + Cardinality(NotesIn(replies)) <= notes
  /\ Len(published) <= (MaxEvents - MaxNotes) + forwarded

BusShape == published \in Seq(Kinds) /\ subscriber \in [Subscribers -> Subscription]

\* A subscriber is behind the last event by what it has yet to poll, and was told
\* of as many events as it missed, and of no more than there were.
Informed(me) ==
  /\ 1 <= me.from /\ me.from <= me.cursor /\ me.cursor <= Len(published) + 1
  /\ \E told \in [0..Len(me.got) -> 0..MaxEvents] :
       /\ Told(me.got, told)
       /\ Cardinality(Missed(me)) <= told[Len(me.got)] /\ told[Len(me.got)] <= me.cursor - me.from

TellInv == \A s \in Subscribers : Informed(subscriber[s])

ServicesInv == IInv /\ RoomInv /\ BusShape /\ TellInv

-----------------------------------------------------------------------------
(* Notifications under way. *)

\* The notifications in a queue are finitely many.
LEMMA NotesFinite ==
  ASSUME NEW q \in Seq(Msg)
  PROVE  IsFiniteSet(NotesIn(q)) /\ Cardinality(NotesIn(q)) \in Nat
<1>1. NotesIn(q) \in SUBSET (1..Len(q)) /\ Len(q) \in Nat
  BY DEF NotesIn
<1>2. IsFiniteSet(1..Len(q))
  BY <1>1, FS_Interval
<1>3. IsFiniteSet(NotesIn(q))
  BY <1>1, <1>2, FS_Subset
<1> QED
  BY <1>3, FS_CardinalityType

\* No message, no notification.
LEMMA NotesNone == NotesIn(<<>>) = {} /\ Cardinality(NotesIn(<<>>)) = 0
<1>1. NotesIn(<<>>) = {}
  BY DEF NotesIn
<1> QED
  BY <1>1, FS_EmptySet

\* A message is sent.
LEMMA NotesAppended ==
  ASSUME NEW q \in Seq(Msg), NEW x \in Msg
  PROVE  Cardinality(NotesIn(Append(q, x))) = Cardinality(NotesIn(q)) + IF x = Note THEN 1 ELSE 0
<1>1. /\ DOMAIN q = 1..Len(q) /\ DOMAIN Append(q, x) = 1..(Len(q) + 1) /\ Len(q) \in Nat
      /\ \A i \in 1..(Len(q) + 1) : Append(q, x)[i] = IF i = Len(q) + 1 THEN x ELSE q[i]
  OBVIOUS
<1>2. CASE x = Note
  <2>1. NotesIn(Append(q, x)) = NotesIn(q) \cup {Len(q) + 1}
    BY <1>1, <1>2 DEF NotesIn
  <2>2. Len(q) + 1 \notin NotesIn(q)
    BY <1>1 DEF NotesIn
  <2> QED
    BY <1>2, <2>1, <2>2, NotesFinite, FS_AddElement
<1>3. CASE x # Note
  <2>1. NotesIn(Append(q, x)) = NotesIn(q)
    BY <1>1, <1>3 DEF NotesIn
  <2> QED
    BY <1>3, <2>1, NotesFinite
<1> QED
  BY <1>2, <1>3

\* A message has arrived.
LEMMA NotesTaken ==
  ASSUME NEW q \in Seq(Msg), q # <<>>
  PROVE  Cardinality(NotesIn(Tail(q))) <= Cardinality(NotesIn(q)) - IF Head(q) = Note THEN 1 ELSE 0
<1> DEFINE T == NotesIn(Tail(q))
           S == NotesIn(q) \ {1}
           f == [i \in T |-> i + 1]
<1>1. /\ DOMAIN q = 1..Len(q) /\ DOMAIN Tail(q) = 1..(Len(q) - 1) /\ Len(q) \in Nat \ {0} /\ Head(q) = q[1]
      /\ \A i \in 1..(Len(q) - 1) : Tail(q)[i] = q[i + 1]
  OBVIOUS
<1>2. f \in Injection(T, S)
  <2>1. ASSUME NEW i \in T PROVE f[i] \in S /\ i \in Nat
    BY <1>1 DEF NotesIn
  <2>2. f \in [T -> S]
    BY <2>1
  <2>3. \A a, b \in T : f[a] = f[b] => a = b
    BY <2>1
  <2> QED
    BY <2>2, <2>3 DEF Injection, IsInjective
<1>3. /\ IsFiniteSet(S) /\ Cardinality(NotesIn(q)) \in Nat
      /\ Cardinality(S) = IF 1 \in NotesIn(q) THEN Cardinality(NotesIn(q)) - 1 ELSE Cardinality(NotesIn(q))
  BY NotesFinite, FS_RemoveElement
<1>4. Cardinality(T) <= Cardinality(S)
  <2> HIDE DEF T, S, f
  <2> QED
    BY <1>2, <1>3, FS_Injection
<1>5. Head(q) = Note <=> 1 \in NotesIn(q)
  BY <1>1 DEF NotesIn
<1> QED
  BY <1>3, <1>4, <1>5

\* What the composition leaves of the bound is enough.
LEMMA Room == ServicesInv => Len(published) \in Nat /\ Len(published) <= MaxEvents
<1> SUFFICES ASSUME ServicesInv PROVE Len(published) \in Nat /\ Len(published) <= MaxEvents
  OBVIOUS
<1>1. replies \in Seq(Msg) /\ notes \in 0..MaxNotes
  BY DEF ServicesInv, IInv, SnapTypeOK, Msg
<1>2. Cardinality(NotesIn(replies)) \in Nat
  BY <1>1, NotesFinite
<1>3. Len(published) \in Nat
  BY DEF ServicesInv, BusShape
<1> QED
  BY <1>1, <1>2, <1>3, BoundsAssumption, BusAssumption, ServicesAssumption DEF ServicesInv, RoomInv

\* The client's and the server's steps leave room for the notifications they send.
LEMMA RoomSnap == ASSUME ServicesInv, SnapStep, UNCHANGED busVars PROVE RoomInv'
<1> DEFINE count == Cardinality(NotesIn(replies))
<1>1. replies \in Seq(Msg) /\ notes \in Nat
  BY DEF ServicesInv, IInv, SnapTypeOK, Msg
<1>2. PICK forwarded \in Nat : /\ forwarded + count <= notes
                               /\ Len(published) <= (MaxEvents - MaxNotes) + forwarded
  BY DEF ServicesInv, RoomInv
<1>3. count \in Nat /\ count' \in Nat
  <2>1. replies' \in Seq(Msg)
    BY InvNext DEF ServicesInv, IInv, SnapTypeOK, Msg
  <2> QED
    BY <1>1, <2>1, NotesFinite
<1>4. count' - count <= notes' - notes /\ notes' \in Nat
  <2>1. CASE replies' = <<>> /\ notes' = notes
    BY <1>1, <1>3, <2>1, NotesNone
  <2>2. CASE replies' = replies /\ notes' = notes
    BY <1>1, <1>3, <2>2
  <2>3. CASE ReceiveReply
    <3>1. replies # <<>> /\ replies' = Tail(replies) /\ notes' = notes
      BY <2>3 DEF ReceiveReply
    <3>2. count' <= count
      BY <1>1, <1>3, <3>1, NotesTaken
    <3> QED
      BY <1>1, <1>3, <3>1, <3>2
  <2>4. ASSUME NEW r \in requests, Serve(r) PROVE count' - count <= notes' - notes /\ notes' \in Nat
    <3>1. PICK result \in {"ok", "error"} :
            replies' = IF sup = "up" /\ r[1] = conn THEN Append(replies, Reply(r[2], r[3], result)) ELSE replies
      BY <2>4 DEF Serve
    <3>2. notes' = notes
      BY <2>4 DEF Serve
    <3>3. Reply(r[2], r[3], result) \in Msg
      <4>1. r \in (1..MaxConns) \X Nat \X Calls
        BY DEF ServicesInv, IInv, SnapTypeOK
      <4>2. r[2] \in Nat /\ r[3] \in Calls
        BY <4>1
      <4> QED
        BY <4>2 DEF Reply, Msg
    <3>4. Reply(r[2], r[3], result) # Note
      BY DEF Reply, Note
    <3> QED
      BY <1>1, <1>3, <3>1, <3>2, <3>3, <3>4, NotesAppended
  <2>5. CASE Notify
    <3>1. replies' = Append(replies, Note) /\ notes' = notes + 1
      BY <2>5 DEF Notify
    <3>2. Note \in Msg
      BY DEF Note, Msg
    <3> QED
      BY <1>1, <1>3, <3>1, <3>2, NotesAppended
  <2>6. ASSUME NEW c \in Calls, CallRaw(c) \/ CallerGone(c) PROVE replies' = replies /\ notes' = notes
    BY <2>6 DEF CallRaw, CallerGone, link
  <2>7. ASSUME Connect \/ Refuse \/ BackoffOver \/ Write \/ Drop
        PROVE  (replies' = replies \/ replies' = <<>>) /\ notes' = notes
    BY <2>7 DEF Connect, Refuse, BackoffOver, Write, Drop, Ended, link
  <2> QED
    BY <2>1, <2>2, <2>3, <2>4, <2>5, <2>6, <2>7 DEF SnapStep, Supervise, ServerStep
<1>5. forwarded + count' <= notes'
  <2>1. \A a, b, c, d, f \in Nat : f + a <= c /\ b - a <= d - c => f + b <= d
    OBVIOUS
  <2> HIDE DEF count
  <2> QED
    BY <1>1, <1>2, <1>3, <1>4, <2>1
<1>6. Len(published') <= (MaxEvents - MaxNotes) + forwarded
  BY <1>2 DEF busVars
<1> QED
  BY <1>5, <1>6 DEF RoomInv

\* A notification arrives and is published, or not.
LEMMA RoomForward == ASSUME ServicesInv, ForwardNote PROVE RoomInv'
<1>1. replies \in Seq(Msg) /\ notes \in Nat /\ published \in Seq(Kinds) /\ Len(published) \in Nat
  BY DEF ServicesInv, IInv, SnapTypeOK, Msg, BusShape
<1>2. PICK forwarded \in Nat : /\ forwarded + Cardinality(NotesIn(replies)) <= notes
                               /\ Len(published) <= (MaxEvents - MaxNotes) + forwarded
  BY DEF ServicesInv, RoomInv
<1>3. replies # <<>> /\ replies' = Tail(replies) /\ Head(replies) = Note /\ notes' = notes
  BY DEF ForwardNote, ReceiveNote
<1>4. Cardinality(NotesIn(replies')) <= Cardinality(NotesIn(replies)) - 1
  BY <1>1, <1>3, NotesTaken
<1>5. Cardinality(NotesIn(replies)) \in Nat /\ Cardinality(NotesIn(replies')) \in Nat
  <2>1. replies' \in Seq(Msg)
    BY <1>1, <1>3
  <2> QED
    BY <1>1, <2>1, NotesFinite
<1>6. Len(published') <= Len(published) + 1
  BY <1>1 DEF ForwardNote, Publish, busVars
<1>7. Len(published') \in Nat
  BY <1>1 DEF ForwardNote, Publish, busVars
<1>8. /\ (forwarded + 1) + Cardinality(NotesIn(replies')) <= notes'
      /\ Len(published') <= (MaxEvents - MaxNotes) + (forwarded + 1)
  <2> DEFINE old == Cardinality(NotesIn(replies))
             new == Cardinality(NotesIn(replies'))
             more == Len(published')
             room == MaxEvents - MaxNotes
  <2>1. room \in Int
    BY BoundsAssumption, BusAssumption
  <2>2. old \in Nat /\ new \in Nat /\ more \in Nat /\ new <= old - 1 /\ more <= Len(published) + 1
    BY <1>4, <1>5, <1>6, <1>7
  <2>3. forwarded + old <= notes /\ Len(published) <= room + forwarded
    BY <1>2
  <2> HIDE DEF old, new, more, room
  <2>4. (forwarded + 1) + new <= notes
    BY <1>1, <2>2, <2>3
  <2>5. more <= room + (forwarded + 1)
    BY <1>1, <2>1, <2>2, <2>3
  <2> QED
    BY <1>3, <2>4, <2>5 DEF new, more, room
<1> QED
  BY <1>8 DEF RoomInv

\* The others publish only what is not kept for the notifications.
LEMMA RoomOther == ASSUME ServicesInv, PublishOther PROVE RoomInv'
<1>1. PICK forwarded \in Nat : /\ forwarded + Cardinality(NotesIn(replies)) <= notes
                               /\ Len(published) <= (MaxEvents - MaxNotes) + forwarded
  BY DEF ServicesInv, RoomInv
<1>2. published \in Seq(Kinds) /\ Len(published) \in Nat
  BY DEF ServicesInv, BusShape
<1>3. Len(published') = Len(published) + 1 /\ Len(published) < MaxEvents - MaxNotes
  BY <1>2 DEF PublishOther, Publish
<1>4. replies' = replies /\ notes' = notes
  BY DEF PublishOther, snapVars, link
<1>5. Len(published') <= (MaxEvents - MaxNotes) + forwarded
  BY <1>2, <1>3, BoundsAssumption, BusAssumption
<1> QED
  BY <1>1, <1>4, <1>5 DEF RoomInv

-----------------------------------------------------------------------------
(* What a subscriber was told. *)

\* A subscriber that begins, or is not there, has missed nothing.
LEMMA InformedFirst ==
  ASSUME BusShape, NEW me \in Subscription, me.got = <<>>, me.from = me.cursor,
         1 <= me.from, me.from <= Len(published) + 1
  PROVE  Informed(me)
<1> DEFINE told == [n \in 0..0 |-> 0]
<1>1. Len(me.got) = 0 /\ DOMAIN me.got = {}
  OBVIOUS
<1>2. told \in [0..Len(me.got) -> 0..MaxEvents] /\ told[Len(me.got)] = 0 /\ Told(me.got, told)
  BY <1>1, BusAssumption DEF Told
<1>3. me.from \in Nat
  BY DEF Subscription
<1>4. Missed(me) = {}
  BY <1>3 DEF Missed
<1>5. Cardinality(Missed(me)) = 0
  BY <1>4, FS_EmptySet
<1> QED
  BY <1>2, <1>3, <1>5 DEF Informed

\* An item more.
LEMMA Joined ==
  ASSUME NEW q \in Seq(Item), NEW x \in Item
  PROVE  /\ q \o <<x>> \in Seq(Item) /\ Len(q \o <<x>>) = Len(q) + 1 /\ Len(q) \in Nat
         /\ \A i \in 1..Len(q) : (q \o <<x>>)[i] = q[i]
         /\ (q \o <<x>>)[Len(q) + 1] = x
OBVIOUS

\* What it is told with an item more.
LEMMA ToldMore ==
  ASSUME NEW got \in Seq(Item), NEW told \in [0..Len(got) -> 0..MaxEvents], Told(got, told), NEW x \in Item,
         told[Len(got)] + x.dropped <= MaxEvents, NEW more, more = got \o <<x>>
  PROVE  \E t \in [0..Len(more) -> 0..MaxEvents] :
           Told(more, t) /\ t[Len(more)] = told[Len(got)] + x.dropped
<1> DEFINE len == Len(got)
           sum == told[len] + x.dropped
           t == [n \in 0..(len + 1) |-> IF n = len + 1 THEN sum ELSE told[n]]
<1>1. /\ len \in Nat /\ Len(more) = len + 1 /\ DOMAIN more = 1..(len + 1) /\ DOMAIN got = 1..len
      /\ \A i \in 1..len : more[i] = got[i]
      /\ more[len + 1] = x
  <2>1. more \in Seq(Item) /\ Len(more) = len + 1
    BY Joined
  <2> QED
    BY <2>1, Joined
<1>2. sum \in 0..MaxEvents
  <2>1. told[len] \in 0..MaxEvents /\ x.dropped \in 0..MaxEvents
    BY <1>1 DEF Item
  <2> QED
    BY <2>1, BusAssumption
<1> HIDE DEF sum, len
<1>3. told[0] = 0 /\ \A n \in 1..len : told[n] = told[n - 1] + got[n].dropped
  BY <1>1 DEF Told, len
<1>4. \A n \in 0..len : told[n] \in 0..MaxEvents
  BY DEF len
<1>5. t \in [0..(len + 1) -> 0..MaxEvents]
  BY <1>1, <1>2, <1>4
<1>6. t[len + 1] = sum /\ t[len] = told[len]
  BY <1>1
<1>7. t[0] = 0
  BY <1>1, <1>3
<1>8. ASSUME NEW n \in 1..len PROVE t[n] = t[n - 1] + more[n].dropped
  <2>1. t[n] = told[n] /\ t[n - 1] = told[n - 1]
    BY <1>1
  <2> QED
    BY <1>1, <1>3, <2>1
<1>9. t[len + 1] = t[(len + 1) - 1] + more[len + 1].dropped
  BY <1>1, <1>6 DEF sum
<1>10. Told(more, t)
  <2>1. ASSUME NEW n \in DOMAIN more PROVE t[n] = t[n - 1] + more[n].dropped
    <3>1. n \in 1..len \/ n = len + 1
      BY <1>1
    <3> HIDE DEF t
    <3> QED
      BY <1>8, <1>9, <3>1
  <2> QED
    BY <1>7, <2>1 DEF Told
<1>11. t \in [0..Len(more) -> 0..MaxEvents] /\ t[Len(more)] = sum
  BY <1>1, <1>5, <1>6
<1> HIDE DEF t
<1> QED
  BY <1>10, <1>11 DEF sum, len

\* The events that a subscriber missed are finitely many.
LEMMA MissedFinite ==
  ASSUME NEW me \in Subscription
  PROVE  IsFiniteSet(Missed(me)) /\ Cardinality(Missed(me)) \in Nat
<1>1. me.from \in Nat /\ me.cursor \in Nat
  BY DEF Subscription
<1>2. me.from \in Int /\ me.cursor - 1 \in Int /\ Missed(me) \in SUBSET (me.from..(me.cursor - 1))
  BY <1>1 DEF Missed
<1>3. IsFiniteSet(me.from..(me.cursor - 1))
  BY <1>2, FS_Interval
<1>4. IsFiniteSet(Missed(me))
  BY <1>2, <1>3, FS_Subset
<1> QED
  BY <1>4, FS_CardinalityType

\* A poll that finds the subscriber overtaken tells it by how much.
LEMMA InformedLate ==
  ASSUME NEW me \in Subscription, Informed(me), NEW at \in Nat, me.cursor < at, at <= Len(published),
         Len(published) \in Nat, Len(published) <= MaxEvents,
         NEW you \in Subscription, you.from = me.from, you.filter = me.filter, you.cursor = at,
         you.got = me.got \o <<Lagged(at - me.cursor)>>
  PROVE  Informed(you)
<1> DEFINE x == Lagged(at - me.cursor)
<1>1. me.from \in Nat /\ me.cursor \in Nat /\ me.got \in Seq(Item) /\ 1 <= me.from /\ me.from <= me.cursor
  BY DEF Subscription, Informed
<1>2. x \in Item /\ x.dropped = at - me.cursor
  BY <1>1, BusAssumption DEF Lagged, Item
<1>3. PICK told \in [0..Len(me.got) -> 0..MaxEvents] :
        /\ Told(me.got, told)
        /\ Cardinality(Missed(me)) <= told[Len(me.got)] /\ told[Len(me.got)] <= me.cursor - me.from
  BY DEF Informed
<1>4. told[Len(me.got)] \in Nat
  <2>1. Len(me.got) \in Nat
    BY <1>1
  <2>2. Len(me.got) \in 0..Len(me.got)
    BY <2>1
  <2>3. told[Len(me.got)] \in 0..MaxEvents
    BY <2>2
  <2> QED
    BY <2>3
<1>5. told[Len(me.got)] + x.dropped <= MaxEvents
  BY <1>1, <1>2, <1>3, <1>4, BusAssumption
<1>11. you.got = me.got \o <<x>>
  OBVIOUS
<1> HIDE DEF x
<1>6. PICK t \in [0..Len(you.got) -> 0..MaxEvents] :
        Told(you.got, t) /\ t[Len(you.got)] = told[Len(me.got)] + x.dropped
  BY <1>1, <1>2, <1>3, <1>5, <1>11, ToldMore
<1>7. Missed(you) \subseteq Missed(me) \cup (me.cursor..(at - 1))
  <2>1. SUFFICES ASSUME NEW n \in Missed(you), n \notin me.cursor..(at - 1) PROVE n \in Missed(me)
    OBVIOUS
  <2>2. n \in me.from..(me.cursor - 1) /\ KindsMatch(me.filter, published[n])
    BY <1>1, <2>1 DEF Missed
  <2>3. ASSUME NEW i \in DOMAIN me.got PROVE me.got[i].event # n
    <3>1. i \in DOMAIN you.got /\ you.got[i] = me.got[i]
      <4>1. i \in 1..Len(me.got) /\ Len(you.got) = Len(me.got) + 1 /\ Len(me.got) \in Nat /\ you.got \in Seq(Item)
        BY <1>1, <1>2, Joined DEF x
      <4> QED
        BY <1>1, <1>2, <4>1, Joined DEF x
    <3> QED
      BY <2>1, <3>1 DEF Missed
  <2> QED
    BY <2>2, <2>3 DEF Missed
<1>8. Cardinality(Missed(you)) <= Cardinality(Missed(me)) + (at - me.cursor)
  <2> DEFINE D == me.cursor..(at - 1)
             M == Missed(me)
  <2>1. IsFiniteSet(D) /\ Cardinality(D) = at - me.cursor
    <3>1. me.cursor \in Int /\ at - 1 \in Int /\ ~(me.cursor > at - 1) /\ (at - 1) - me.cursor + 1 = at - me.cursor
      BY <1>1
    <3> QED
      BY <3>1, FS_Interval
  <2>2. IsFiniteSet(M) /\ Cardinality(M) \in Nat /\ Cardinality(Missed(you)) \in Nat
    BY MissedFinite
  <2>3. Missed(you) \subseteq M \cup D
    BY <1>7
  <2> HIDE DEF D, M
  <2>4. IsFiniteSet(M \cup D) /\ Cardinality(M \cup D) = Cardinality(M) + Cardinality(D) - Cardinality(M \cap D)
    BY <2>1, <2>2, FS_Union
  <2>5. Cardinality(M \cap D) \in Nat
    <3>1. IsFiniteSet(M \cap D)
      BY <2>2, FS_Subset
    <3> QED
      BY <3>1, FS_CardinalityType
  <2>6. Cardinality(Missed(you)) <= Cardinality(M \cup D)
    BY <2>3, <2>4, FS_Subset
  <2>7. Cardinality(Missed(you)) <= Cardinality(M) + Cardinality(D)
    BY <1>1, <2>1, <2>2, <2>4, <2>5, <2>6
  <2> QED
    BY <2>1, <2>7 DEF M
<1>9. Cardinality(Missed(me)) \in Nat /\ Cardinality(Missed(you)) \in Nat
  BY MissedFinite
<1>10. /\ Cardinality(Missed(you)) <= t[Len(you.got)]
       /\ t[Len(you.got)] <= you.cursor - you.from
  <2> DEFINE was == told[Len(me.got)]
             is == t[Len(you.got)]
             old == Cardinality(Missed(me))
             new == Cardinality(Missed(you))
  <2>1. was \in Nat /\ old \in Nat /\ new \in Nat
    BY <1>4, <1>9
  <2>2. old <= was /\ was <= me.cursor - me.from /\ new <= old + (at - me.cursor)
    BY <1>3, <1>8
  <2>3. is = was + (at - me.cursor)
    BY <1>2, <1>6
  <2> HIDE DEF was, is, old, new
  <2>5. new <= was + (at - me.cursor)
    BY <1>1, <2>1, <2>2
  <2>6. was + (at - me.cursor) <= at - me.from
    BY <1>1, <2>1, <2>2, SMTT(20)
  <2>4. new <= is /\ is <= at - me.from
    BY <2>3, <2>5, <2>6
  <2> QED
    BY <2>4 DEF is, new
<1>12. 1 <= you.from /\ you.from <= you.cursor /\ you.cursor <= Len(published) + 1
  BY <1>1
<1> QED
  BY <1>6, <1>10, <1>12 DEF Informed

\* A poll that finds the next event passes it on if it matches.
LEMMA InformedNext ==
  ASSUME NEW me \in Subscription, Informed(me), me.cursor <= Len(published),
         Len(published) \in Nat, Len(published) <= MaxEvents,
         NEW you \in Subscription, you.from = me.from, you.filter = me.filter, you.cursor = me.cursor + 1,
         you.got = me.got \o Matching(me.filter, me.cursor)
  PROVE  Informed(you)
<1>1. me.from \in Nat /\ me.cursor \in Nat /\ me.got \in Seq(Item) /\ 1 <= me.from /\ me.from <= me.cursor
  BY DEF Subscription, Informed
<1>2. PICK told \in [0..Len(me.got) -> 0..MaxEvents] :
        /\ Told(me.got, told)
        /\ Cardinality(Missed(me)) <= told[Len(me.got)] /\ told[Len(me.got)] <= me.cursor - me.from
  BY DEF Informed
<1>3. told[Len(me.got)] \in 0..MaxEvents
  BY <1>1, SMTT(20)
<1>4. Cardinality(Missed(me)) \in Nat /\ Cardinality(Missed(you)) \in Nat /\ IsFiniteSet(Missed(me))
  BY MissedFinite
<1>5. ASSUME Missed(you) \subseteq Missed(me) PROVE Cardinality(Missed(you)) <= Cardinality(Missed(me))
  BY <1>4, <1>5, FS_Subset
<1>6. CASE KindsMatch(me.filter, published[me.cursor])
  <2> DEFINE x == Event(me.cursor)
  <2>1. x \in Item /\ x.dropped = 0 /\ x.event = me.cursor
    BY <1>1, BusAssumption DEF Event, Item
  <2>2. you.got = me.got \o <<x>>
    BY <1>6 DEF Matching
  <2> HIDE DEF x
  <2>7. told[Len(me.got)] + x.dropped <= MaxEvents
    BY <1>3, <2>1, BusAssumption
  <2>3. PICK t \in [0..Len(you.got) -> 0..MaxEvents] :
          Told(you.got, t) /\ t[Len(you.got)] = told[Len(me.got)] + x.dropped
    <3>1. me.got \in Seq(Item) /\ Told(me.got, told) /\ x \in Item
      BY <1>1, <1>2, <2>1
    <3> QED
      BY <2>2, <2>7, <3>1, ToldMore
  <2>4. /\ Len(you.got) = Len(me.got) + 1 /\ Len(me.got) \in Nat /\ you.got \in Seq(Item)
        /\ \A i \in 1..Len(me.got) : you.got[i] = me.got[i]
        /\ you.got[Len(me.got) + 1] = x
    BY <1>1, <2>1, <2>2, Joined
  <2>5. Missed(you) \subseteq Missed(me)
    <3>1. SUFFICES ASSUME NEW n \in Missed(you) PROVE n \in Missed(me)
      OBVIOUS
    <3>6. \A i \in DOMAIN you.got : you.got[i].event # n
      BY <3>1 DEF Missed
    <3>5. \A i \in 1..(Len(me.got) + 1) : you.got[i].event # n
      <4>1. DOMAIN you.got = 1..Len(you.got)
        <5>1. \A q \in Seq(Item) : DOMAIN q = 1..Len(q)
          OBVIOUS
        <5> QED
          BY <2>4, <5>1, Zenon
      <4>2. DOMAIN you.got = 1..(Len(me.got) + 1)
        BY <2>4, <4>1, Zenon
      <4> QED
        BY <3>6, <4>2, Zenon
    <3>2. n # me.cursor
      <4>1. Len(me.got) + 1 \in 1..(Len(me.got) + 1)
        <5>1. Len(me.got) \in Nat
          BY <1>1
        <5> QED
          BY <5>1
      <4>2. you.got[Len(me.got) + 1].event = me.cursor
        BY <2>1, <2>4, Zenon
      <4> QED
        BY <3>5, <4>1, <4>2, Zenon
    <3>3. n \in me.from..(me.cursor - 1) /\ KindsMatch(me.filter, published[n])
      BY <1>1, <3>1, <3>2 DEF Missed
    <3>4. ASSUME NEW i \in DOMAIN me.got PROVE me.got[i].event # n
      <4>1. i \in 1..Len(me.got)
        BY <1>1
      <4>2. you.got[i] = me.got[i]
        BY <2>4, <4>1, Zenon
      <4>3. i \in 1..(Len(me.got) + 1)
        <5>1. Len(me.got) \in Nat
          BY <1>1
        <5> QED
          BY <4>1, <5>1
      <4> QED
        BY <3>5, <4>2, <4>3, Zenon
    <3> QED
      BY <3>3, <3>4 DEF Missed
  <2>6. /\ Cardinality(Missed(you)) <= t[Len(you.got)]
        /\ t[Len(you.got)] <= you.cursor - you.from
    <3> DEFINE was == told[Len(me.got)]
               is == t[Len(you.got)]
               old == Cardinality(Missed(me))
               new == Cardinality(Missed(you))
    <3>1. was \in Nat /\ old \in Nat /\ new \in Nat /\ old <= was /\ was <= me.cursor - me.from
      BY <1>2, <1>3, <1>4
    <3>2. new <= old
      BY <1>5, <2>5
    <3>3. is = was + 0
      BY <2>1, <2>3
    <3> HIDE DEF was, is, old, new
    <3>4. new <= is /\ is <= (me.cursor + 1) - me.from
      BY <1>1, <3>1, <3>2, <3>3
    <3> QED
      BY <3>4 DEF is, new
  <2>8. 1 <= you.from /\ you.from <= you.cursor /\ you.cursor <= Len(published) + 1
    BY <1>1
  <2> QED
    BY <2>3, <2>6, <2>8 DEF Informed
<1>7. CASE ~KindsMatch(me.filter, published[me.cursor])
  <2>1. you.got = me.got
    BY <1>1, <1>7 DEF Matching
  <2>2. Missed(you) \subseteq Missed(me)
    <3>1. SUFFICES ASSUME NEW n \in Missed(you) PROVE n \in Missed(me)
      OBVIOUS
    <3>2. n # me.cursor
      BY <1>7, <3>1 DEF Missed
    <3>3. n \in me.from..(me.cursor - 1)
      BY <1>1, <3>1, <3>2 DEF Missed
    <3> QED
      BY <2>1, <3>1, <3>3 DEF Missed
  <2>3. /\ Cardinality(Missed(you)) <= told[Len(you.got)]
        /\ told[Len(you.got)] <= you.cursor - you.from
    BY <1>1, <1>2, <1>3, <1>4, <1>5, <2>1, <2>2
  <2>4. 1 <= you.from /\ you.from <= you.cursor /\ you.cursor <= Len(published) + 1
    BY <1>1
  <2> QED
    BY <1>2, <2>1, <2>3, <2>4 DEF Informed
<1> QED
  BY <1>6, <1>7

-----------------------------------------------------------------------------
(* The steps of the bus. *)

\* An event more is published.
LEMMA PublishStep ==
  ASSUME BusShape, TellInv, NEW kind \in Kinds, Publish(kind)
  PROVE  BusShape' /\ TellInv'
<1>1. /\ Len(published) \in Nat /\ published' \in Seq(Kinds) /\ Len(published') = Len(published) + 1
      /\ \A n \in 1..Len(published) : published'[n] = published[n]
  BY DEF BusShape, Publish
<1>2. UNCHANGED subscriber
  BY DEF Publish
<1>3. BusShape'
  BY <1>1, <1>2 DEF BusShape
<1>4. ASSUME NEW s \in Subscribers PROVE Informed(subscriber[s])'
  <2> DEFINE me == subscriber[s]
  <2>1. Informed(me) /\ me \in Subscription
    BY DEF TellInv, BusShape
  <2>2. me.from \in Nat /\ me.cursor \in Nat /\ 1 <= me.from /\ me.cursor <= Len(published) + 1
    BY <2>1 DEF Subscription, Informed
  <2> HIDE DEF me
  <2>3. \A n \in me.from..(me.cursor - 1) : published'[n] = published[n]
    BY <1>1, <2>2
  <2>4. Missed(subscriber[s])' = {n \in me.from..(me.cursor - 1) :
          KindsMatch(me.filter, published'[n]) /\ \A i \in DOMAIN me.got : me.got[i].event # n}
    BY <1>2 DEF Missed, KindsMatch, me
  <2>5. Missed(subscriber[s])' = Missed(me)
    BY <2>3, <2>4 DEF Missed
  <2>6. subscriber'[s] = me
    BY <1>2 DEF me
  <2>7. me.cursor <= Len(published') + 1
    BY <1>1, <2>2
  <2> QED
    BY <2>1, <2>5, <2>6, <2>7 DEF Informed
<1> QED
  BY <1>3, <1>4 DEF TellInv

\* One subscriber's record changes.
LEMMA OneSubscriber ==
  ASSUME BusShape, TellInv, UNCHANGED published, NEW s \in Subscribers, NEW you \in Subscription,
         subscriber' = [subscriber EXCEPT ![s] = you], Informed(you)
  PROVE  BusShape' /\ TellInv'
<1>1. subscriber'[s] = you /\ \A u \in Subscribers \ {s} : subscriber'[u] = subscriber[u]
  BY DEF BusShape
<1>2. BusShape'
  BY DEF BusShape
<1>3. ASSUME NEW u \in Subscribers PROVE Informed(subscriber[u])'
  <2> DEFINE me == IF u = s THEN you ELSE subscriber[u]
  <2>1. subscriber'[u] = me /\ Informed(me)
    BY <1>1 DEF TellInv
  <2> HIDE DEF me
  <2>2. Missed(subscriber[u])' = Missed(me)
    BY <2>1 DEF Missed, KindsMatch
  <2> QED
    BY <2>1, <2>2 DEF Informed
<1> QED
  BY <1>2, <1>3 DEF TellInv

\* A subscriber comes, goes or polls.
LEMMA BusSteps ==
  ASSUME BusShape, TellInv, Len(published) <= MaxEvents, BusStep
  PROVE  BusShape' /\ TellInv'
<1>1. published \in Seq(Kinds) /\ Len(published) \in Nat
  BY DEF BusShape
<1>2. PICK s \in Subscribers : Subscribe(s) \/ Unsubscribe(s) \/ Poll(s)
  BY DEF BusStep
<1> DEFINE me == subscriber[s]
<1>3. me \in Subscription /\ Informed(me)
  BY DEF BusShape, TellInv
<1>4. <<>> \in Seq(Item)
  OBVIOUS
<1>5. CASE Subscribe(s)
  <2>1. PICK filter \in Filters : subscriber' = [subscriber EXCEPT ![s] =
          [on |-> TRUE, filter |-> filter, from |-> Len(published) + 1, cursor |-> Len(published) + 1, got |-> <<>>]]
    BY <1>5 DEF Subscribe
  <2> DEFINE you == [on |-> TRUE, filter |-> filter, from |-> Len(published) + 1,
                     cursor |-> Len(published) + 1, got |-> <<>>]
  <2>2. /\ you \in Subscription /\ you.got = <<>> /\ you.from = you.cursor /\ 1 <= you.from
        /\ you.from <= Len(published) + 1
    BY <1>1, <1>4 DEF Subscription
  <2>3. subscriber' = [subscriber EXCEPT ![s] = you] /\ UNCHANGED published
    BY <1>5, <2>1 DEF Subscribe
  <2> HIDE DEF you
  <2>4. Informed(you)
    BY <2>2, InformedFirst
  <2> QED
    BY <2>2, <2>3, <2>4, OneSubscriber
<1>6. CASE Unsubscribe(s)
  <2>1. /\ Off \in Subscription /\ Off.got = <<>> /\ Off.from = Off.cursor /\ 1 <= Off.from
        /\ Off.from <= Len(published) + 1
    BY <1>1, <1>4 DEF Off, Subscription
  <2>2. Informed(Off)
    BY <2>1, InformedFirst
  <2> QED
    BY <1>6, <2>1, <2>2, OneSubscriber DEF Unsubscribe
<1>7. CASE Poll(s)
  <2>1. me.cursor <= Len(published) /\ UNCHANGED published
    BY <1>7 DEF Poll
  <2>2. me.cursor \in Nat /\ me.got \in Seq(Item) /\ 1 <= me.cursor
    BY <1>3 DEF Subscription, Informed
  <2>3. Oldest \in Nat /\ Oldest <= Len(published)
    BY <1>1, <2>1, <2>2, BusAssumption DEF Oldest
  <2>4. ASSUME NEW at \in Nat, NEW item, me.got \o item \in Seq(Item), Move(s, at, item),
               \A you \in Subscription : /\ you.from = me.from /\ you.filter = me.filter /\ you.cursor = at
                                         /\ you.got = me.got \o item
                                         => Informed(you)
        PROVE  BusShape' /\ TellInv'
    <3> DEFINE you == [on |-> me.on, filter |-> me.filter, from |-> me.from, cursor |-> at, got |-> me.got \o item]
    <3>1. subscriber' = [subscriber EXCEPT ![s] = you]
      <4>1. me = [on |-> me.on, filter |-> me.filter, from |-> me.from, cursor |-> me.cursor, got |-> me.got]
        BY <1>3 DEF Subscription
      <4>2. PICK mid : mid = [me EXCEPT !.cursor = at]
        OBVIOUS
      <4>3. mid = [on |-> me.on, filter |-> me.filter, from |-> me.from, cursor |-> at, got |-> me.got]
        BY <4>1, <4>2
      <4>4. [mid EXCEPT !.got = me.got \o item] = you
        <5>1. PICK on, filter, from, old, new : /\ on = me.on /\ filter = me.filter /\ from = me.from /\ old = me.got
                                                /\ new = me.got \o item
          OBVIOUS
        <5>2. mid = [on |-> on, filter |-> filter, from |-> from, cursor |-> at, got |-> old]
          BY <4>3, <5>1
        <5>3. [mid EXCEPT !.got = new] = [on |-> on, filter |-> filter, from |-> from, cursor |-> at, got |-> new]
          BY <5>2
        <5> QED
          BY <5>1, <5>3
      <4> HIDE DEF you
      <4>5. [[me EXCEPT !.cursor = at] EXCEPT !.got = me.got \o item] = you
        BY <4>2, <4>4, Zenon
      <4>6. me.got = mid.got
        BY <4>3
      <4> QED
        BY <2>4, <4>2, <4>5, <4>6 DEF Move, BusShape
    <3>2. you \in Subscription
      BY <1>3, <2>4 DEF Subscription
    <3>3. you.from = me.from /\ you.filter = me.filter /\ you.cursor = at /\ you.got = me.got \o item
      OBVIOUS
    <3> HIDE DEF you
    <3>4. Informed(you)
      BY <2>4, <3>2, <3>3
    <3> QED
      BY <2>1, <3>1, <3>2, <3>4, OneSubscriber
  <2>5. CASE me.cursor < Oldest
    <3> DEFINE item == <<Lagged(Oldest - me.cursor)>>
    <3>1. Move(s, Oldest, item)
      BY <1>7, <2>5 DEF Poll
    <3>2. Lagged(Oldest - me.cursor) \in Item
      BY <1>1, <2>2, <2>3, <2>5, BusAssumption DEF Lagged, Item
    <3>3. me.got \o item \in Seq(Item)
      BY <2>2, <3>2, Joined
    <3>4. ASSUME NEW you \in Subscription, you.from = me.from, you.filter = me.filter, you.cursor = Oldest,
                 you.got = me.got \o item
          PROVE  Informed(you)
      BY <1>1, <1>3, <2>3, <2>5, <3>4, InformedLate
    <3> HIDE DEF item
    <3> QED
      BY <2>3, <2>4, <3>1, <3>3, <3>4
  <2>6. CASE ~(me.cursor < Oldest)
    <3> DEFINE item == Matching(me.filter, me.cursor)
    <3>1. Move(s, me.cursor + 1, item)
      BY <1>7, <2>6 DEF Poll
    <3>2. Event(me.cursor) \in Item
      BY <1>1, <2>1, <2>2, BusAssumption DEF Event, Item
    <3>3. me.got \o item \in Seq(Item)
      <4>1. CASE item = <<>>
        BY <2>2, <4>1
      <4>2. CASE item = <<Event(me.cursor)>>
        BY <2>2, <3>2, <4>2, Joined
      <4> QED
        BY <4>1, <4>2 DEF Matching
    <3>4. ASSUME NEW you \in Subscription, you.from = me.from, you.filter = me.filter, you.cursor = me.cursor + 1,
                 you.got = me.got \o item
          PROVE  Informed(you)
      BY <1>1, <1>3, <2>1, <3>4, InformedNext
    <3>5. me.cursor + 1 \in Nat
      BY <2>2
    <3> HIDE DEF item
    <3> QED
      BY <2>4, <3>1, <3>3, <3>4, <3>5
  <2> QED
    BY <2>5, <2>6
<1> QED
  BY <1>2, <1>5, <1>6, <1>7

-----------------------------------------------------------------------------
(* The theorems. *)

\* The initial states satisfy the invariant.
LEMMA ServicesStart == Init => ServicesInv
<1> SUFFICES ASSUME Init PROVE ServicesInv
  OBVIOUS
<1>1. IInv
  BY InvInit DEF Init
<1>2. replies = <<>> /\ notes = 0 /\ published = <<>> /\ Len(published) = 0
  BY DEF Init, SnapInit, BusInit
<1>3. RoomInv
  BY <1>2, NotesNone, BoundsAssumption, BusAssumption, ServicesAssumption DEF RoomInv
<1>4. published \in Seq(Kinds) /\ Off \in Subscription
  BY <1>2 DEF Off, Subscription
<1>5. BusShape
  BY <1>4 DEF Init, BusInit, BusShape
<1>6. Off.got = <<>> /\ Off.from = Off.cursor /\ 1 <= Off.from /\ Off.from <= Len(published) + 1
  BY <1>2 DEF Off
<1>7. Informed(Off)
  BY <1>4, <1>5, <1>6, InformedFirst
<1>8. TellInv
  BY <1>7 DEF Init, BusInit, TellInv
<1> QED
  BY <1>1, <1>3, <1>5, <1>8 DEF ServicesInv

\* The client sees a step of its own, or none.
LEMMA OwnSteps == [Next]_vars => [SnapStep \/ ReceiveNote]_snapVars
BY DEF Next, vars, Snap, ForwardNote, PublishOther

\* Each step keeps the invariant.
LEMMA ServicesNext == ServicesInv /\ [Next]_vars => ServicesInv'
<1> SUFFICES ASSUME ServicesInv, [Next]_vars PROVE ServicesInv'
  OBVIOUS
<1>1. IInv'
  BY OwnSteps, InvNext DEF ServicesInv
<1>2. Len(published) <= MaxEvents
  BY Room
<1>3. ASSUME UNCHANGED busVars PROVE BusShape' /\ TellInv'
  <2>1. BusShape'
    BY <1>3 DEF busVars, BusShape, ServicesInv
  <2>2. ASSUME NEW s \in Subscribers PROVE Informed(subscriber[s])'
    <3>1. Missed(subscriber[s])' = Missed(subscriber[s])
      BY <1>3 DEF busVars, Missed, KindsMatch
    <3> QED
      BY <1>3, <3>1 DEF busVars, ServicesInv, TellInv, Informed
  <2> QED
    BY <2>1, <2>2 DEF TellInv
<1>4. CASE Snap(SnapStep)
  BY <1>1, <1>3, <1>4, RoomSnap DEF Snap, ServicesInv
<1>5. CASE ForwardNote
  <2>1. CASE Publish(SnapKind)
    BY <1>1, <1>5, <2>1, ServicesAssumption, PublishStep, RoomForward DEF ServicesInv
  <2>2. CASE UNCHANGED busVars
    BY <1>1, <1>3, <1>5, <2>2, RoomForward DEF ServicesInv
  <2> QED
    BY <1>5, <2>1, <2>2 DEF ForwardNote
<1>6. CASE PublishOther
  <2>1. PICK kind \in OtherKinds : Publish(kind)
    BY <1>6 DEF PublishOther
  <2>2. kind \in Kinds
    BY ServicesAssumption
  <2> QED
    BY <1>1, <1>6, <2>1, <2>2, PublishStep, RoomOther DEF ServicesInv
<1>7. CASE BusStep /\ UNCHANGED snapVars
  <2>1. RoomInv'
    <3>1. UNCHANGED <<replies, notes, published>>
      BY <1>7 DEF snapVars, link, BusStep, Subscribe, Unsubscribe, Poll
    <3> QED
      BY <3>1 DEF ServicesInv, RoomInv
  <2> QED
    BY <1>1, <1>2, <1>7, <2>1, BusSteps DEF ServicesInv
<1>8. CASE UNCHANGED vars
  <2>1. RoomInv'
    BY <1>8 DEF vars, snapVars, busVars, link, ServicesInv, RoomInv
  <2> QED
    BY <1>1, <1>3, <1>8, <2>1 DEF vars, ServicesInv
<1> QED
  BY <1>4, <1>5, <1>6, <1>7, <1>8 DEF Next

\* The invariant holds always.
THEOREM ServicesAlways == Spec => []ServicesInv
<1> QED
  BY ServicesStart, ServicesNext, PTL DEF Spec

\* The client of the composition is that of module Snapcast, whatever the bus and
\* its subscribers do.
THEOREM ClientIsSnapcast == Spec => SnapSpec
<1>1. Init => SnapInit
  BY DEF Init
<1> QED
  BY <1>1, OwnSteps, PTL DEF Spec, SnapSpec

\* No event is lost silently: a subscriber that was overtaken is told of as many
\* events as it missed, whatever the ring holds and however the others publish.
THEOREM NothingLostSilently == Spec => []NoSilentLoss
<1>1. ServicesInv => NoSilentLoss
  BY DEF ServicesInv, TellInv, Informed, NoSilentLoss
<1> QED
  BY <1>1, ServicesAlways, PTL

\* A step of the composition is one of the services, of the machines, or neither.
LEMMA EitherSteps == [MCNext]_allVars => [Next]_vars /\ [AccessNext]_accessVars
<1> SUFFICES ASSUME MCNext \/ UNCHANGED allVars PROVE [Next]_vars /\ [AccessNext]_accessVars
  OBVIOUS
<1>1. CASE Service(Next) /\ Within
  BY <1>1 DEF Service
<1>2. CASE UNCHANGED allVars
  BY <1>2 DEF allVars
<1>3. CASE UNCHANGED vars /\ AccessNext
  BY <1>3
<1>4. CASE UNCHANGED vars /\ (AdminStep(Home) \/ ProcessStep(Home) \/ CallStep)
  BY <1>4, HomeAssumption DEF AccessNext
<1>5. ASSUME Machines PROVE AccessNext
  <2>1. \E s \in Servers : ProcessStep(s) \/ LanStep(s)
    BY <1>5, HomeAssumption, Zenon DEF Machines, ProcessStep
  <2> QED
    BY <2>1 DEF AccessNext
<1>6. Search => AccessNext
  BY DEF Search, AccessNext
<1> QED
  BY <1>1, <1>2, <1>3, <1>4, <1>5, <1>6 DEF MCNext

\* The composition of the run behaves as module Services and as module Access, so
\* that what is proved of each of them is so in it.
THEOREM EachAsAlone == MCSpec => Spec /\ AccessSpec
<1>1. MCInit => Init /\ AccessInit
  BY DEF MCInit
<1> QED
  BY <1>1, EitherSteps, PTL DEF MCSpec, Spec, AccessSpec

\* The types of the run's modules.
THEOREM ServicesTyped == MCSpec => []MCTypeOK
<1>1. ServicesInv => TypeOK
  <2> SUFFICES ASSUME ServicesInv PROVE SnapTypeOK /\ BusTypeOK
    BY DEF TypeOK
  <2>1. Len(published) \in Nat /\ Len(published) <= MaxEvents
    BY Room
  <2>2. ASSUME NEW s \in Subscribers
        PROVE  /\ subscriber[s].on \in BOOLEAN /\ subscriber[s].filter \in Filters \cup {{}}
               /\ subscriber[s].from \in 1..(MaxEvents + 1) /\ subscriber[s].cursor \in 1..(MaxEvents + 1)
               /\ subscriber[s].got \in Seq(Item)
    <3>1. subscriber[s] \in Subscription /\ Informed(subscriber[s])
      BY DEF ServicesInv, BusShape, TellInv
    <3> QED
      BY <2>1, <3>1, BusAssumption DEF Subscription, Informed
  <2> QED
    BY <2>2 DEF ServicesInv, IInv, BusShape, BusTypeOK
<1>2. TypeOK /\ AccessTypeOK => MCTypeOK
  BY DEF MCTypeOK
<1> QED
  BY <1>1, <1>2, EachAsAlone, ServicesAlways, AccessIsTyped, PTL

\* What the run checks of its parts, but for CallsEnd, holds in their composition, for
\* any instance.
THEOREM ServicesKeepTheirPromises ==
  MCSpec => /\ [](/\ NoCallerForgotten /\ OkIsHandledOnce /\ NoSilentLoss
                  /\ OnlyWithToken /\ RestartKeepsToken)
            /\ HandledByNamed
<1> QED
  BY EachAsAlone, ClientIsSnapcast, NoneForgotten, ReplyIsOfCall, NothingLostSilently,
     NoOpenServer, NoLockOut, RightServer, PTL
=============================================================================

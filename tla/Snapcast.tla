----------------------------- MODULE Snapcast -----------------------------
(***************************************************************************)
(* The snapserver client (crates/snapcast/src/client.rs): callers send     *)
(* commands to a supervisor task over an unbounded channel; the supervisor *)
(* keeps one connection, numbers the requests on it and matches replies.   *)
(*                                                                         *)
(* A caller whose RPC is dropped leaves its command or its pending entry   *)
(* behind.  The server (external) handles a connection's requests in any   *)
(* order, also after the client has given the connection up.  A connect    *)
(* attempt ends, with a connection or an error.  A write is one step: a    *)
(* peer that stops reading is a server that does not reply.                *)
(***************************************************************************)
EXTENDS Naturals, Sequences, FiniteSets

CONSTANTS Calls,
          Forward,    \* forward_notifications
          MaxConns,   \* bound: connections
          MaxNotes    \* bound: notifications the server sends

ASSUME BoundsAssumption == MaxConns \in Nat /\ MaxNotes \in Nat

VARIABLES
  sup,        \* the supervisor: "connecting", "up", "backoff"
  conn,       \* number of the connection
  cmds,       \* the command channel
  nextId, pending,   \* run_connection: next request id; <<id, call>> awaiting replies
  call,       \* outcome of each call: "idle", "waiting", "ok", "error", "gone"
  requests,   \* at the server: <<connection, id, call>>
  replies,    \* on the connection to the client, in order
  notes,      \* notifications sent
  handled     \* history: calls the server has carried out, in order

link == <<nextId, pending, requests, replies>>
snapVars == <<sup, conn, cmds, link, call, notes, handled>>

Reply(id, c, result) == [id |-> id, for |-> c, result |-> result]
Note == [id |-> 0, for |-> "server", result |-> "note"]

SnapInit ==
  /\ sup = "connecting" /\ conn = 0 /\ cmds = <<>> /\ nextId = 1 /\ pending = {}
  /\ call = [c \in Calls |-> "idle"] /\ requests = {} /\ replies = <<>> /\ notes = 0 /\ handled = <<>>

\* The oneshot of each of these calls is answered; a caller that is gone hears nothing.
Answer(calls, outcome) ==
  call' = [c \in Calls |-> IF c \in calls /\ call[c] = "waiting" THEN outcome ELSE call[c]]

\* call_raw, and a caller that is dropped while it waits.
CallRaw(c) ==
  /\ call[c] = "idle" /\ call' = [call EXCEPT ![c] = "waiting"] /\ cmds' = Append(cmds, c)
  /\ UNCHANGED <<sup, conn, link, notes, handled>>

CallerGone(c) ==
  /\ call[c] = "waiting" /\ call' = [call EXCEPT ![c] = "gone"]
  /\ UNCHANGED <<sup, conn, cmds, link, notes, handled>>

\* TcpStream::connect.  Commands queue meanwhile.
Connect ==
  /\ sup = "connecting"
  /\ \/ /\ conn < MaxConns /\ sup' = "up" /\ conn' = conn + 1
        /\ nextId' = 1 /\ pending' = {} /\ replies' = <<>>
     \/ sup' = "backoff" /\ UNCHANGED <<conn, nextId, pending, replies>>
  /\ UNCHANGED <<cmds, call, requests, notes, handled>>

\* mutant
RefuseSilently ==
  /\ sup = "backoff" /\ cmds # <<>> /\ cmds' = Tail(cmds)
  /\ UNCHANGED <<sup, conn, link, call, notes, handled>>

\* Between two connections a command is refused: "not connected".
Refuse ==
  /\ sup = "backoff" /\ cmds # <<>>
  /\ Answer({Head(cmds)}, "error") /\ cmds' = Tail(cmds)
  /\ UNCHANGED <<sup, conn, link, notes, handled>>

BackoffOver ==
  /\ sup = "backoff" /\ sup' = "connecting"
  /\ UNCHANGED <<conn, cmds, link, call, notes, handled>>

\* A command on a connection: it is pending before it is written.  If the write
\* fails the connection ends; the server may have got the request all the same.
Ended(calls) == sup' = "backoff" /\ pending' = {} /\ replies' = <<>> /\ Answer(calls, "error")
InFlight == {p[2] : p \in pending}

\* mutant
WriteUnregistered ==
  /\ sup = "up" /\ cmds # <<>> /\ cmds' = Tail(cmds) /\ nextId' = nextId + 1
  /\ requests' = requests \cup {<<conn, nextId, Head(cmds)>>}
  /\ UNCHANGED <<sup, conn, pending, replies, call, notes, handled>>

\* mutant
WriteRequeued ==
  /\ sup = "up" /\ cmds # <<>> /\ nextId' = nextId + 1
  /\ requests' = requests \cup {<<conn, nextId, Head(cmds)>>}
  /\ \/ cmds' = Tail(cmds) /\ pending' = pending \cup {<<nextId, Head(cmds)>>} /\ UNCHANGED <<sup, replies, call>>
     \/ UNCHANGED cmds /\ Ended(InFlight)
  /\ UNCHANGED <<conn, notes, handled>>

Write ==
  /\ sup = "up" /\ cmds # <<>> /\ cmds' = Tail(cmds) /\ nextId' = nextId + 1
  /\ \/ requests' = requests \cup {<<conn, nextId, Head(cmds)>>}
     \/ UNCHANGED requests
  /\ \/ /\ requests' # requests /\ pending' = pending \cup {<<nextId, Head(cmds)>>}
        /\ UNCHANGED <<sup, replies, call>>
     \/ Ended(InFlight \cup {Head(cmds)})
  /\ UNCHANGED <<conn, notes, handled>>

\* The connection is closed by the server or fails.
Drop ==
  /\ sup = "up" /\ Ended(InFlight)
  /\ UNCHANGED <<conn, cmds, nextId, requests, notes, handled>>

\* mutant
ReceiveFirst ==
  /\ sup = "up" /\ replies # <<>> /\ replies' = Tail(replies) /\ Head(replies).result # "note" /\ pending # {}
  /\ LET p == CHOOSE p \in pending : \A q \in pending : p[1] <= q[1] IN
       pending' = pending \ {p} /\ Answer({p[2]}, Head(replies).result)
  /\ UNCHANGED <<sup, conn, cmds, nextId, requests, notes, handled>>

\* handle_inbound, a reply: its id is looked up; an unknown one is ignored.
ReceiveReply ==
  /\ sup = "up" /\ replies # <<>> /\ Head(replies).result # "note"
  /\ LET mine == {p \in pending : p[1] = Head(replies).id} IN
       pending' = pending \ mine /\ Answer({p[2] : p \in mine}, Head(replies).result)
  /\ replies' = Tail(replies)
  /\ UNCHANGED <<sup, conn, cmds, nextId, requests, notes, handled>>

\* handle_inbound, a notification; the composing module publishes it if Forward.
ReceiveNote ==
  /\ sup = "up" /\ replies # <<>> /\ Head(replies) = Note /\ replies' = Tail(replies)
  /\ UNCHANGED <<sup, conn, cmds, nextId, pending, requests, call, notes, handled>>

-----------------------------------------------------------------------------
(* The server. *)

Serve(r) ==
  /\ r \in requests /\ requests' = requests \ {r}
  /\ \E result \in {"ok", "error"} :
       /\ handled' = IF result = "ok" THEN Append(handled, r[3]) ELSE handled
       /\ replies' = IF sup = "up" /\ r[1] = conn THEN Append(replies, Reply(r[2], r[3], result)) ELSE replies
  /\ UNCHANGED <<sup, conn, cmds, nextId, pending, call, notes>>

Notify ==
  /\ sup = "up" /\ notes < MaxNotes /\ notes' = notes + 1 /\ replies' = Append(replies, Note)
  /\ UNCHANGED <<sup, conn, cmds, nextId, pending, requests, call, handled>>

Supervise == Connect \/ Refuse \/ BackoffOver \/ Write \/ ReceiveReply
ServerStep == \E r \in requests : Serve(r)
SnapStep == (\E c \in Calls : CallRaw(c) \/ CallerGone(c)) \/ Supervise \/ Drop \/ ServerStep \/ Notify

SnapSpec == SnapInit /\ [][SnapStep \/ ReceiveNote]_snapVars

-----------------------------------------------------------------------------
(* Properties. *)

SnapTypeOK ==
  /\ sup \in {"connecting", "up", "backoff"} /\ conn \in 0..MaxConns
  /\ cmds \in Seq(Calls) /\ nextId \in Nat /\ pending \subseteq Nat \X Calls
  /\ call \in [Calls -> {"idle", "waiting", "ok", "error", "gone"}]
  /\ requests \subseteq (1..MaxConns) \X Nat \X Calls
  /\ replies \in Seq([id : Nat, for : Calls \cup {"server"}, result : {"ok", "error", "note"}])
  /\ notes \in 0..MaxNotes /\ handled \in Seq(Calls)

\* No caller is forgotten: while it waits, its command is queued or pending.
NoCallerForgotten == \A c \in Calls : call[c] = "waiting" => (c \in InFlight \/ \E i \in DOMAIN cmds : cmds[i] = c)

\* A call that succeeds was carried out by the server, and none is more than once:
\* replies reach the call they are for, although ids start again with each
\* connection, and nothing is sent again after a reconnect.
OkIsHandledOnce ==
  /\ \A c \in Calls : call[c] = "ok" => \E i \in DOMAIN handled : handled[i] = c
  /\ \A i, j \in DOMAIN handled : i # j => handled[i] # handled[j]

\* Every call ends, if the server answers or the connection breaks: none is left
\* behind by a disconnect or by another caller that went away.
CallsEnd == \A c \in Calls : call[c] = "waiting" ~> call[c] # "waiting"
=============================================================================

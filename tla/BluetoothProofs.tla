-------------------------- MODULE BluetoothProofs --------------------------
(***************************************************************************)
(* Theorems about modules PairingAgent and Bluetooth, for any prompts of   *)
(* any phones and any callers.  A prompt's sender is in one place: the     *)
(* map, a hand, or nowhere once its channel has an answer (HandInv,        *)
(* MailInv); and a yes, in a hand or in a channel, is a client's.  Module  *)
(* Bluetooth takes the agent's steps or none.  A device call reads nothing *)
(* for its event before it is done with the device (ScriptInv), and what   *)
(* it has read was so since (SinceInv).                                    *)
(***************************************************************************)
EXTENDS Bluetooth, CallsProofs

-----------------------------------------------------------------------------
(* The pairing agent. *)

Begun == {"waiting", "expired", "accepted", "rejected"}

\* Nothing is accepted before the agent is there.
BootInv == agent = "none" => ~autoAccept

\* A sender in a hand is of a prompt that has parked, and no longer in the map.
HandInv == \A h \in hand :
  /\ prompt[h[1]] \in Begun /\ \A a \in Addresses : pending[a] # h[1]
  /\ h[2] = "yes" => h[1] \in consented

\* So is one whose channel has something to say.
MailInv == \A i \in Prompts : mail[i] # "empty" =>
  /\ prompt[i] \in Begun /\ \A a \in Addresses : pending[a] # i
  /\ mail[i] = "yes" => i \in consented

IInv == TypeOK /\ BootInv /\ HandInv /\ MailInv /\ MapInStep /\ AcceptedByClient

\* The initial state satisfies the inductive invariant.
LEMMA InvInit == Init => IInv
BY ZenonT(30), PairingAssumption DEF Init, IInv, TypeOK, BootInv, HandInv, MailInv, MapInStep, NoLeak, Answerable,
   AcceptedByClient

\* Each step keeps the types.
LEMMA TypeStep == ASSUME TypeOK, [Next]_vars PROVE TypeOK'
<1> USE PairingAssumption DEF TypeOK
<1>1. CASE Start
  BY <1>1 DEF Start
<1>2. CASE Unregister
  BY <1>2 DEF Unregister
<1>3. CASE Drain
  BY <1>3 DEF Drain
<1>4. ASSUME NEW i \in Prompts, Request(i) PROVE TypeOK'
  BY <1>4 DEF Request
<1>5. ASSUME NEW i \in Prompts, Callback(i) PROVE TypeOK'
  <2>1. CASE Park(i)
    BY <2>1 DEF Park, Deliver
  <2>2. CASE Resolve(i)
    BY <2>2 DEF Resolve
  <2>3. CASE Expire(i)
    BY <2>3 DEF Expire
  <2>4. CASE CleanUp(i)
    BY <2>4 DEF CleanUp, Deliver
  <2> QED
    BY <1>5, <2>1, <2>2, <2>3, <2>4 DEF Callback
<1>6. ASSUME NEW a \in Addresses, NEW accept \in BOOLEAN, Respond(a, accept) PROVE TypeOK'
  BY <1>6 DEF Respond
<1>7. ASSUME NEW h \in hand, Send(h) PROVE TypeOK'
  BY <1>7 DEF Send, Deliver
<1>8. CASE UNCHANGED vars
  BY <1>8 DEF vars
<1> QED
  BY <1>1, <1>2, <1>3, <1>4, <1>5, <1>6, <1>7, <1>8 DEF Next

\* What Deliver does to each channel.
LEMMA Delivered ==
  ASSUME TypeOK, NEW i \in Prompts \cup {NoPrompt}, NEW m
  PROVE  \A j \in Prompts :
           Deliver(i, m)[j] = IF j = i /\ prompt[j] = "waiting" THEN m ELSE mail[j]
BY PairingAssumption DEF Deliver, TypeOK

-----------------------------------------------------------------------------
(* Each kind of step keeps the rest of the invariant. *)

\* start, the callback's first event, and the end of the agent.
LEMMA AgentStep ==
  ASSUME IInv, Start \/ Unregister \/ Drain \/ \E i \in Prompts : Request(i)
  PROVE  BootInv' /\ HandInv' /\ MailInv' /\ MapInStep' /\ AcceptedByClient'
<1> USE PairingAssumption
        DEF IInv, TypeOK, BootInv, HandInv, MailInv, MapInStep, NoLeak, Answerable, AcceptedByClient, Begun
<1>1. CASE Start
  BY <1>1 DEF Start
<1>2. CASE Unregister
  BY <1>2 DEF Unregister
<1>3. CASE Drain
  <2>1. \A h \in hand' : \/ h \in hand
                        \/ \E a \in Addresses : pending[a] \in Prompts /\ h = <<pending[a], "no">>
    BY <1>3 DEF Drain
  <2>2. ASSUME NEW i \in Prompts, pending[AddressOf[i]] = i PROVE \E h \in hand' : h[1] = i
    <3>1. <<i, "no">> \in hand'
      BY <1>3, <2>2 DEF Drain
    <3> QED
      BY <3>1
  <2>3. hand \subseteq hand' /\ UNCHANGED <<autoAccept, prompt, mail, consented>>
    BY <1>3 DEF Drain
  <2>4. agent' = "stopped" /\ \A a \in Addresses : pending'[a] = NoPrompt
    BY <1>3 DEF Drain
  <2>5. HandInv'
    BY <2>1, <2>3, <2>4
  <2>6. Answerable'
    BY <2>2, <2>3, <2>4
  <2>7. MailInv'
    BY <2>3, <2>4
  <2>8. NoLeak' /\ BootInv' /\ AcceptedByClient'
    BY <2>3, <2>4
  <2> QED
    BY <2>5, <2>6, <2>7, <2>8
<1>4. ASSUME NEW i \in Prompts, Request(i)
      PROVE  BootInv' /\ HandInv' /\ MailInv' /\ MapInStep' /\ AcceptedByClient'
  BY <1>4 DEF Request
<1> QED
  BY <1>1, <1>2, <1>3, <1>4

\* The callback parks, and so may reject the prompt it replaces.
LEMMA ParkStep ==
  ASSUME IInv, NEW i \in Prompts, Park(i)
  PROVE  BootInv' /\ HandInv' /\ MailInv' /\ MapInStep' /\ AcceptedByClient'
<1> USE PairingAssumption
        DEF IInv, TypeOK, BootInv, HandInv, MailInv, MapInStep, NoLeak, Answerable, AcceptedByClient, Begun
<1> DEFINE a == AddressOf[i]
<1>1. /\ prompt[i] = "published" /\ UNCHANGED <<agent, autoAccept, hand, consented>>
      /\ \A j \in Prompts : prompt'[j] = IF j = i THEN "waiting" ELSE prompt[j]
      /\ \A b \in Addresses : pending'[b] = IF b = a THEN i ELSE pending[b]
  BY DEF Park
<1>2. \A j \in Prompts : mail'[j] = IF j = pending[a] /\ prompt[j] = "waiting" THEN "no" ELSE mail[j]
  <2>1. mail' = Deliver(pending[a], "no")
    BY DEF Park
  <2>2. pending[a] \in Prompts \cup {NoPrompt}
    OBVIOUS
  <2> QED
    BY <2>1, <2>2, Delivered
<1>3. \A h \in hand : h[1] \in Prompts
  OBVIOUS
<1>4. BootInv' /\ AcceptedByClient'
  BY <1>1
<1>5. HandInv'
  BY <1>1, <1>3
<1>6. MailInv'
  BY <1>1, <1>2
<1>7. NoLeak'
  BY <1>1
<1>8. Answerable'
  BY <1>1, <1>2
<1> QED
  BY <1>4, <1>5, <1>6, <1>7, <1>8

\* The callback wakes, or gives up waiting.
LEMMA WakeStep ==
  ASSUME IInv, NEW i \in Prompts, Resolve(i) \/ Expire(i)
  PROVE  BootInv' /\ HandInv' /\ MailInv' /\ MapInStep' /\ AcceptedByClient'
<1> USE PairingAssumption
        DEF IInv, TypeOK, BootInv, HandInv, MailInv, MapInStep, NoLeak, Answerable, AcceptedByClient, Begun
<1>1. CASE Resolve(i)
  BY <1>1 DEF Resolve
<1>2. CASE Expire(i)
  BY <1>2 DEF Expire
<1> QED
  BY <1>1, <1>2

\* After a timeout the entry of the address goes, whoever made it.
LEMMA CleanUpStep ==
  ASSUME IInv, NEW i \in Prompts, CleanUp(i)
  PROVE  BootInv' /\ HandInv' /\ MailInv' /\ MapInStep' /\ AcceptedByClient'
<1> USE PairingAssumption
        DEF IInv, TypeOK, BootInv, HandInv, MailInv, MapInStep, NoLeak, Answerable, AcceptedByClient, Begun
<1> DEFINE a == AddressOf[i]
<1>1. /\ prompt[i] = "expired" /\ UNCHANGED <<agent, autoAccept, hand, consented>>
      /\ \A j \in Prompts : prompt'[j] = IF j = i THEN "rejected" ELSE prompt[j]
      /\ \A b \in Addresses : pending'[b] = IF b = a THEN NoPrompt ELSE pending[b]
  BY DEF CleanUp
<1>2. \A j \in Prompts : mail'[j] = IF j = pending[a] /\ prompt[j] = "waiting" THEN "gone" ELSE mail[j]
  <2>1. mail' = Deliver(pending[a], "gone")
    BY DEF CleanUp
  <2>2. pending[a] \in Prompts \cup {NoPrompt}
    OBVIOUS
  <2> QED
    BY <2>1, <2>2, Delivered
<1>3. \A h \in hand : h[1] \in Prompts
  OBVIOUS
<1>4. BootInv' /\ AcceptedByClient'
  BY <1>1
<1>5. HandInv'
  BY <1>1, <1>3
<1>6. MailInv'
  BY <1>1, <1>2
<1>7. NoLeak'
  BY <1>1
<1>8. Answerable'
  BY <1>1, <1>2
<1> QED
  BY <1>4, <1>5, <1>6, <1>7, <1>8

\* RespondPairing takes a sender and then uses it; stop uses those it drained.
LEMMA AnswerStep ==
  ASSUME IInv,
         \/ \E a \in Addresses, accept \in BOOLEAN : Respond(a, accept)
         \/ \E h \in hand : Send(h)
  PROVE  BootInv' /\ HandInv' /\ MailInv' /\ MapInStep' /\ AcceptedByClient'
<1> USE PairingAssumption
        DEF IInv, TypeOK, BootInv, HandInv, MailInv, MapInStep, NoLeak, Answerable, AcceptedByClient, Begun
<1>1. ASSUME NEW a \in Addresses, NEW accept \in BOOLEAN, Respond(a, accept)
      PROVE  BootInv' /\ HandInv' /\ MailInv' /\ MapInStep' /\ AcceptedByClient'
  <2> DEFINE s == <<pending[a], IF accept THEN "yes" ELSE "no">>
  <2>1. /\ pending[a] \in Prompts /\ hand' = hand \cup {s} /\ UNCHANGED <<agent, autoAccept, prompt, mail>>
        /\ \A b \in Addresses : pending'[b] = IF b = a THEN NoPrompt ELSE pending[b]
        /\ consented \subseteq consented' /\ (accept => pending[a] \in consented')
    BY <1>1 DEF Respond
  <2>2. s[1] = pending[a] /\ (s[2] = "yes" => accept) /\ prompt[s[1]] \in Begun
    BY <2>1
  <2>3. HandInv'
    BY <2>1, <2>2
  <2>4. MailInv'
    BY <2>1
  <2>5. NoLeak' /\ BootInv' /\ AcceptedByClient'
    BY <2>1
  <2>6. Answerable'
    <3>1. s \in hand' /\ hand \subseteq hand'
      BY <2>1
    <3> HIDE DEF s
    <3> QED
      BY <2>1, <2>2, <3>1
  <2> QED
    BY <2>3, <2>4, <2>5, <2>6
<1>2. ASSUME NEW h \in hand, Send(h)
      PROVE  BootInv' /\ HandInv' /\ MailInv' /\ MapInStep' /\ AcceptedByClient'
  <2>1. /\ hand' = hand \ {h} /\ h[1] \in Prompts
        /\ UNCHANGED <<agent, autoAccept, pending, prompt, consented>>
    BY <1>2 DEF Send
  <2>2. \A j \in Prompts : mail'[j] = IF j = h[1] /\ prompt[j] = "waiting" THEN h[2] ELSE mail[j]
    BY <1>2, <2>1, Delivered DEF Send
  <2>3. h[2] # "empty"
    OBVIOUS
  <2>4. HandInv' /\ BootInv' /\ NoLeak' /\ AcceptedByClient'
    BY <2>1
  <2>5. MailInv'
    BY <2>1, <2>2
  <2>6. Answerable'
    BY <2>1, <2>2, <2>3
  <2> QED
    BY <2>4, <2>5, <2>6
<1> QED
  BY <1>1, <1>2

\* Each step keeps the invariant.
LEMMA InvStep == ASSUME IInv, [Next]_vars PROVE IInv'
<1>1. TypeOK'
  BY TypeStep DEF IInv
<1>2. BootInv' /\ HandInv' /\ MailInv' /\ MapInStep' /\ AcceptedByClient'
  <2>1. CASE UNCHANGED vars
    BY <2>1 DEF vars, IInv, BootInv, HandInv, MailInv, MapInStep, NoLeak, Answerable, AcceptedByClient
  <2> QED
    BY <2>1, AgentStep, ParkStep, WakeStep, CleanUpStep, AnswerStep DEF Next, Callback
<1> QED
  BY <1>1, <1>2 DEF IInv

-----------------------------------------------------------------------------
(* The theorems. *)

\* The inductive invariant holds always.
THEOREM Invariant == Spec => []IInv
BY InvInit, InvStep, PTL DEF Spec

\* No entry of the map outlives its prompt, and no waiting prompt has lost its
\* sender, whatever answers, timeouts, replacements and stops race.
THEOREM MapKeepsStep == Spec => []MapInStep
<1>1. IInv => MapInStep
  BY DEF IInv
<1> QED
  BY <1>1, Invariant, PTL

\* A phone is paired by auto-accept or by a client's accept of that very prompt.
THEOREM OnlyClientsAccept == Spec => []AcceptedByClient
<1>1. IInv => AcceptedByClient
  BY DEF IInv
<1> QED
  BY <1>1, Invariant, PTL

-----------------------------------------------------------------------------
(* The agent with the device calls around it. *)

\* A step of Bluetooth is one of the agent's, or leaves the agent alone.
LEMMA AgentOrStill == ASSUME [BtNext]_btVars PROVE [Next]_vars
<1>1. CASE UNCHANGED btVars
  BY <1>1 DEF btVars, vars
<1>2. ASSUME NEW c \in Callers, Call(c) /\ Still PROVE UNCHANGED vars
  BY <1>2 DEF Still
<1>3. ASSUME NEW c \in Callers, CallStep(c) PROVE [Next]_vars
  <2>1. CASE (Reading(c) \/ GoneStep(c)) /\ Still
    BY <2>1 DEF Still
  <2>2. CASE (PairPlain(c) \/ ChangeStep(c)) /\ UNCHANGED <<vars, pairing>>
    BY <2>2
  <2>3. CASE PairEnd(c) /\ UNCHANGED vars
    BY <2>3
  <2>4. CASE PairBegin(c)
    BY <2>4 DEF PairBegin, Next
  <2> QED
    BY <1>3, <2>1, <2>2, <2>3, <2>4 DEF CallStep
<1>4. ASSUME NEW a \in Addresses, Roam(a) /\ UNCHANGED <<call, vars, pairing>> PROVE UNCHANGED vars
  BY <1>4
<1> QED
  BY <1>1, <1>2, <1>3, <1>4 DEF BtNext

\* The agent that the device calls meet is that of module PairingAgent.
THEOREM AgentIsPairingAgent == BtSpec => Spec
<1>1. BtInit => Init
  BY DEF BtInit
<1>2. [BtNext]_btVars => [Next]_vars
  BY AgentOrStill
<1> QED
  BY <1>1, <1>2, PTL DEF BtSpec, Spec

\* Nor do device calls bring the map and the prompts out of step.
THEOREM MapKeepsStepWithCalls == BtSpec => []MapInStep
BY AgentIsPairingAgent, MapKeepsStep, PTL

\* With device calls, too, a prompt is accepted by auto-accept or by a client's accept of
\* that very prompt.
THEOREM OnlyClientsAcceptWithCalls == BtSpec => []AcceptedByClient
BY AgentIsPairingAgent, OnlyClientsAccept, PTL
-----------------------------------------------------------------------------
(* The device calls. *)

Changes == {"pair", "trust", "connect", "disconnect", "remove", "discover"}
Fields == {"paired", "trusted", "connected"}
Others == {"adapter", "list", "is_paired", "is_trusted", "gone", "publish"}
Item == [do : Changes \cup Fields \cup Others, on : Addresses, err : {"Internal", "event"}]
Cleared == {<<field, FALSE>> : field \in Fields}

\* The steps left to a call on a: what is read for the event is read after all
\* changes, a test comes before what it may leave out, what is known to be gone was
\* changed by its removal alone and is published, and a removal that fails ends the call.
ScriptInv(q, a) ==
  /\ q \in Seq(Item) /\ \A k \in DOMAIN q : q[k].on = a
  /\ \A j, k \in DOMAIN q : j < k /\ q[j].do \in Fields \cup {"gone"} => q[k].do \notin Changes
  /\ \A k \in DOMAIN q : q[k].do \in {"is_paired", "is_trusted"} =>
       k + 1 \in DOMAIN q /\ q[k + 1].do \in {"pair", "trust"}
  /\ \A k \in DOMAIN q : q[k].do = "gone" => \E m \in DOMAIN q : k < m /\ q[m].do = "publish"
  /\ \A j, k \in DOMAIN q : j < k /\ q[k].do = "gone" => q[j].do \notin Changes \ {"remove"}
  /\ \A k \in DOMAIN q : q[k].do = "remove" => q[k].err = "Internal"

RecordInv(r) ==
  /\ r = [op |-> r.op, on |-> r.on, arg |-> r.arg, todo |-> r.todo, saw |-> r.saw, did |-> r.did,
          reply |-> r.reply]
  /\ ScriptInv(r.todo, r.on) /\ r.reply \in Statuses \cup {"none"}
  /\ \A f, g \in r.saw : f[1] = g[1] => f = g
  /\ r.saw # {} => \A k \in DOMAIN r.todo : r.todo[k].do \notin Changes

\* What a call has read was so since its last change; and so is that a removed
\* device is unknown.
SinceInv(r, s) ==
  /\ Publishes(r) => r.saw \subseteq s
  /\ \A k \in DOMAIN r.todo : r.todo[k].do = "gone" =>
       Cleared \subseteq s \/ \E j \in DOMAIN r.todo : j < k /\ r.todo[j].do = "remove"

CallsInv == /\ call = [c \in Callers |-> call[c]]
            /\ \A c \in Callers : RecordInv(call[c]) /\ SinceInv(call[c], since[c])
DeviceInv == /\ device \in [Addresses -> [{"known", "paired", "trusted", "connected"} -> BOOLEAN]]
             /\ pairing \in [Callers -> Prompts \cup {NoPrompt}]
BtInv == IInv /\ DeviceInv /\ CallsInv

\* The steps a call can make; facts are those of its device after the step.
Goes(r, r2, n) ==
  /\ r2 = [op |-> r.op, on |-> r.on, arg |-> r.arg, todo |-> r2.todo, saw |-> r2.saw, did |-> r2.did,
           reply |-> IF r2.todo = <<>> THEN "Ok" ELSE r.reply]
  /\ r2.todo \in Seq(Item) /\ Rest(r.todo, r2.todo, n)

Passes(r, r2, n) == /\ r2.did = r.did /\ r2.saw \subseteq r.saw
                    /\ \A k \in 1..n : r.todo[k].do # "remove"
Sees(r, r2, facts) == /\ r2.did = r.did /\ r.todo[1].do \in Fields /\ r2.saw \subseteq r.saw \cup facts
                      /\ \A f, g \in r2.saw : f[1] = g[1] => f = g
Knows(r, r2) == r2.did = r.did /\ r.todo[1].do = "gone" /\ r2.saw \subseteq Cleared
Does(r, r2, facts) == /\ r.todo[1].do \in Changes /\ r2.saw \subseteq r.saw
                      /\ r.todo[1].do = "remove" => Cleared \subseteq facts

Ends(r, r2) == /\ r2 = [op |-> r.op, on |-> r.on, arg |-> r.arg, todo |-> <<>>, saw |-> {}, did |-> r.did,
                        reply |-> r2.reply]
               /\ r2.reply \in Statuses

Moves(r, r2, facts) ==
  /\ r.todo # <<>>
  /\ \/ Ends(r, r2)
     \/ \E n \in 1..Len(r.todo) : Goes(r, r2, n) /\ Passes(r, r2, n)
     \/ Goes(r, r2, 1) /\ (Sees(r, r2, facts) \/ Knows(r, r2) \/ Does(r, r2, facts))

\* What follows of a script is a script.
LEMMA RestIsScript ==
  ASSUME NEW q, NEW a, NEW p, NEW n, ScriptInv(q, a), p \in Seq(Item), Rest(q, p, n)
  PROVE  /\ ScriptInv(p, a)
         /\ \A k \in DOMAIN p : k + n \in DOMAIN q /\ p[k] = q[k + n]
<1>1. /\ n \in 1..Len(q) /\ Len(q) \in Nat /\ DOMAIN q = 1..Len(q) /\ DOMAIN p = 1..(Len(q) - n)
      /\ \A k \in 1..(Len(q) - n) : p[k] = q[k + n]
  BY DEF Rest
<1>2. \A k \in DOMAIN p : k \in Nat /\ k + n \in DOMAIN q /\ p[k] = q[k + n]
  BY <1>1
<1>3. \A j, k \in DOMAIN p : j < k => j + n < k + n
  BY <1>1
<1>4. \A k \in DOMAIN p, m \in DOMAIN q : k + n < m => m - n \in DOMAIN p /\ k < m - n /\ p[m - n] = q[m]
  <2> SUFFICES ASSUME NEW k \in DOMAIN p, NEW m \in DOMAIN q, k + n < m
               PROVE  m - n \in DOMAIN p /\ k < m - n /\ p[m - n] = q[m]
    OBVIOUS
  <2>1. k \in Nat /\ k >= 1 /\ m \in Nat /\ m <= Len(q)
    BY <1>1
  <2>2. m - n \in 1..(Len(q) - n) /\ k < m - n /\ (m - n) + n = m
    BY <1>1, <2>1
  <2> QED
    BY <1>1, <2>2
<1>5. \A k \in DOMAIN p : (k + n) + 1 \in DOMAIN q => k + 1 \in DOMAIN p /\ p[k + 1] = q[(k + n) + 1]
  <2> SUFFICES ASSUME NEW k \in DOMAIN p, (k + n) + 1 \in DOMAIN q
               PROVE  k + 1 \in DOMAIN p /\ p[k + 1] = q[(k + n) + 1]
    OBVIOUS
  <2>1. k \in Nat /\ k >= 1 /\ (k + n) + 1 <= Len(q)
    BY <1>1
  <2>2. k + 1 \in 1..(Len(q) - n) /\ (k + 1) + n = (k + n) + 1
    BY <1>1, <2>1
  <2> QED
    BY <1>1, <2>2
<1>6. \A k \in DOMAIN p : p[k].on = a
  BY <1>2 DEF ScriptInv
<1>7. \A j, k \in DOMAIN p : j < k /\ p[j].do \in Fields \cup {"gone"} => p[k].do \notin Changes
  BY <1>2, <1>3 DEF ScriptInv
<1>8. \A k \in DOMAIN p : p[k].do \in {"is_paired", "is_trusted"} =>
        k + 1 \in DOMAIN p /\ p[k + 1].do \in {"pair", "trust"}
  BY <1>2, <1>5 DEF ScriptInv
<1>9. \A k \in DOMAIN p : p[k].do = "gone" => \E m \in DOMAIN p : k < m /\ p[m].do = "publish"
  <2> SUFFICES ASSUME NEW k \in DOMAIN p, p[k].do = "gone"
               PROVE  \E m \in DOMAIN p : k < m /\ p[m].do = "publish"
    OBVIOUS
  <2>1. PICK m \in DOMAIN q : k + n < m /\ q[m].do = "publish"
    BY <1>2 DEF ScriptInv
  <2>2. m - n \in DOMAIN p /\ k < m - n /\ p[m - n] = q[m]
    BY <1>4, <2>1
  <2> QED
    BY <2>1, <2>2
<1>10. \A k \in DOMAIN p : p[k].do = "remove" => p[k].err = "Internal"
  BY <1>2 DEF ScriptInv
<1>11. \A j, k \in DOMAIN p : j < k /\ p[k].do = "gone" => p[j].do \notin Changes \ {"remove"}
  BY <1>2, <1>3 DEF ScriptInv
<1> QED
  BY <1>2, <1>6, <1>7, <1>8, <1>9, <1>10, <1>11 DEF ScriptInv

\* A step of a call keeps what is true of it.
LEMMA MovesKeep ==
  ASSUME NEW r, NEW r2, NEW facts, NEW s, NEW s2, RecordInv(r), SinceInv(r, s), Moves(r, r2, facts),
         s2 = IF ~Publishes(r2) THEN {} ELSE (IF r2.did # r.did THEN {} ELSE s) \cup facts
  PROVE  RecordInv(r2) /\ SinceInv(r2, s2)
<1>1. CASE Ends(r, r2)
  <2>1. /\ r2 = [op |-> r2.op, on |-> r2.on, arg |-> r2.arg, todo |-> r2.todo, saw |-> r2.saw,
                 did |-> r2.did, reply |-> r2.reply]
        /\ r2.todo = <<>> /\ r2.saw = {} /\ r2.reply \in Statuses
    BY <1>1 DEF Ends
  <2>2. <<>> \in Seq(Item) /\ DOMAIN <<>> = {}
    OBVIOUS
  <2>3. ScriptInv(r2.todo, r2.on)
    BY <2>1, <2>2 DEF ScriptInv
  <2> QED
    BY <2>1, <2>2, <2>3 DEF RecordInv, SinceInv
<1>2. ASSUME NEW n, Goes(r, r2, n),
             \/ n \in 1..Len(r.todo) /\ Passes(r, r2, n)
             \/ n = 1 /\ (Sees(r, r2, facts) \/ Knows(r, r2) \/ Does(r, r2, facts))
      PROVE  RecordInv(r2) /\ SinceInv(r2, s2)
  <2>1. /\ r2 = [op |-> r2.op, on |-> r2.on, arg |-> r2.arg, todo |-> r2.todo, saw |-> r2.saw,
                 did |-> r2.did, reply |-> r2.reply]
        /\ r2.on = r.on /\ r2.todo \in Seq(Item)
        /\ r2.reply = IF r2.todo = <<>> THEN "Ok" ELSE r.reply
    BY <1>2 DEF Goes
  <2>2. r2.reply \in Statuses \cup {"none"}
    BY <2>1 DEF RecordInv, Statuses
  <2>3. /\ ScriptInv(r.todo, r.on) /\ ScriptInv(r2.todo, r2.on)
        /\ \A k \in DOMAIN r2.todo : k + n \in DOMAIN r.todo /\ r2.todo[k] = r.todo[k + n]
    BY <1>2, <2>1, RestIsScript DEF Goes, RecordInv
  <2>4. /\ n \in 1..Len(r.todo) /\ Len(r.todo) \in Nat /\ DOMAIN r.todo = 1..Len(r.todo)
        /\ DOMAIN r2.todo = 1..(Len(r.todo) - n)
    BY <1>2 DEF Goes, Rest
  <2>5. 1 \in DOMAIN r.todo /\ \A k \in DOMAIN r2.todo : k \in Nat /\ 1 <= n /\ 1 < k + n
    BY <2>4
  <2>6. \A f, g \in r2.saw : f[1] = g[1] => f = g
    <3>1. \A f, g \in r.saw : f[1] = g[1] => f = g
      BY DEF RecordInv
    <3>2. CASE Knows(r, r2)
      <4>1. \A f \in Cleared : f = <<f[1], FALSE>>
        <5> SUFFICES ASSUME NEW f \in Cleared PROVE f = <<f[1], FALSE>>
          OBVIOUS
        <5>1. PICK field \in Fields : f = <<field, FALSE>>
          BY DEF Cleared
        <5> QED
          BY <5>1
      <4> QED
        BY <3>2, <4>1, Zenon DEF Knows
    <3> QED
      BY <1>2, <3>1, <3>2 DEF Passes, Sees, Does
  <2>7. ASSUME r.todo[1].do \in Fields \cup {"gone"}, n = 1, NEW k \in DOMAIN r2.todo
        PROVE  r2.todo[k].do \notin Changes
    BY <2>3, <2>5, <2>7 DEF ScriptInv
  <2>8. r.todo[1].do \in Changes => r.saw = {}
    BY <2>5 DEF RecordInv
  <2>9. r2.saw # {} => \A k \in DOMAIN r2.todo : r2.todo[k].do \notin Changes
    <3>1. CASE Sees(r, r2, facts) \/ Knows(r, r2)
      <4>1. CASE n = 1
        BY <2>7, <3>1, <4>1 DEF Sees, Knows
      <4>2. CASE Passes(r, r2, n)
        BY <2>3, <4>2 DEF Passes, RecordInv
      <4> QED
        BY <1>2, <4>1, <4>2
    <3>2. CASE Passes(r, r2, n) \/ Does(r, r2, facts)
      <4>1. r2.saw \subseteq r.saw
        BY <3>2 DEF Passes, Does
      <4> QED
        BY <2>3, <4>1 DEF RecordInv
    <3> QED
      BY <1>2, <3>1, <3>2
  <2>10. RecordInv(r2)
    BY <2>1, <2>2, <2>3, <2>6, <2>9 DEF RecordInv
  <2>11. Publishes(r2) => Publishes(r) /\ facts \subseteq s2 /\ (r2.did = r.did => s \subseteq s2)
    BY <2>3 DEF Publishes
  <2>12. Publishes(r) => r.saw \subseteq s
    BY DEF SinceInv
  <2>13. r.todo[1].do = "gone" => Cleared \subseteq s
    <3>1. ~\E j \in DOMAIN r.todo : j < 1
      BY <2>4
    <3> QED
      BY <2>5, <3>1 DEF SinceInv
  <2>14. Publishes(r2) => r2.saw \subseteq s2
    <3> SUFFICES ASSUME Publishes(r2) PROVE r2.saw \subseteq s2
      OBVIOUS
    <3>1. CASE Passes(r, r2, n)
      BY <2>11, <2>12, <3>1 DEF Passes
    <3>2. CASE Sees(r, r2, facts)
      BY <2>11, <2>12, <3>2 DEF Sees
    <3>3. CASE Knows(r, r2)
      BY <2>11, <2>13, <3>3 DEF Knows
    <3>4. CASE Does(r, r2, facts)
      BY <2>8, <3>4 DEF Does
    <3> QED
      BY <1>2, <3>1, <3>2, <3>3, <3>4
  <2>15. ASSUME NEW k \in DOMAIN r2.todo, r2.todo[k].do = "gone"
         PROVE  Cleared \subseteq s2 \/ \E j \in DOMAIN r2.todo : j < k /\ r2.todo[j].do = "remove"
    <3>1. k + n \in DOMAIN r.todo /\ r.todo[k + n].do = "gone"
      BY <2>3, <2>15
    <3>2. Publishes(r2)
      BY <2>3, <2>15 DEF ScriptInv, Publishes
    <3>3. CASE Does(r, r2, facts) /\ n = 1
      <4>1. r.todo[1].do = "remove"
        BY <2>3, <2>5, <3>1, <3>3 DEF ScriptInv, Does
      <4> QED
        BY <2>11, <3>2, <3>3, <4>1 DEF Does
    <3>4. CASE r2.did = r.did /\ \A j \in 1..n : r.todo[j].do # "remove"
      <4>1. CASE Cleared \subseteq s
        BY <2>11, <3>2, <3>4, <4>1
      <4>2. ASSUME NEW j \in DOMAIN r.todo, j < k + n, r.todo[j].do = "remove"
            PROVE  \E i \in DOMAIN r2.todo : i < k /\ r2.todo[i].do = "remove"
        <5>1. j > n
          BY <2>4, <3>4, <4>2
        <5>2. j - n \in DOMAIN r2.todo /\ j - n < k /\ (j - n) + n = j
          BY <2>4, <4>2, <5>1
        <5> QED
          BY <2>3, <4>2, <5>2
      <4> QED
        BY <3>1, <4>1, <4>2 DEF SinceInv
    <3>5. CASE (Sees(r, r2, facts) \/ Knows(r, r2)) /\ n = 1
      <4>1. r.todo[1].do # "remove" /\ r2.did = r.did
        BY <3>5 DEF Sees, Knows, Fields
      <4>2. \A j \in 1..n : r.todo[j].do # "remove"
        BY <3>5, <4>1
      <4> QED
        BY <3>4, <4>1, <4>2
    <3> QED
      BY <1>2, <3>3, <3>4, <3>5 DEF Passes
  <2> QED
    BY <2>10, <2>14, <2>15 DEF SinceInv
<1> QED
  BY <1>1, <1>2 DEF Moves, Goes, Rest

-----------------------------------------------------------------------------
(* The operators of module Calls make such steps. *)

\* A call with other fields read or other changes made.
LEMMA Same ==
  ASSUME NEW r, RecordInv(r)
  PROVE  /\ r = With(r, r.saw, r.did)
         /\ \A saw : [r EXCEPT !.saw = saw] = With(r, saw, r.did)
         /\ \A did : [r EXCEPT !.did = did] = With(r, r.saw, did)
<1>1. r = [op |-> r.op, on |-> r.on, arg |-> r.arg, todo |-> r.todo, saw |-> r.saw, did |-> r.did,
           reply |-> r.reply]
  BY DEF RecordInv
<1>2. r = With(r, r.saw, r.did)
  BY <1>1 DEF With
<1>3. ASSUME NEW saw PROVE [r EXCEPT !.saw = saw] = With(r, saw, r.did)
  BY <1>1 DEF With
<1>4. ASSUME NEW did PROVE [r EXCEPT !.did = did] = With(r, r.saw, did)
  BY <1>1 DEF With
<1> QED
  BY <1>2, <1>3, <1>4

\* What is to be done, its first step, and the rest.
LEMMA ToDo ==
  ASSUME NEW r, RecordInv(r), r.todo # <<>>
  PROVE  /\ r.todo \in Seq(Item) /\ Head(r.todo) = r.todo[1] /\ r.todo[1] \in Item
         /\ Tail(r.todo) \in Seq(Item) /\ Rest(r.todo, Tail(r.todo), 1)
         /\ 1 \in DOMAIN r.todo /\ DOMAIN r.todo = 1..Len(r.todo) /\ r.todo[1].on = r.on
<1>1. r.todo \in Seq(Item)
  BY DEF RecordInv, ScriptInv
<1>2. /\ Head(r.todo) = r.todo[1] /\ r.todo[1] \in Item
      /\ Tail(r.todo) \in Seq(Item) /\ Rest(r.todo, Tail(r.todo), 1)
  BY <1>1, TailRest
<1>3. 1 \in DOMAIN r.todo /\ DOMAIN r.todo = 1..Len(r.todo)
  BY <1>2 DEF Rest
<1> QED
  BY <1>1, <1>2, <1>3 DEF RecordInv, ScriptInv

\* Some steps are over, and left with them what was read and changed.
LEMMA LeftGoes ==
  ASSUME NEW r, RecordInv(r), NEW saw, NEW did, NEW q \in Seq(Item), NEW n, Rest(r.todo, q, n)
  PROVE  LET r2 == Left(With(r, saw, did), q) IN
         Goes(r, r2, n) /\ r2.did = did /\ r2.saw \in {saw, {}}
<1> DEFINE r2 == Left(With(r, saw, did), q)
<1>1. r2 = [op |-> r.op, on |-> r.on, arg |-> r.arg, todo |-> q,
            saw |-> IF q = <<>> THEN {} ELSE saw, did |-> did,
            reply |-> IF q = <<>> THEN "Ok" ELSE r.reply]
  BY LeftShape
<1> HIDE DEF r2
<1>2. r2.todo = q /\ r2.saw = (IF q = <<>> THEN {} ELSE saw) /\ r2.did = did
      /\ r2.reply = (IF q = <<>> THEN "Ok" ELSE r.reply)
  BY <1>1
<1>3. Goes(r, r2, n)
  BY <1>1, <1>2 DEF Goes
<1> QED
  BY <1>2, <1>3 DEF r2

\* The same with what was read and changed before.
LEMMA LeftOver ==
  ASSUME NEW r, RecordInv(r), NEW q \in Seq(Item), NEW n, Rest(r.todo, q, n)
  PROVE  LET r2 == Left(r, q) IN
         Goes(r, r2, n) /\ r2.did = r.did /\ r2.saw \subseteq r.saw
<1> DEFINE w == With(r, r.saw, r.did)
           r2 == Left(r, q)
           r3 == Left(w, q)
<1>1. Goes(r, r3, n) /\ r3.did = r.did /\ r3.saw \in {r.saw, {}}
  BY LeftGoes
<1>2. r = w
  BY Same
<1> HIDE DEF w
<1>3. r2 = r3
  BY <1>2, Zenon
<1> HIDE DEF r2, r3
<1>4. Goes(r, r2, n) /\ r2.did = r.did /\ r2.saw \subseteq r.saw
  BY <1>1, <1>3
<1> QED
  BY <1>4 DEF r2

\* A step passes.
LEMMA PassMoves ==
  ASSUME NEW r, RecordInv(r), r.todo # <<>>, r.todo[1].do # "remove", NEW facts
  PROVE  Moves(r, Left(r, Tail(r.todo)), facts)
<1> DEFINE r2 == Left(r, Tail(r.todo))
<1>1. Goes(r, r2, 1) /\ r2.did = r.did /\ r2.saw \subseteq r.saw
  BY ToDo, LeftOver
<1> HIDE DEF r2
<1>2. Passes(r, r2, 1)
  BY <1>1 DEF Passes
<1>3. 1 \in 1..Len(r.todo)
  BY ToDo
<1> QED
  BY <1>1, <1>2, <1>3 DEF Moves, r2

\* A test leaves out the change behind it.
LEMMA SkipMoves ==
  ASSUME NEW r, RecordInv(r), r.todo # <<>>, r.todo[1].do \in {"is_paired", "is_trusted"}, NEW facts
  PROVE  Moves(r, Left(r, Tail(Tail(r.todo))), facts)
<1> DEFINE q == r.todo
           p == Tail(q)
           t == Tail(p)
           r2 == Left(r, t)
<1>1. q \in Seq(Item) /\ p \in Seq(Item) /\ Rest(q, p, 1) /\ DOMAIN q = 1..Len(q) /\ 1 \in 1..Len(q)
  BY ToDo
<1>2. 2 \in DOMAIN q /\ q[2].do \in {"pair", "trust"}
  <2>1. 1 + 1 \in DOMAIN q /\ q[1 + 1].do \in {"pair", "trust"}
    BY <1>1 DEF RecordInv, ScriptInv
  <2>2. 1 + 1 = 2
    OBVIOUS
  <2> QED
    BY <2>1, <2>2
<1> HIDE DEF q, p
<1>3. p # <<>>
  BY <1>1, <1>2 DEF Rest
<1>4. t \in Seq(Item) /\ Rest(p, t, 1)
  BY <1>1, <1>3, TailRest
<1> HIDE DEF t
<1>5. Rest(q, t, 2)
  <2>1. /\ Len(q) \in Nat /\ DOMAIN q = 1..Len(q) /\ Len(p) = Len(q) - 1 /\ 2 \in 1..Len(q)
        /\ Len(t) = Len(p) - 1 /\ DOMAIN t = 1..(Len(p) - 1) /\ (t = <<>> <=> Len(p) = 1)
    BY <1>1, <1>2, <1>4 DEF Rest
  <2>2. Len(t) = Len(q) - 2 /\ DOMAIN t = 1..(Len(q) - 2) /\ (t = <<>> <=> Len(q) = 2)
    BY <2>1
  <2>3. ASSUME NEW k \in 1..(Len(q) - 2) PROVE t[k] = q[k + 2]
    <3>1. k \in 1..(Len(p) - 1) /\ k + 1 \in 1..(Len(q) - 1) /\ (k + 1) + 1 = k + 2
      BY <2>1, <2>3
    <3>2. t[k] = p[k + 1] /\ p[k + 1] = q[(k + 1) + 1]
      BY <1>1, <1>4, <3>1 DEF Rest
    <3> QED
      BY <3>1, <3>2
  <2> QED
    BY <2>1, <2>2, <2>3 DEF Rest
<1>6. Goes(r, r2, 2) /\ r2.did = r.did /\ r2.saw \subseteq r.saw
  BY <1>4, <1>5, LeftOver DEF q
<1> HIDE DEF r2
<1>7. \A k \in 1..2 : r.todo[k].do # "remove"
  <2>1. 1..2 = {1, 2}
    OBVIOUS
  <2> QED
    BY <1>2, <2>1 DEF q
<1>8. Passes(r, r2, 2) /\ 2 \in 1..Len(r.todo)
  BY <1>1, <1>2, <1>6, <1>7 DEF Passes, q
<1> QED
  BY <1>6, <1>8 DEF Moves, r2, t, p, q

\* A field is read, or an error leaves it out.
LEMMA SeeMoves ==
  ASSUME NEW r, RecordInv(r), r.todo # <<>>, NEW field \in Fields, r.todo[1].do = field,
         NEW facts, NEW value, <<field, value>> \in facts
  PROVE  Moves(r, Left([r EXCEPT !.saw = {f \in r.saw : f[1] # field} \cup ({field} \X {value})], Tail(r.todo)),
               facts)
<1> DEFINE saw == {f \in r.saw : f[1] # field} \cup ({field} \X {value})
           r2 == Left([r EXCEPT !.saw = saw], Tail(r.todo))
<1>1. saw \subseteq r.saw \cup facts
  OBVIOUS
<1>2. \A f, g \in saw : f[1] = g[1] => f = g
  <2>1. \A f, g \in r.saw : f[1] = g[1] => f = g
    BY DEF RecordInv
  <2> QED
    BY <2>1
<1> HIDE DEF saw
<1> DEFINE w == With(r, saw, r.did)
           r3 == Left(w, Tail(r.todo))
<1>a. Goes(r, r3, 1) /\ r3.did = r.did /\ r3.saw \in {saw, {}}
  BY ToDo, LeftGoes
<1>b. [r EXCEPT !.saw = saw] = w
  BY Same
<1> HIDE DEF w
<1>c. r2 = r3
  BY <1>b, Zenon
<1> HIDE DEF r2, r3
<1>3. Goes(r, r2, 1) /\ r2.did = r.did /\ r2.saw \in {saw, {}}
  BY <1>a, <1>c
<1>4. Sees(r, r2, facts)
  BY <1>1, <1>2, <1>3 DEF Sees
<1> QED
  BY <1>3, <1>4 DEF Moves, r2, saw

\* A removed device is known to be gone.
LEMMA GoneMoves ==
  ASSUME NEW r, RecordInv(r), r.todo # <<>>, r.todo[1].do = "gone", NEW facts
  PROVE  Moves(r, Left([r EXCEPT !.saw = Cleared], Tail(r.todo)), facts)
<1> DEFINE w == With(r, Cleared, r.did)
           r2 == Left([r EXCEPT !.saw = Cleared], Tail(r.todo))
           r3 == Left(w, Tail(r.todo))
<1>a. Goes(r, r3, 1) /\ r3.did = r.did /\ r3.saw \in {Cleared, {}}
  BY ToDo, LeftGoes
<1>b. [r EXCEPT !.saw = Cleared] = w
  BY Same
<1> HIDE DEF w
<1>c. r2 = r3
  BY <1>b, Zenon
<1> HIDE DEF r2, r3
<1>1. Goes(r, r2, 1) /\ r2.did = r.did /\ r2.saw \in {Cleared, {}}
  BY <1>a, <1>c
<1>2. Knows(r, r2)
  BY <1>1 DEF Knows
<1> QED
  BY <1>1, <1>2 DEF Moves, r2

\* A step changes the device.
LEMMA DoMoves ==
  ASSUME NEW r, RecordInv(r), r.todo # <<>>, r.todo[1].do \in Changes, NEW facts,
         r.todo[1].do = "remove" => Cleared \subseteq facts
  PROVE  Moves(r, Left([r EXCEPT !.did = r.did \cup {<<r.todo[1].do, r.todo[1].on>>}], Tail(r.todo)), facts)
<1> DEFINE did == r.did \cup {<<r.todo[1].do, r.todo[1].on>>}
           r2 == Left([r EXCEPT !.did = did], Tail(r.todo))
<1> HIDE DEF did
<1> DEFINE w == With(r, r.saw, did)
           r3 == Left(w, Tail(r.todo))
<1>a. Goes(r, r3, 1) /\ r3.did = did /\ r3.saw \in {r.saw, {}}
  BY ToDo, LeftGoes
<1>b. [r EXCEPT !.did = did] = w
  BY Same
<1> HIDE DEF w
<1>c. r2 = r3
  BY <1>b, Zenon
<1> HIDE DEF r2, r3
<1>1. Goes(r, r2, 1) /\ r2.did = did /\ r2.saw \in {r.saw, {}}
  BY <1>a, <1>c
<1>2. Does(r, r2, facts)
  BY <1>1 DEF Does
<1> QED
  BY <1>1, <1>2 DEF Moves, r2, did

\* A step fails.
LEMMA MissMoves ==
  ASSUME NEW r, RecordInv(r), r.todo # <<>>, NEW facts
  PROVE  Moves(r, IF r.todo[1].err \in Statuses THEN Ended(r, r.todo[1].err) ELSE Left(r, Behind(r.todo)), facts)
<1>1. CASE r.todo[1].err \in Statuses
  <2> DEFINE r1 == With(r, r.saw, r.did)
             r2 == Ended(r, r.todo[1].err)
             r3 == Ended(r1, r.todo[1].err)
  <2>1. r = r1
    BY Same
  <2>2. r3 = [op |-> r.op, on |-> r.on, arg |-> r.arg, todo |-> <<>>, saw |-> {}, did |-> r.did,
              reply |-> r.todo[1].err]
    BY EndedRecord DEF With
  <2> HIDE DEF r1
  <2>3. r2 = r3
    BY <2>1, Zenon
  <2> HIDE DEF r2, r3
  <2>4. Ends(r, r2)
    BY <1>1, <2>2, <2>3 DEF Ends
  <2> QED
    BY <1>1, <2>4 DEF Moves, r2
<1>2. CASE r.todo[1].err \notin Statuses
  <2> DEFINE q == Behind(r.todo)
             r2 == Left(r, q)
  <2>1. r.todo \in Seq(Item)
    BY ToDo
  <2>2. q \in Seq(Item)
    BY <2>1, BehindRest
  <2>3. PICK n \in 1..Len(r.todo) : Rest(r.todo, q, n) /\ \A k \in 1..n : r.todo[k].err = r.todo[1].err
    BY <2>1, BehindRest
  <2> HIDE DEF q
  <2>4. Goes(r, r2, n) /\ r2.did = r.did /\ r2.saw \subseteq r.saw
    BY <2>2, <2>3, LeftOver
  <2> HIDE DEF r2
  <2>5. \A k \in 1..n : r.todo[k].do # "remove"
    <3>1. n \in Nat /\ 1..n \subseteq DOMAIN r.todo
      BY <2>3 DEF Rest
    <3>2. \A k \in DOMAIN r.todo : r.todo[k].do = "remove" => r.todo[k].err \in Statuses
      BY DEF RecordInv, ScriptInv, Statuses
    <3> QED
      BY <1>2, <2>3, <3>1, <3>2
  <2>6. Passes(r, r2, n)
    BY <2>4, <2>5 DEF Passes
  <2> QED
    BY <1>2, <2>4, <2>6 DEF Moves, r2, q
<1> QED
  BY <1>1, <1>2

-----------------------------------------------------------------------------
(* The devices. *)

FieldNames == {"known", "paired", "trusted", "connected"}

\* A device that BlueZ does not know, or has forgotten.
LEMMA UnknownFields ==
  /\ Unknown \in [FieldNames -> BOOLEAN] /\ [Unknown EXCEPT !.known = TRUE] \in [FieldNames -> BOOLEAN]
  /\ \A field \in Fields : Unknown[field] = FALSE
<1>1. Unknown \in [FieldNames -> BOOLEAN]
  <2>1. DOMAIN Unknown = FieldNames /\ Unknown = [Unknown EXCEPT !.known = Unknown.known]
    BY DEF Unknown, FieldNames
  <2>2. ASSUME NEW field \in FieldNames PROVE Unknown[field] = FALSE
    BY DEF Unknown, FieldNames
  <2> QED
    BY <2>1, <2>2
<1>2. [Unknown EXCEPT !.known = TRUE] \in [FieldNames -> BOOLEAN]
  BY <1>1 DEF FieldNames
<1>3. ASSUME NEW field \in Fields PROVE Unknown[field] = FALSE
  BY DEF Unknown, Fields
<1> QED
  BY <1>1, <1>2, <1>3

\* A field of a device changes.
LEMMA SetKeeps ==
  ASSUME DeviceInv, NEW c \in Callers, Now(c).on \in Addresses, NEW field \in FieldNames, NEW value \in BOOLEAN,
         Set(c, field, value)
  PROVE  device' \in [Addresses -> [FieldNames -> BOOLEAN]]
BY DEF DeviceInv, Set, FieldNames

\* A phone comes or goes.
LEMMA RoamKeeps ==
  ASSUME DeviceInv, NEW a \in Addresses, Roam(a)
  PROVE  device' \in [Addresses -> [FieldNames -> BOOLEAN]]
BY DEF DeviceInv, Roam, FieldNames

\* A device is removed.
LEMMA RemoveKeeps ==
  ASSUME DeviceInv, NEW a \in Addresses, device' = [device EXCEPT ![a] = Unknown]
  PROVE  device' \in [Addresses -> [FieldNames -> BOOLEAN]] /\ Cleared \subseteq Facts'[a]
<1>1. device' \in [Addresses -> [FieldNames -> BOOLEAN]] /\ device'[a] = Unknown
  BY UnknownFields DEF DeviceInv, FieldNames
<1>2. Facts'[a] = {<<field, device'[a][field]>> : field \in Fields}
  BY DEF Facts, Fields
<1>3. ASSUME NEW field \in Fields PROVE <<field, FALSE>> \in Facts'[a]
  BY <1>1, <1>2, UnknownFields
<1> QED
  BY <1>1, <1>3 DEF Cleared

\* What a call may read of its device is one of the facts.
LEMMA FieldIsFact ==
  ASSUME NEW a \in Addresses, NEW field \in Fields, UNCHANGED device
  PROVE  <<field, device[a][field]>> \in Facts'[a]
BY DEF Facts, Fields

-----------------------------------------------------------------------------
(* Each step of the system is one of a call, or leaves the calls alone. *)

Changed(c, facts) == /\ call' = [call EXCEPT ![c] = call'[c]]
                     /\ Moves(call[c], call'[c], facts)

\* A call that has something to do is of a device.
LEMMA AtWork ==
  ASSUME CallsInv, NEW c \in Callers, Busy(c)
  PROVE  /\ RecordInv(call[c]) /\ call[c].todo # <<>> /\ Now(c) = call[c].todo[1]
         /\ Now(c).on = call[c].on /\ call[c].on \in Addresses
<1>1. RecordInv(call[c]) /\ call[c].todo # <<>>
  BY DEF CallsInv, Busy
<1>2. Now(c) = call[c].todo[1] /\ call[c].todo[1] \in Item /\ call[c].todo[1].on = call[c].on
  BY <1>1, ToDo DEF Now
<1>3. call[c].todo[1].on \in Addresses
  BY <1>2 DEF Item
<1> QED
  BY <1>1, <1>2, <1>3

\* One call's record changes.
LEMMA OneChanges ==
  ASSUME CallsInv, NEW c \in Callers, NEW r2, call' = [call EXCEPT ![c] = r2]
  PROVE  call'[c] = r2 /\ call' = [call EXCEPT ![c] = call'[c]]
<1>1. call = [d \in Callers |-> call[d]]
  BY DEF CallsInv
<1>2. call'[c] = r2
  BY <1>1
<1> QED
  BY <1>2

\* The step passes.
LEMMA PassStep ==
  ASSUME CallsInv, NEW c \in Callers, Busy(c), Now(c).do # "remove", Pass(c), NEW facts
  PROVE  Changed(c, facts)
<1>1. call'[c] = Left(call[c], Tail(call[c].todo)) /\ call' = [call EXCEPT ![c] = call'[c]]
  BY OneChanges DEF Pass
<1>2. Moves(call[c], Left(call[c], Tail(call[c].todo)), facts)
  BY AtWork, PassMoves
<1> QED
  BY <1>1, <1>2 DEF Changed

\* A test leaves out the change behind it.
LEMMA SkipStep ==
  ASSUME CallsInv, NEW c \in Callers, Busy(c), Now(c).do \in {"is_paired", "is_trusted"}, Skip(c), NEW facts
  PROVE  Changed(c, facts)
<1>1. call'[c] = Left(call[c], Tail(Tail(call[c].todo))) /\ call' = [call EXCEPT ![c] = call'[c]]
  BY OneChanges DEF Skip
<1>2. Moves(call[c], Left(call[c], Tail(Tail(call[c].todo))), facts)
  BY AtWork, SkipMoves
<1> QED
  BY <1>1, <1>2 DEF Changed

\* The step fails.
LEMMA MissStep ==
  ASSUME CallsInv, NEW c \in Callers, Busy(c), Miss(c), NEW facts
  PROVE  Changed(c, facts)
<1> DEFINE r == call[c]
           r2 == IF r.todo[1].err \in Statuses THEN Ended(r, r.todo[1].err) ELSE Left(r, Behind(r.todo))
<1>1. Moves(r, r2, facts)
  BY AtWork, MissMoves
<1>2. Now(c).err = r.todo[1].err
  BY AtWork
<1>3. call' = [call EXCEPT ![c] = r2]
  BY <1>2, Zenon DEF Miss
<1> HIDE DEF r2
<1>4. call'[c] = r2 /\ call' = [call EXCEPT ![c] = call'[c]]
  BY <1>3, OneChanges
<1> QED
  BY <1>1, <1>4 DEF Changed

\* A field of the device is read.
LEMMA SeeStep ==
  ASSUME CallsInv, NEW c \in Callers, Busy(c), NEW field \in Fields, Now(c).do = field,
         NEW value, See(c, field, {value}), NEW facts, <<field, value>> \in facts
  PROVE  Changed(c, facts)
<1> DEFINE r == call[c]
           r2 == Left([r EXCEPT !.saw = {f \in r.saw : f[1] # field} \cup ({field} \X {value})], Tail(r.todo))
<1>1. Moves(r, r2, facts)
  BY AtWork, SeeMoves
<1>2. call' = [call EXCEPT ![c] = r2]
  BY Zenon DEF See
<1> HIDE DEF r2
<1>3. call'[c] = r2 /\ call' = [call EXCEPT ![c] = call'[c]]
  BY <1>2, OneChanges
<1> QED
  BY <1>1, <1>3 DEF Changed

\* The device is changed.
LEMMA DoStep ==
  ASSUME CallsInv, NEW c \in Callers, Busy(c), Now(c).do \in Changes, Do(c), NEW facts,
         Now(c).do = "remove" => Cleared \subseteq facts
  PROVE  Changed(c, facts)
<1> DEFINE r == call[c]
           r2 == Left([r EXCEPT !.did = r.did \cup {<<r.todo[1].do, r.todo[1].on>>}], Tail(r.todo))
<1>1. Moves(r, r2, facts)
  BY AtWork, DoMoves
<1>2. Now(c) = r.todo[1]
  BY AtWork
<1>3. call' = [call EXCEPT ![c] = r2]
  BY <1>2, Zenon DEF Do
<1> HIDE DEF r2
<1>4. call'[c] = r2 /\ call' = [call EXCEPT ![c] = call'[c]]
  BY <1>3, OneChanges
<1> QED
  BY <1>1, <1>4 DEF Changed

\* The removed device is known to be gone.
LEMMA GoneKeeps ==
  ASSUME CallsInv, NEW c \in Callers, GoneStep(c), NEW facts
  PROVE  Changed(c, facts)
<1> DEFINE r == call[c]
           r2 == Left([r EXCEPT !.saw = Cleared], Tail(r.todo))
<1>1. Busy(c) /\ Now(c).do = "gone"
  BY DEF GoneStep, Due
<1>2. Moves(r, r2, facts)
  BY <1>1, AtWork, GoneMoves
<1>3. call' = [call EXCEPT ![c] = r2]
  BY Zenon DEF GoneStep, Cleared, Fields
<1> HIDE DEF r2
<1>4. call'[c] = r2 /\ call' = [call EXCEPT ![c] = call'[c]]
  BY <1>3, OneChanges
<1> QED
  BY <1>2, <1>4 DEF Changed

\* A call reads, asks or publishes.
LEMMA ReadingMoves ==
  ASSUME CallsInv, NEW c \in Callers, Reading(c), UNCHANGED device
  PROVE  Changed(c, Facts'[call[c].on])
<1> DEFINE facts == Facts'[call[c].on]
<1>1. CASE AdapterStep(c)
  <2>1. Busy(c) /\ Now(c).do # "remove" /\ (Pass(c) \/ Miss(c))
    BY <1>1 DEF AdapterStep, Due, Ask
  <2> HIDE DEF facts
  <2>2. Changed(c, facts)
    BY <2>1, PassStep, MissStep
  <2> QED
    BY <2>2 DEF facts
<1>2. CASE TestStep(c)
  <2>1. Busy(c) /\ Now(c).do \in {"is_paired", "is_trusted"} /\ (Pass(c) \/ Skip(c) \/ Miss(c))
    BY <1>2 DEF TestStep, Due
  <2> HIDE DEF facts
  <2>2. Changed(c, facts)
    BY <2>1, PassStep, SkipStep, MissStep
  <2> QED
    BY <2>2 DEF facts
<1>3. CASE InfoStep(c)
  <2>1. PICK field \in Fields : Due(c, field) /\ ((Dev(c).known /\ See(c, field, {Dev(c)[field]})) \/ Miss(c))
    BY <1>3 DEF InfoStep, Fields
  <2>2. Busy(c) /\ Now(c).do = field
    BY <2>1 DEF Due
  <2>3. Now(c).on = call[c].on /\ call[c].on \in Addresses
    BY <2>2, AtWork
  <2>4. <<field, Dev(c)[field]>> \in facts
    BY <2>3, FieldIsFact DEF Dev
  <2> HIDE DEF facts
  <2>5. Changed(c, facts)
    BY <2>1, <2>2, <2>4, SeeStep, MissStep
  <2> QED
    BY <2>5 DEF facts
<1>4. CASE PublishStep(c)
  <2>1. Busy(c) /\ Now(c).do # "remove" /\ Pass(c)
    BY <1>4 DEF PublishStep, Due
  <2> HIDE DEF facts
  <2>2. Changed(c, facts)
    BY <2>1, PassStep
  <2> QED
    BY <2>2 DEF facts
<1> QED
  BY <1>1, <1>2, <1>3, <1>4 DEF Reading

\* A call changes its device, or BlueZ refuses.
LEMMA ChangeMoves ==
  ASSUME CallsInv, DeviceInv, NEW c \in Callers, ChangeStep(c)
  PROVE  Changed(c, Facts'[call[c].on]) /\ device' \in [Addresses -> [FieldNames -> BOOLEAN]]
<1> DEFINE facts == Facts'[call[c].on]
<1>1. device \in [Addresses -> [FieldNames -> BOOLEAN]]
  BY DEF DeviceInv, FieldNames
<1>2. Busy(c) /\ Now(c).do \in Changes
  BY DEF ChangeStep, Due, Changes
<1>3. Now(c).on = call[c].on /\ call[c].on \in Addresses
  BY <1>2, AtWork
<1>4. ASSUME Do(c), Now(c).do # "remove", NEW field \in FieldNames, NEW value \in BOOLEAN, Set(c, field, value)
      PROVE  Changed(c, facts) /\ device' \in [Addresses -> [FieldNames -> BOOLEAN]]
  <2>1. device' \in [Addresses -> [FieldNames -> BOOLEAN]]
    BY <1>3, <1>4, SetKeeps
  <2> HIDE DEF facts
  <2>2. Changed(c, facts)
    BY <1>2, <1>4, DoStep
  <2> QED
    BY <2>1, <2>2
<1>5. CASE Due(c, "remove") /\ Dev(c).known /\ Do(c) /\ device' = [device EXCEPT ![Now(c).on] = Unknown]
  <2>1. device' \in [Addresses -> [FieldNames -> BOOLEAN]] /\ Cleared \subseteq facts
    BY <1>3, <1>5, RemoveKeeps
  <2> HIDE DEF facts
  <2>2. Changed(c, facts)
    BY <1>2, <1>5, <2>1, DoStep
  <2> QED
    BY <2>1, <2>2 DEF facts
<1>6. CASE Miss(c) /\ UNCHANGED device
  <2> HIDE DEF facts
  <2>1. Changed(c, facts)
    BY <1>2, <1>6, MissStep
  <2> QED
    BY <1>1, <1>6, <2>1 DEF facts
<1>7. ASSUME NEW field \in FieldNames, NEW value \in BOOLEAN, Do(c), Set(c, field, value),
             \E step \in {"trust", "connect", "disconnect", "discover"} : Due(c, step)
      PROVE  Changed(c, facts) /\ device' \in [Addresses -> [FieldNames -> BOOLEAN]]
  <2>1. Now(c).do # "remove"
    BY <1>7 DEF Due
  <2> QED
    BY <1>4, <1>7, <2>1
<1>8. TRUE \in BOOLEAN /\ FALSE \in BOOLEAN /\ {"trusted", "connected", "known"} \subseteq FieldNames
  BY DEF FieldNames
<1>9. CASE \/ Due(c, "trust") /\ Do(c) /\ Set(c, "trusted", TRUE)
           \/ Due(c, "connect") /\ Do(c) /\ Set(c, "connected", TRUE)
           \/ Due(c, "disconnect") /\ Do(c) /\ Set(c, "connected", FALSE)
           \/ Due(c, "discover") /\ Do(c) /\ Set(c, "known", TRUE)
  BY <1>7, <1>8, <1>9
<1> QED
  BY <1>5, <1>6, <1>9 DEF ChangeStep

\* The pairing of a call, with a prompt or without.
LEMMA PairMoves ==
  ASSUME CallsInv, DeviceInv, NEW c \in Callers,
         PairPlain(c) \/ PairEnd(c)
  PROVE  Changed(c, Facts'[call[c].on]) /\ device' \in [Addresses -> [FieldNames -> BOOLEAN]]
<1> DEFINE facts == Facts'[call[c].on]
<1>1. device \in [Addresses -> [FieldNames -> BOOLEAN]]
  BY DEF DeviceInv, FieldNames
<1>2. Busy(c) /\ Now(c).do = "pair" /\ Now(c).do \in Changes
  BY DEF PairPlain, PairEnd, Due, Changes
<1>3. Now(c).on = call[c].on /\ call[c].on \in Addresses
  BY <1>2, AtWork
<1>4. CASE Do(c) /\ Set(c, "paired", TRUE)
  <2>1. device' \in [Addresses -> [FieldNames -> BOOLEAN]]
    BY <1>3, <1>4, SetKeeps DEF FieldNames
  <2> HIDE DEF facts
  <2>2. Changed(c, facts)
    BY <1>2, <1>4, DoStep
  <2> QED
    BY <2>1, <2>2 DEF facts
<1>5. CASE Miss(c) /\ UNCHANGED device
  <2> HIDE DEF facts
  <2>1. Changed(c, facts)
    BY <1>2, <1>5, MissStep
  <2> QED
    BY <1>1, <1>5, <2>1 DEF facts
<1> QED
  BY <1>4, <1>5 DEF PairPlain, PairEnd

\* A step of a call.
LEMMA StepMoves ==
  ASSUME CallsInv, DeviceInv, NEW c \in Callers, CallStep(c)
  PROVE  DeviceInv' /\ (Changed(c, Facts'[call[c].on]) \/ UNCHANGED <<call, device>>)
<1>1. device \in [Addresses -> [FieldNames -> BOOLEAN]] /\ pairing \in [Callers -> Prompts \cup {NoPrompt}]
  BY DEF DeviceInv, FieldNames
<1>2. ASSUME device' \in [Addresses -> [FieldNames -> BOOLEAN]], pairing' \in [Callers -> Prompts \cup {NoPrompt}]
      PROVE  DeviceInv'
  BY <1>2 DEF DeviceInv, FieldNames
<1>3. CASE (Reading(c) \/ GoneStep(c)) /\ Still
  <2>1. UNCHANGED <<device, pairing>>
    BY <1>3 DEF Still, deviceVars
  <2>2. Changed(c, Facts'[call[c].on])
    BY <1>3, <2>1, ReadingMoves, GoneKeeps
  <2> QED
    BY <1>1, <1>2, <2>1, <2>2
<1>4. CASE (PairPlain(c) \/ ChangeStep(c)) /\ UNCHANGED <<vars, pairing>>
  BY <1>1, <1>2, <1>4, PairMoves, ChangeMoves
<1>5. CASE PairEnd(c) /\ UNCHANGED vars
  <2>1. pairing' \in [Callers -> Prompts \cup {NoPrompt}]
    BY <1>1, <1>5 DEF PairEnd
  <2> QED
    BY <1>2, <1>5, <2>1, PairMoves
<1>6. CASE PairBegin(c)
  <2>1. pairing' \in [Callers -> Prompts \cup {NoPrompt}] /\ UNCHANGED <<call, device>>
    BY <1>1, <1>6 DEF PairBegin
  <2> QED
    BY <1>1, <1>2, <2>1
<1> QED
  BY <1>3, <1>4, <1>5, <1>6 DEF CallStep

-----------------------------------------------------------------------------
(* The calls as they begin. *)

AllKinds == Changes \cup Fields \cup Others

\* The script of a call on a that begins: what is known to be gone is removed first.
Whole(q, a) ==
  /\ ScriptInv(q, a) /\ q # <<>>
  /\ \A k \in DOMAIN q : q[k].do = "gone" => \E j \in DOMAIN q : j < k /\ q[j].do = "remove"

\* The steps of Try.
LEMMA TryItems ==
  ASSUME NEW steps \in Seq(AllKinds), NEW a \in Addresses, NEW err \in {"Internal", "event"}
  PROVE  LET q == Try(steps, a, err) IN
         /\ q \in Seq(Item) /\ Len(q) = Len(steps) /\ DOMAIN q = 1..Len(steps)
         /\ \A k \in 1..Len(steps) : q[k].do = steps[k] /\ q[k].on = a /\ q[k].err = err
<1>1. Len(steps) \in Nat /\ DOMAIN steps = 1..Len(steps) /\ \A k \in 1..Len(steps) : steps[k] \in AllKinds
  OBVIOUS
<1>2. Try(steps, a, err) = [k \in 1..Len(steps) |-> [do |-> steps[k], on |-> a, err |-> err]]
  BY <1>1 DEF Try
<1>3. \A k \in 1..Len(steps) : [do |-> steps[k], on |-> a, err |-> err] \in Item
  BY <1>1 DEF Item, AllKinds
<1>4. Try(steps, a, err) \in [1..Len(steps) -> Item]
  BY <1>2, <1>3
<1>5. Try(steps, a, err) \in Seq(Item) /\ Len(Try(steps, a, err)) = Len(steps)
  BY <1>1, <1>4
<1> QED
  BY <1>1, <1>2, <1>4, <1>5

\* The event at the end of a call.
LEMMA InfoItems ==
  ASSUME NEW a \in Addresses
  PROVE  LET e == PublishInfo(a) IN
         /\ e \in Seq(Item) /\ Len(e) = 4 /\ \A k \in 1..4 : e[k].on = a /\ e[k].do \in Fields \cup {"publish"}
<1> DEFINE steps == <<"paired", "trusted", "connected", "publish">>
<1>1. {"paired", "trusted", "connected", "publish"} \subseteq AllKinds
  BY DEF AllKinds, Fields, Others
<1>2. /\ steps \in Seq(AllKinds) /\ Len(steps) = 4 /\ steps[1] = "paired" /\ steps[2] = "trusted"
      /\ steps[3] = "connected" /\ steps[4] = "publish"
  BY <1>1, FourItems
<1> HIDE DEF steps
<1>3. \A k \in 1..4 : steps[k] \in Fields \cup {"publish"}
  <2>1. 1..4 = {1, 2, 3, 4}
    OBVIOUS
  <2> QED
    BY <1>2, <2>1 DEF Fields
<1> DEFINE e == Try(steps, a, "event")
<1>4. e \in Seq(Item) /\ Len(e) = Len(steps) /\ \A k \in 1..Len(steps) : e[k].do = steps[k] /\ e[k].on = a
  BY <1>2, TryItems
<1>5. e = PublishInfo(a)
  BY DEF PublishInfo, steps
<1> HIDE DEF e
<1> QED
  BY <1>2, <1>3, <1>4, <1>5

\* A script that ends with the event.
LEMMA WithInfo ==
  ASSUME NEW a \in Addresses, NEW p \in Seq(Item),
         \A k \in 1..Len(p) : p[k].on = a /\ p[k].do \notin Fields \cup {"gone", "remove"},
         \A k \in 1..Len(p) : p[k].do \in {"is_paired", "is_trusted"} =>
           k + 1 \in 1..Len(p) /\ p[k + 1].do \in {"pair", "trust"}
  PROVE  Whole(p \o PublishInfo(a), a)
<1> DEFINE e == PublishInfo(a)
           q == p \o e
<1>1. e \in Seq(Item) /\ Len(e) = 4 /\ \A k \in 1..4 : e[k].on = a /\ e[k].do \in Fields \cup {"publish"}
  BY InfoItems
<1> HIDE DEF e
<1>2. PICK n \in Nat : Len(p) = n /\ DOMAIN p = 1..n
  OBVIOUS
<1>3. /\ q \in Seq(Item) /\ Len(q) = n + 4 /\ DOMAIN q = 1..(n + 4)
      /\ \A k \in 1..n : q[k] = p[k]
      /\ \A k \in (n + 1)..(n + 4) : q[k] = e[k - n]
  <2>1. /\ q \in Seq(Item) /\ Len(q) = n + 4
        /\ \A k \in 1..(n + 4) : q[k] = IF k <= n THEN p[k] ELSE e[k - n]
    <3>1. /\ q \in Seq(Item) /\ Len(q) = Len(p) + Len(e)
          /\ \A k \in 1..(Len(p) + Len(e)) : q[k] = IF k <= Len(p) THEN p[k] ELSE e[k - Len(p)]
      <4>1. e \in Seq(Item)
        BY <1>1
      <4> QED
        BY <4>1, Concat
    <3> HIDE DEF q
    <3> QED
      BY <1>1, <1>2, <3>1
  <2> HIDE DEF q
  <2>2. DOMAIN q = 1..(n + 4)
    BY <2>1
  <2>3. \A k \in 1..n : k \in 1..(n + 4) /\ k <= n
    BY <1>2
  <2>4. \A k \in (n + 1)..(n + 4) : k \in 1..(n + 4) /\ ~(k <= n)
    BY <1>2
  <2> QED
    BY <2>1, <2>2, <2>3, <2>4
<1> HIDE DEF q
<1>4. \A k \in DOMAIN q : k \in 1..n \/ (k > n /\ k - n \in 1..4 /\ q[k] = e[k - n])
  BY <1>2, <1>3
<1>5. \A k \in DOMAIN q : q[k].on = a /\ q[k].do \notin {"gone", "remove"}
  <2>1. \A do \in Fields \cup {"publish"} : do \notin {"gone", "remove"}
    BY DEF Fields
  <2>2. ASSUME NEW k \in 1..n PROVE q[k].on = a /\ q[k].do \notin {"gone", "remove"}
    BY <1>2, <1>3
  <2>3. ASSUME NEW k \in DOMAIN q, k - n \in 1..4, q[k] = e[k - n]
        PROVE  q[k].on = a /\ q[k].do \notin {"gone", "remove"}
    BY <1>1, <2>1, <2>3
  <2> QED
    BY <1>4, <2>2, <2>3
<1>6. \A k \in DOMAIN q : k > n => q[k].do \in Fields \cup {"publish"}
  <2>1. \A k \in DOMAIN q : k > n => k \notin 1..n
    BY <1>2
  <2> QED
    BY <1>1, <1>4, <2>1
<1>7. \A k \in DOMAIN q : q[k].do \in Fields => k > n
  BY <1>2, <1>3, <1>4
<1>8. \A j, k \in DOMAIN q : j < k /\ q[j].do \in Fields \cup {"gone"} => q[k].do \notin Changes
  <2> SUFFICES ASSUME NEW j \in DOMAIN q, NEW k \in DOMAIN q, j < k, q[j].do \in Fields \cup {"gone"}
               PROVE  q[k].do \notin Changes
    OBVIOUS
  <2>1. j > n
    BY <1>5, <1>7
  <2>2. k > n
    BY <1>2, <1>3, <2>1
  <2>3. q[k].do \in Fields \cup {"publish"}
    BY <1>6, <2>2
  <2> QED
    BY <2>3 DEF Fields, Changes
<1>9. ASSUME NEW k \in DOMAIN q, q[k].do \in {"is_paired", "is_trusted"}
      PROVE  k + 1 \in DOMAIN q /\ q[k + 1].do \in {"pair", "trust"}
  <2>1. q[k].do \notin Fields \cup {"publish"}
    BY <1>9 DEF Fields
  <2>2. k \in 1..n
    BY <1>4, <1>6, <2>1
  <2>3. k + 1 \in 1..n /\ p[k + 1].do \in {"pair", "trust"}
    BY <1>2, <1>3, <1>9, <2>2
  <2> QED
    BY <1>2, <1>3, <2>3
<1>10. q # <<>>
  BY <1>2, <1>3, Empty
<1>11. ScriptInv(q, a)
  BY <1>3, <1>5, <1>8, <1>9 DEF ScriptInv
<1>12. Whole(q, a)
  BY <1>5, <1>10, <1>11 DEF Whole
<1> QED
  BY <1>12 DEF q, e

\* Steps of an operation, with the event behind them.
LEMMA StepsWithInfo ==
  ASSUME NEW a \in Addresses, NEW steps \in Seq(AllKinds \ (Fields \cup {"gone", "remove"})),
         \A k \in 1..Len(steps) : steps[k] \in {"is_paired", "is_trusted"} =>
           k + 1 \in 1..Len(steps) /\ steps[k + 1] \in {"pair", "trust"}
  PROVE  Whole(Try(steps, a, "Internal") \o PublishInfo(a), a)
<1> DEFINE p == Try(steps, a, "Internal")
<1>1. steps \in Seq(AllKinds) /\ \A k \in 1..Len(steps) : steps[k] \notin Fields \cup {"gone", "remove"}
  OBVIOUS
<1>2. p \in Seq(Item) /\ Len(p) = Len(steps) /\ \A k \in 1..Len(steps) : p[k].do = steps[k] /\ p[k].on = a
  BY <1>1, TryItems
<1> HIDE DEF p
<1>3. \A k \in 1..Len(p) : p[k].on = a /\ p[k].do \notin Fields \cup {"gone", "remove"}
  BY <1>1, <1>2
<1>4. \A k \in 1..Len(p) : p[k].do \in {"is_paired", "is_trusted"} =>
        k + 1 \in 1..Len(p) /\ p[k + 1].do \in {"pair", "trust"}
  BY <1>2
<1>5. Whole(p \o PublishInfo(a), a)
  BY <1>2, <1>3, <1>4, WithInfo
<1> QED
  BY <1>5 DEF p

\* Pair and connect.
LEMMA TrustingItems ==
  LET S == AllKinds \ (Fields \cup {"gone", "remove"}) IN
  /\ Trusting \in Seq(S) /\ Len(Trusting) = 5 /\ Trusting[1] = "adapter" /\ Trusting[2] = "is_paired"
  /\ Trusting[3] = "pair" /\ Trusting[4] = "is_trusted" /\ Trusting[5] = "trust"
<1> DEFINE S == AllKinds \ (Fields \cup {"gone", "remove"})
<1>1. {"adapter", "is_paired", "pair", "is_trusted", "trust"} \subseteq S
  BY DEF AllKinds, Fields, Others, Changes
<1> HIDE DEF S
<1>2. /\ Trusting \in Seq(S) /\ Len(Trusting) = 5 /\ Trusting[1] = "adapter" /\ Trusting[2] = "is_paired"
      /\ Trusting[3] = "pair" /\ Trusting[4] = "is_trusted" /\ Trusting[5] = "trust"
  BY <1>1 DEF Trusting
<1> QED
  BY <1>2 DEF S

\* The calls that publish what they read.
LEMMA InfoScripts ==
  ASSUME NEW a \in Addresses
  PROVE  Whole(Pair(a), a) /\ Whole(Connect(a), a) /\ Whole(Disconnect(a), a)
<1> DEFINE S == AllKinds \ (Fields \cup {"gone", "remove"})
           tests == {"is_paired", "is_trusted"}
<1>1. /\ Trusting \in Seq(S) /\ Len(Trusting) = 5 /\ Trusting[1] = "adapter" /\ Trusting[2] = "is_paired"
      /\ Trusting[3] = "pair" /\ Trusting[4] = "is_trusted" /\ Trusting[5] = "trust"
  BY TrustingItems
<1>2. {"adapter", "connect", "disconnect"} \subseteq S
  BY DEF AllKinds, Fields, Others, Changes
<1> DEFINE connecting == Append(Trusting, "connect")
           disconnecting == <<"adapter", "disconnect">>
<1> HIDE DEF S
<1>3. \A k \in 1..5 : Trusting[k] \in tests => k + 1 \in 1..5 /\ Trusting[k + 1] \in {"pair", "trust"}
  <2>1. 1..5 = {1, 2, 3, 4, 5} /\ 2 + 1 = 3 /\ 4 + 1 = 5
    OBVIOUS
  <2> QED
    BY <1>1, <2>1
<1>4. /\ connecting \in Seq(S) /\ Len(connecting) = 6 /\ connecting[6] = "connect"
      /\ \A k \in 1..5 : connecting[k] = Trusting[k]
  <2>1. Trusting \in Seq(S) /\ Len(Trusting) = 5
    BY <1>1
  <2> HIDE DEF S
  <2>2. /\ connecting \in Seq(S) /\ Len(connecting) = Len(Trusting) + 1
        /\ connecting[Len(Trusting) + 1] = "connect"
        /\ \A k \in 1..Len(Trusting) : connecting[k] = Trusting[k]
    <3>1. "connect" \in S
      BY <1>2
    <3>2. ASSUME NEW p \in Seq(S), NEW x \in S
          PROVE  /\ Append(p, x) \in Seq(S) /\ Len(Append(p, x)) = Len(p) + 1 /\ Append(p, x)[Len(p) + 1] = x
                 /\ \A k \in 1..Len(p) : Append(p, x)[k] = p[k]
      OBVIOUS
    <3> DEFINE t == Trusting
               x == "connect"
    <3>3. t \in Seq(S) /\ x \in S
      BY <2>1, <3>1
    <3> HIDE DEF t, x
    <3>4. /\ Append(t, x) \in Seq(S) /\ Len(Append(t, x)) = Len(t) + 1 /\ Append(t, x)[Len(t) + 1] = x
          /\ \A k \in 1..Len(t) : Append(t, x)[k] = t[k]
      BY <3>2, <3>3
    <3> QED
      BY <3>4 DEF t, x
  <2> HIDE DEF connecting
  <2> QED
    BY <2>1, <2>2
<1> HIDE DEF connecting
<1>5. \A k \in 1..6 : connecting[k] \in tests => k + 1 \in 1..6 /\ connecting[k + 1] \in {"pair", "trust"}
  <2>1. \A k \in 1..6 : k = 6 \/ k \in 1..5
    OBVIOUS
  <2>2. \A k \in 1..5 : k + 1 \in 1..5 => k + 1 \in 1..6
    OBVIOUS
  <2>3. connecting[6] \notin tests
    BY <1>4
  <2>4. ASSUME NEW k \in 1..5, connecting[k] \in tests
        PROVE  k + 1 \in 1..6 /\ connecting[k + 1] \in {"pair", "trust"}
    <3>1. k + 1 \in 1..5 /\ Trusting[k + 1] \in {"pair", "trust"}
      BY <1>3, <1>4, <2>4, Zenon
    <3> QED
      BY <1>4, <2>2, <3>1, Zenon
  <2> QED
    BY <2>1, <2>3, <2>4, Zenon
<1>6. /\ disconnecting \in Seq(S) /\ Len(disconnecting) = 2
      /\ disconnecting[1] = "adapter" /\ disconnecting[2] = "disconnect"
  BY <1>2, TwoItems
<1> HIDE DEF disconnecting
<1>7. \A k \in 1..2 : disconnecting[k] \notin tests
  <2>1. 1..2 = {1, 2}
    OBVIOUS
  <2> QED
    BY <1>6, <2>1
<1>8. Whole(Pair(a), a)
  BY <1>1, <1>3, StepsWithInfo DEF Pair, S
<1>9. Whole(Connect(a), a)
  BY <1>4, <1>5, StepsWithInfo DEF Connect, S, connecting
<1>10. Whole(Disconnect(a), a)
  BY <1>6, <1>7, StepsWithInfo DEF Disconnect, S, disconnecting
<1> QED
  BY <1>8, <1>9, <1>10

\* The removal.
LEMMA RemoveScript == ASSUME NEW a \in Addresses PROVE Whole(Remove(a), a)
<1> DEFINE steps == <<"adapter", "remove", "gone", "publish">>
<1>1. {"adapter", "remove", "gone", "publish"} \subseteq AllKinds
  BY DEF AllKinds, Fields, Others, Changes
<1>2. /\ steps \in Seq(AllKinds) /\ Len(steps) = 4 /\ steps[1] = "adapter" /\ steps[2] = "remove"
      /\ steps[3] = "gone" /\ steps[4] = "publish"
  BY <1>1, FourItems
<1> HIDE DEF steps
<1> DEFINE q == Try(steps, a, "Internal")
<1>3. /\ q \in Seq(Item) /\ Len(q) = 4 /\ DOMAIN q = 1..4
      /\ \A k \in 1..4 : q[k].do = steps[k] /\ q[k].on = a /\ q[k].err = "Internal"
  BY <1>2, TryItems
<1> HIDE DEF q
<1>4. /\ DOMAIN q = {1, 2, 3, 4} /\ q[1].do = "adapter" /\ q[2].do = "remove" /\ q[3].do = "gone"
      /\ q[4].do = "publish"
  BY <1>2, <1>3
<1>5. \A j, k \in DOMAIN q : j < k /\ q[j].do \in Fields \cup {"gone"} => q[k].do \notin Changes
  <2>1. \A k \in DOMAIN q : 3 < k => k = 4
    BY <1>4
  <2>2. \A j \in DOMAIN q : q[j].do \in Fields \cup {"gone"} => j = 3
    BY <1>4 DEF Fields
  <2> QED
    BY <1>4, <2>1, <2>2 DEF Changes
<1>6. \A k \in DOMAIN q : q[k].do \notin {"is_paired", "is_trusted"}
  BY <1>4
<1>7. \A k \in DOMAIN q : q[k].do = "gone" => k = 3
  BY <1>4
<1>8. 3 < 4 /\ 2 < 3
  OBVIOUS
<1>9. \A j \in DOMAIN q : j < 3 => q[j].do \notin Changes \ {"remove"}
  <2>1. \A j \in DOMAIN q : j < 3 => j = 1 \/ j = 2
    BY <1>4
  <2> QED
    BY <1>4, <2>1 DEF Changes
<1>10. q # <<>>
  <2>1. Len(q) # 0
    BY <1>3
  <2> QED
    BY <1>3, <2>1, Empty, Zenon
<1>11. \A j, k \in DOMAIN q : j < k /\ q[k].do = "gone" => q[j].do \notin Changes \ {"remove"}
  BY <1>7, <1>9
<1>12. \A k \in DOMAIN q : q[k].do = "gone" => \E m \in DOMAIN q : k < m /\ q[m].do = "publish"
  BY <1>4, <1>7, <1>8
<1>13. ScriptInv(q, a)
  BY <1>3, <1>5, <1>6, <1>11, <1>12 DEF ScriptInv
<1>14. \A k \in DOMAIN q : q[k].do = "gone" => \E j \in DOMAIN q : j < k /\ q[j].do = "remove"
  BY <1>4, <1>7, <1>8
<1>15. Whole(q, a)
  BY <1>10, <1>13, <1>14 DEF Whole
<1> QED
  BY <1>15 DEF Remove, q, steps

\* The calls that publish nothing.
LEMMA QuietScripts == ASSUME NEW a \in Addresses PROVE Whole(ListDevices(a), a) /\ Whole(Scan(a), a)
<1> DEFINE S == {"adapter", "list", "discover"}
<1>1. ASSUME NEW steps \in Seq(S), steps # <<>> PROVE Whole(Try(steps, a, "Internal"), a)
  <2>1. steps \in Seq(AllKinds)
    <3>1. S \subseteq AllKinds
      BY DEF AllKinds, Fields, Others, Changes
    <3> HIDE DEF S
    <3> QED
      BY <1>1, <3>1
  <2> DEFINE q == Try(steps, a, "Internal")
  <2>2. /\ q \in Seq(Item) /\ Len(q) = Len(steps) /\ DOMAIN q = 1..Len(steps)
        /\ \A k \in 1..Len(steps) : q[k].do = steps[k] /\ q[k].on = a
    BY <2>1, TryItems
  <2> HIDE DEF q
  <2>3. \A k \in 1..Len(steps) : steps[k] \in S
    BY <1>1
  <2>4. \A k \in DOMAIN q : q[k].do \in S /\ q[k].on = a
    BY <2>2, <2>3
  <2>5. \A do \in S : do \notin Fields \cup {"gone", "is_paired", "is_trusted", "remove"}
    BY DEF Fields
  <2>6. q # <<>>
    BY <1>1, <2>2, Empty
  <2> HIDE DEF S
  <2>7. \A k \in DOMAIN q : q[k].do \notin Fields \cup {"gone", "is_paired", "is_trusted", "remove"}
    BY <2>4, <2>5
  <2>8. ScriptInv(q, a)
    BY <2>2, <2>4, <2>7 DEF ScriptInv
  <2>9. Whole(q, a)
    BY <2>6, <2>7, <2>8 DEF Whole
  <2> QED
    BY <2>9 DEF q
<1>2. <<"adapter", "list">> \in Seq(S) /\ <<"adapter", "list">> # <<>>
  OBVIOUS
<1>3. <<"adapter", "discover", "list">> \in Seq(S) /\ <<"adapter", "discover", "list">> # <<>>
  OBVIOUS
<1> HIDE DEF S
<1> QED
  BY <1>1, <1>2, <1>3 DEF ListDevices, Scan

\* A call of a whole script.
LEMMA NewKeeps ==
  ASSUME NEW op, NEW a \in Addresses, NEW q, NEW s, Whole(q, a)
  PROVE  RecordInv(New(op, a, 0, q)) /\ SinceInv(New(op, a, 0, q), s)
<1> DEFINE r == New(op, a, 0, q)
<1>1. /\ r = [op |-> r.op, on |-> r.on, arg |-> r.arg, todo |-> r.todo, saw |-> r.saw, did |-> r.did,
              reply |-> r.reply]
      /\ r.todo = q /\ r.on = a /\ r.saw = {} /\ r.reply = "none"
  BY DEF New
<1> HIDE DEF r
<1>2. RecordInv(r)
  BY <1>1 DEF RecordInv, Whole
<1>3. SinceInv(r, s)
  BY <1>1 DEF SinceInv, Whole
<1> QED
  BY <1>2, <1>3 DEF r

\* A caller asks.
LEMMA CallBegins ==
  ASSUME CallsInv, NEW c \in Callers, Call(c), NEW s
  PROVE  call' = [call EXCEPT ![c] = call'[c]] /\ RecordInv(call'[c]) /\ SinceInv(call'[c], s)
<1>1. ASSUME NEW op, NEW a \in Addresses, NEW q, Whole(q, a), Begin(c, op, a, 0, q)
      PROVE  call' = [call EXCEPT ![c] = call'[c]] /\ RecordInv(call'[c]) /\ SinceInv(call'[c], s)
  <2> DEFINE r == New(op, a, 0, q)
  <2>1. q # <<>>
    BY <1>1 DEF Whole
  <2>2. Left([NoCall EXCEPT !.op = op, !.on = a, !.arg = 0], q) = r
    BY <2>1, BeginShape
  <2>3. RecordInv(r) /\ SinceInv(r, s)
    BY <1>1, NewKeeps
  <2> HIDE DEF r
  <2>4. call' = [call EXCEPT ![c] = r]
    BY <1>1, <2>2, Zenon DEF Begin
  <2>5. call'[c] = r /\ call' = [call EXCEPT ![c] = call'[c]]
    BY <2>4, OneChanges
  <2> QED
    BY <2>3, <2>5
<1>2. PICK a \in Addresses :
        \/ Begin(c, "pair", a, 0, Pair(a)) \/ Begin(c, "connect", a, 0, Connect(a))
        \/ Begin(c, "disconnect", a, 0, Disconnect(a)) \/ Begin(c, "remove", a, 0, Remove(a))
        \/ Begin(c, "list", a, 0, ListDevices(a)) \/ Begin(c, "scan", a, 0, Scan(a))
  BY DEF Call
<1>3. /\ Whole(Pair(a), a) /\ Whole(Connect(a), a) /\ Whole(Disconnect(a), a) /\ Whole(Remove(a), a)
      /\ Whole(ListDevices(a), a) /\ Whole(Scan(a), a)
  BY InfoScripts, RemoveScript, QuietScripts
<1> QED
  BY <1>1, <1>2, <1>3

-----------------------------------------------------------------------------
(* The invariant. *)

\* What a call has read stays true of the time since its last change, while
\* others make their steps.
LEMMA Stays ==
  ASSUME NEW r, NEW s, NEW facts, NEW s2, RecordInv(r), SinceInv(r, s),
         s2 = IF ~Publishes(r) THEN {} ELSE s \cup facts
  PROVE  SinceInv(r, s2)
<1>1. CASE Publishes(r)
  <2>1. s \subseteq s2
    BY <1>1
  <2>2. r.saw \subseteq s2
    BY <1>1, <2>1 DEF SinceInv
  <2>3. \A k \in DOMAIN r.todo : r.todo[k].do = "gone" =>
          Cleared \subseteq s2 \/ \E j \in DOMAIN r.todo : j < k /\ r.todo[j].do = "remove"
    BY <2>1 DEF SinceInv
  <2> QED
    BY <2>2, <2>3 DEF SinceInv
<1>2. CASE ~Publishes(r)
  <2>1. \A k \in DOMAIN r.todo : r.todo[k].do # "gone"
    BY <1>2 DEF Publishes, RecordInv, ScriptInv
  <2> QED
    BY <1>2, <2>1 DEF SinceInv
<1> QED
  BY <1>1, <1>2

\* since after a step, for one caller.
LEMMA Followed ==
  ASSUME Follow(Facts'), NEW d \in Callers
  PROVE  since'[d] = IF ~Publishes(call'[d]) THEN {}
                     ELSE (IF call'[d].did # call[d].did THEN {} ELSE since[d]) \cup Facts'[call'[d].on]
BY DEF Follow

\* One call makes its step, or none does.
LEMMA OneKeeps ==
  ASSUME CallsInv, Follow(Facts'),
         UNCHANGED call \/ \E c \in Callers :
           call' = [call EXCEPT ![c] = call'[c]] /\ RecordInv(call'[c]) /\ SinceInv(call'[c], since'[c])
  PROVE  CallsInv'
<1>1. call = [d \in Callers |-> call[d]] /\ \A d \in Callers : RecordInv(call[d]) /\ SinceInv(call[d], since[d])
  BY DEF CallsInv
<1>2. call' = [d \in Callers |-> call'[d]]
  BY <1>1
<1>3. ASSUME NEW d \in Callers, call'[d] = call[d]
      PROVE  RecordInv(call'[d]) /\ SinceInv(call'[d], since'[d])
  <2> DEFINE r == call[d]
             facts == Facts'[call'[d].on]
             s2 == since'[d]
  <2>1. s2 = IF ~Publishes(call'[d]) THEN {}
             ELSE (IF call'[d].did # call[d].did THEN {} ELSE since[d]) \cup facts
    BY Followed
  <2> HIDE DEF facts, s2
  <2>2. s2 = IF ~Publishes(r) THEN {} ELSE since[d] \cup facts
    BY <1>3, <2>1
  <2>3. RecordInv(r) /\ SinceInv(r, since[d])
    BY <1>1
  <2> HIDE DEF r
  <2>4. SinceInv(r, s2)
    BY <2>2, <2>3, Stays
  <2> QED
    BY <1>3, <2>3, <2>4 DEF r, s2
<1>4. ASSUME NEW d \in Callers PROVE RecordInv(call'[d]) /\ SinceInv(call'[d], since'[d])
  <2>1. CASE UNCHANGED call
    BY <1>3, <2>1
  <2>2. ASSUME NEW c \in Callers, call' = [call EXCEPT ![c] = call'[c]], RecordInv(call'[c]),
               SinceInv(call'[c], since'[c])
        PROVE  RecordInv(call'[d]) /\ SinceInv(call'[d], since'[d])
    <3>1. CASE d = c
      BY <2>2, <3>1
    <3>2. CASE d # c
      <4>1. call'[d] = call[d]
        BY <1>1, <2>2, <3>2
      <4> QED
        BY <1>3, <4>1
    <3> QED
      BY <3>1, <3>2
  <2> QED
    BY <2>1, <2>2
<1> QED
  BY <1>2, <1>4 DEF CallsInv

\* A step of a call, with the history after it.
LEMMA ChangedKeeps ==
  ASSUME CallsInv, Follow(Facts'), NEW c \in Callers, Changed(c, Facts'[call[c].on])
  PROVE  RecordInv(call'[c]) /\ SinceInv(call'[c], since'[c])
<1> DEFINE r == call[c]
           r2 == call'[c]
           facts == Facts'[call[c].on]
           s2 == since'[c]
<1>1. s2 = IF ~Publishes(r2) THEN {}
           ELSE (IF r2.did # r.did THEN {} ELSE since[c]) \cup Facts'[r2.on]
  BY Followed
<1>2. RecordInv(r) /\ SinceInv(r, since[c]) /\ Moves(r, r2, facts)
  BY DEF CallsInv, Changed
<1>3. r2.on = r.on
  <2> HIDE DEF r, r2, facts
  <2> QED
    BY <1>2 DEF Moves, Ends, Goes
<1>4. s2 = IF ~Publishes(r2) THEN {} ELSE (IF r2.did # r.did THEN {} ELSE since[c]) \cup facts
  BY <1>1, <1>3
<1> HIDE DEF r, r2, facts, s2
<1>5. RecordInv(r2) /\ SinceInv(r2, s2)
  BY <1>2, <1>4, MovesKeep
<1> QED
  BY <1>5 DEF r2, s2

\* Initially.
LEMMA BtInvInit == BtInit => BtInv
<1> SUFFICES ASSUME BtInit PROVE BtInv
  OBVIOUS
<1>1. IInv
  BY InvInit DEF BtInit
<1>2. DeviceInv
  BY UnknownFields DEF BtInit, DeviceInv, FieldNames
<1>3. RecordInv(NoCall) /\ SinceInv(NoCall, {})
  <2>1. /\ NoCall = [op |-> NoCall.op, on |-> NoCall.on, arg |-> NoCall.arg, todo |-> NoCall.todo,
                     saw |-> NoCall.saw, did |-> NoCall.did, reply |-> NoCall.reply]
        /\ NoCall.todo = <<>> /\ NoCall.saw = {} /\ NoCall.reply = "none"
    BY DEF NoCall
  <2>2. <<>> \in Seq(Item) /\ DOMAIN <<>> = {}
    OBVIOUS
  <2> QED
    BY <2>1, <2>2 DEF RecordInv, ScriptInv, SinceInv
<1>4. CallsInv
  <2>1. call = [c \in Callers |-> NoCall] /\ since = [c \in Callers |-> {}]
    BY DEF BtInit, CallsInit
  <2>2. \A c \in Callers : call[c] = NoCall /\ since[c] = {}
    BY <2>1
  <2>3. call = [c \in Callers |-> call[c]]
    BY <2>1
  <2> QED
    BY <1>3, <2>2, <2>3 DEF CallsInv
<1> QED
  BY <1>1, <1>2, <1>4 DEF BtInv

\* Each step.
LEMMA BtInvStep == ASSUME BtInv, [BtNext]_btVars PROVE DeviceInv' /\ CallsInv'
<1>1. DeviceInv /\ CallsInv
  BY DEF BtInv
<1>2. CASE UNCHANGED btVars
  BY <1>1, <1>2 DEF btVars, deviceVars, scriptVars, DeviceInv, CallsInv
<1>3. ASSUME NEW c \in Callers, Call(c) /\ Still, Follow(Facts') PROVE DeviceInv' /\ CallsInv'
  <2>1. CallsInv'
    BY <1>1, <1>3, CallBegins, OneKeeps
  <2> QED
    BY <1>1, <1>3, <2>1 DEF Still, deviceVars, DeviceInv
<1>4. ASSUME NEW c \in Callers, CallStep(c), Follow(Facts') PROVE DeviceInv' /\ CallsInv'
  <2>1. DeviceInv' /\ (Changed(c, Facts'[call[c].on]) \/ UNCHANGED <<call, device>>)
    BY <1>1, <1>4, StepMoves
  <2>2. CASE Changed(c, Facts'[call[c].on])
    <3>1. RecordInv(call'[c]) /\ SinceInv(call'[c], since'[c])
      BY <1>1, <1>4, <2>2, ChangedKeeps
    <3>2. call' = [call EXCEPT ![c] = call'[c]]
      BY <2>2 DEF Changed
    <3> QED
      BY <1>1, <1>4, <2>1, <3>1, <3>2, OneKeeps
  <2>3. CASE UNCHANGED <<call, device>>
    BY <1>1, <1>4, <2>1, <2>3, OneKeeps
  <2> QED
    BY <2>1, <2>2, <2>3
<1>5. CASE Next /\ UNCHANGED <<call, deviceVars>> /\ Follow(Facts')
  BY <1>1, <1>5, OneKeeps DEF deviceVars, DeviceInv
<1>6. ASSUME NEW a \in Addresses, Roam(a), UNCHANGED <<call, vars, pairing>>, Follow(Facts')
      PROVE  DeviceInv' /\ CallsInv'
  <2>1. device' \in [Addresses -> [FieldNames -> BOOLEAN]]
    BY <1>1, <1>6, RoamKeeps
  <2>2. DeviceInv'
    BY <1>1, <1>6, <2>1 DEF DeviceInv, FieldNames
  <2> QED
    BY <1>1, <1>6, <2>2, OneKeeps
<1> QED
  BY <1>2, <1>3, <1>4, <1>5, <1>6 DEF BtNext

\* The inductive invariant of the devices, the calls and the agent holds.
THEOREM BtInvariant == BtSpec => []BtInv
<1>1. BtInv <=> IInv /\ DeviceInv /\ CallsInv
  BY DEF BtInv
<1>2. BtInit => BtInv
  BY BtInvInit
<1>3. BtInv /\ [BtNext]_btVars => BtInv'
  <2>1. BtInv /\ [BtNext]_btVars => IInv'
    BY AgentOrStill, InvStep DEF BtInv
  <2>2. BtInv /\ [BtNext]_btVars => DeviceInv' /\ CallsInv'
    BY BtInvStep
  <2> QED
    BY <2>1, <2>2 DEF BtInv
<1> QED
  BY <1>2, <1>3, PTL DEF BtSpec

\* Whatever the phones, the callers and BlueZ do, the devices have their fields, a call its
\* reply, and what it has read one value of each field.
THEOREM BluetoothTyped == BtSpec => []BtTypeOK
<1>1. BtInv => BtTypeOK
  <2> SUFFICES ASSUME BtInv PROVE BtTypeOK
    OBVIOUS
  <2>1. TypeOK /\ DeviceInv /\ CallsInv
    BY DEF BtInv, IInv
  <2>2. ASSUME NEW c \in Callers, NEW k \in DOMAIN call[c].todo
        PROVE  DOMAIN call[c].todo[k] = {"do", "on", "err"}
    <3>1. call[c].todo \in Seq(Item)
      BY <2>1 DEF CallsInv, RecordInv, ScriptInv
    <3>2. call[c].todo[k] \in Item
      BY <2>2, <3>1
    <3> QED
      BY <3>2 DEF Item
  <2>3. CallsTypeOK
    BY <2>1, <2>2 DEF CallsTypeOK, CallsInv, RecordInv
  <2> QED
    BY <2>1, <2>3 DEF BtTypeOK, DeviceInv
<1> QED
  BY <1>1, BtInvariant, PTL

\* The event that a pair, connect, disconnect or remove call publishes says of its device
\* what was so since the call last changed it, for any number of calls on the device at once.
THEOREM DeviceEventsFresh == BtSpec => []EventIsFresh
<1>1. BtInv => EventIsFresh
  <2> SUFFICES ASSUME BtInv, NEW c \in Callers, Due(c, "publish") PROVE call[c].saw \subseteq since[c]
    BY DEF EventIsFresh
  <2>1. RecordInv(call[c]) /\ SinceInv(call[c], since[c]) /\ CallsInv
    BY DEF BtInv, CallsInv
  <2>2. Busy(c) /\ Now(c).do = "publish"
    BY DEF Due
  <2>3. Now(c) = call[c].todo[1] /\ 1 \in DOMAIN call[c].todo
    BY <2>1, <2>2, ToDo DEF Busy, Now
  <2>4. Publishes(call[c])
    BY <2>2, <2>3 DEF Publishes
  <2> QED
    BY <2>1, <2>4 DEF SinceInv
<1> QED
  BY <1>1, BtInvariant, PTL

=============================================================================

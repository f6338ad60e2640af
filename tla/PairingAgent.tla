---------------------------- MODULE PairingAgent ----------------------------
(***************************************************************************)
(* The BlueZ pairing agent of crates/bluetooth/src/agent.rs: the           *)
(* RequestConfirmation callback, which parks on a oneshot channel kept in  *)
(* PENDING_PAIRINGS under the phone's address, and the calls that resolve  *)
(* it (RespondPairing, a newer prompt of the same phone, the agent's stop, *)
(* the callback's own 30 s timeout).                                       *)
(*                                                                         *)
(* An action is one critical section of the map's mutex, one use of a      *)
(* channel or one step of the callback.  A sender is in the map, in a      *)
(* caller's hand between remove and send, used, or dropped; a receiver     *)
(* lives while its prompt waits.  Passkeys, aliases and the adapter's      *)
(* settings are left out.                                                  *)
(***************************************************************************)
CONSTANTS Prompts,       \* RequestConfirmation calls, each made once
          Addresses,
          AddressOf,     \* the phone that makes each of them
          NoPrompt

ASSUME PairingAssumption == /\ AddressOf \in [Prompts -> Addresses]
                            /\ NoPrompt \notin Prompts

VARIABLES
  agent,        \* AGENT_HANDLE: "none", "registered", "draining" in stop, "stopped"
  autoAccept,   \* AUTO_ACCEPT
  pending,      \* PENDING_PAIRINGS: whose sender is kept under each address
  prompt,       \* where each callback is
  mail,         \* its channel: "empty", "yes", "no", or "gone" (sender dropped)
  hand,         \* senders taken out of the map, with the answer to send
  consented     \* history: prompts a client has accepted

vars == <<agent, autoAccept, pending, prompt, mail, hand, consented>>

Init ==
  /\ agent = "none" /\ autoAccept = FALSE
  /\ pending = [a \in Addresses |-> NoPrompt]
  /\ prompt = [i \in Prompts |-> "none"]
  /\ mail = [i \in Prompts |-> "empty"]
  /\ hand = {} /\ consented = {}

\* What reaches prompt i's channel: nothing once its receiver is gone.
Deliver(i, m) == IF i # NoPrompt /\ prompt[i] = "waiting" THEN [mail EXCEPT ![i] = m] ELSE mail

\* start, called once at boot: AUTO_ACCEPT is stored first, the agent is
\* registered last; without an adapter it never is.
Start ==
  /\ agent = "none"
  /\ autoAccept' \in BOOLEAN
  /\ agent' = "registered"
  /\ UNCHANGED <<pending, prompt, mail, hand, consented>>

\* The callback publishes BluetoothPairingRequest and reads AUTO_ACCEPT.
Request(i) ==
  /\ agent = "registered" /\ prompt[i] = "none"
  /\ prompt' = [prompt EXCEPT ![i] = IF autoAccept THEN "accepted" ELSE "published"]
  /\ UNCHANGED <<agent, autoAccept, pending, mail, hand, consented>>

\* mutant
ParkUnlisted(i) ==
  /\ prompt[i] = "published" /\ prompt' = [prompt EXCEPT ![i] = "waiting"]
  /\ UNCHANGED <<agent, autoAccept, pending, mail, hand, consented>>

\* The callback puts its sender in the map and rejects the prompt it replaces.
Park(i) == LET a == AddressOf[i] IN
  /\ prompt[i] = "published"
  /\ prompt' = [prompt EXCEPT ![i] = "waiting"]
  /\ pending' = [pending EXCEPT ![a] = i]
  /\ mail' = Deliver(pending[a], "no")
  /\ UNCHANGED <<agent, autoAccept, hand, consented>>

\* respond_pairing: remove under the lock, and fail if there was nothing ...
Respond(a, accept) ==
  /\ pending[a] # NoPrompt
  /\ pending' = [pending EXCEPT ![a] = NoPrompt]
  /\ hand' = hand \cup {<<pending[a], IF accept THEN "yes" ELSE "no">>}
  /\ consented' = IF accept THEN consented \cup {pending[a]} ELSE consented
  /\ UNCHANGED <<agent, autoAccept, prompt, mail>>

\* ... then send without it; the result of send is ignored.
Send(h) ==
  /\ hand' = hand \ {h}
  /\ mail' = Deliver(h[1], h[2])
  /\ UNCHANGED <<agent, autoAccept, pending, prompt, consented>>

\* mutant
ResolveAnyhow(i) ==
  /\ prompt[i] = "waiting" /\ mail[i] # "empty"
  /\ prompt' = [prompt EXCEPT ![i] = IF mail[i] = "no" THEN "rejected" ELSE "accepted"]
  /\ UNCHANGED <<agent, autoAccept, pending, mail, hand, consented>>

\* The callback wakes with an answer, or with an error if its sender was dropped.
Resolve(i) ==
  /\ prompt[i] = "waiting" /\ mail[i] # "empty"
  /\ prompt' = [prompt EXCEPT ![i] = IF mail[i] = "yes" THEN "accepted"
                                     ELSE IF mail[i] = "no" THEN "rejected" ELSE "expired"]
  /\ UNCHANGED <<agent, autoAccept, pending, mail, hand, consented>>

\* mutant
ExpireListed(i) ==
  /\ pending[AddressOf[i]] = i
  /\ prompt[i] = "waiting" /\ mail[i] = "empty" /\ prompt' = [prompt EXCEPT ![i] = "expired"]
  /\ UNCHANGED <<agent, autoAccept, pending, mail, hand, consented>>

\* The 30 s timeout; an answer that is already there is looked at first.
Expire(i) ==
  /\ prompt[i] = "waiting" /\ mail[i] = "empty"
  /\ prompt' = [prompt EXCEPT ![i] = "expired"]
  /\ UNCHANGED <<agent, autoAccept, pending, mail, hand, consented>>

\* mutant
CleanUpNothing(i) ==
  /\ prompt[i] = "expired" /\ prompt' = [prompt EXCEPT ![i] = "rejected"]
  /\ UNCHANGED <<agent, autoAccept, pending, mail, hand, consented>>

\* After a timeout or a dropped sender the callback removes the entry of its
\* address, whoever made it, and rejects.
CleanUp(i) == LET a == AddressOf[i] IN
  /\ prompt[i] = "expired"
  /\ prompt' = [prompt EXCEPT ![i] = "rejected"]
  /\ pending' = [pending EXCEPT ![a] = NoPrompt]
  /\ mail' = Deliver(pending[a], "gone")
  /\ UNCHANGED <<agent, autoAccept, hand, consented>>

\* stop: the agent is unregistered, the map drained, each prompt rejected.
Unregister ==
  /\ agent = "registered" /\ agent' = "draining"
  /\ UNCHANGED <<autoAccept, pending, prompt, mail, hand, consented>>

\* mutant
DrainAll ==
  /\ agent = "draining" /\ agent' = "stopped"
  /\ hand' = hand \cup {<<pending[a], "no">> : a \in Addresses}
  /\ pending' = [a \in Addresses |-> NoPrompt]
  /\ UNCHANGED <<autoAccept, prompt, mail, consented>>

Drain ==
  /\ agent = "draining" /\ agent' = "stopped"
  /\ hand' = hand \cup {<<pending[a], "no">> : a \in {b \in Addresses : pending[b] # NoPrompt}}
  /\ pending' = [a \in Addresses |-> NoPrompt]
  /\ UNCHANGED <<autoAccept, prompt, mail, consented>>

Callback(i) == Park(i) \/ Resolve(i) \/ Expire(i) \/ CleanUp(i)

Next ==
  \/ Start \/ Unregister \/ Drain
  \/ \E i \in Prompts : Request(i) \/ Callback(i)
  \/ \E a \in Addresses, accept \in BOOLEAN : Respond(a, accept)
  \/ \E h \in hand : Send(h)

Spec == Init /\ [][Next]_vars

\* A callback that has begun goes on and its timeout elapses.  Clients need
\* not answer.
FairSpec == Spec /\ \A i \in Prompts : WF_vars(Callback(i))

-----------------------------------------------------------------------------
(* Properties. *)

TypeOK ==
  /\ agent \in {"none", "registered", "draining", "stopped"} /\ autoAccept \in BOOLEAN
  /\ pending \in [Addresses -> Prompts \cup {NoPrompt}]
  /\ prompt \in [Prompts -> {"none", "published", "waiting", "expired", "accepted", "rejected"}]
  /\ mail \in [Prompts -> {"empty", "yes", "no", "gone"}]
  /\ hand \subseteq Prompts \X {"yes", "no"}
  /\ consented \subseteq Prompts

\* The map only holds senders of callbacks that have not ended, whatever raced with
\* their timeout.
NoLeak == \A a \in Addresses : pending[a] # NoPrompt =>
  prompt[pending[a]] \in {"waiting", "expired"} /\ AddressOf[pending[a]] = a

\* A prompt that waits for an answer can get one: its sender is in the map or
\* in the hand of somebody about to use it.
Answerable == \A i \in Prompts : prompt[i] = "waiting" /\ mail[i] = "empty" =>
  pending[AddressOf[i]] = i \/ \E h \in hand : h[1] = i

\* "a stuck prompt doesn't leak the channel" (agent.rs:12), and its counterpart: no
\* entry without its prompt, no waiting prompt without its entry.
MapInStep == NoLeak /\ Answerable

\* Without auto-accept no phone is paired unless a client accepted that very
\* prompt: not by a timeout, a stop or the answer to another prompt.
AcceptedByClient == \A i \in Prompts : prompt[i] = "accepted" => autoAccept \/ i \in consented

\* Every prompt ends, so BlueZ gets its reply.
PromptsEnd == \A i \in Prompts : prompt[i] \in {"published", "waiting", "expired"}
                                 ~> prompt[i] \in {"accepted", "rejected"}

\* "If a prior prompt is still pending for the same address, reject it so the
\* new one wins" (agent.rs:199-200): nobody drops the sender of a prompt that
\* still waits.
NewOneWins == \A i \in Prompts : prompt[i] = "waiting" => mail[i] # "gone"
=============================================================================

----------------------------- MODULE Bluetooth -----------------------------
(***************************************************************************)
(* The device calls of BluetoothService (crates/bluetooth/src/lib.rs) and  *)
(* the pairing agent they meet: BlueZ asks the daemon's own agent to       *)
(* confirm a pairing that a Pair or Connect call begins, and the call      *)
(* waits until that prompt is resolved.                                    *)
(***************************************************************************)
EXTENDS PairingAgent, Calls

VARIABLES
  device,    \* of each address: whether BlueZ knows, has paired, trusts, is connected to it
  pairing    \* the prompt a caller's device.pair() waits for

deviceVars == <<device, pairing>>
btVars == <<vars, scriptVars, deviceVars>>

Unknown == [known |-> FALSE, paired |-> FALSE, trusted |-> FALSE, connected |-> FALSE]

BtInit == /\ Init /\ CallsInit
          /\ device \in [Addresses -> {[Unknown EXCEPT !.known = TRUE], Unknown}]
          /\ pairing = [c \in Callers |-> NoPrompt]

-----------------------------------------------------------------------------
(* The operations. *)

\* device_info and publish_device; an error of the former publishes nothing.
PublishInfo(a) == Try(<<"paired", "trusted", "connected", "publish">>, a, "event")

Trusting == <<"adapter", "is_paired", "pair", "is_trusted", "trust">>

\* mutant
ConnectBefore(a) == Try(Trusting, a, "Internal")
  \o Try(<<"paired", "trusted", "connected">>, a, "event") \o Try(<<"connect">>, a, "Internal")
  \o Try(<<"publish">>, a, "event")

Pair(a) == Try(Trusting, a, "Internal") \o PublishInfo(a)
Connect(a) == Try(Append(Trusting, "connect"), a, "Internal") \o PublishInfo(a)
Disconnect(a) == Try(<<"adapter", "disconnect">>, a, "Internal") \o PublishInfo(a)
Remove(a) == Try(<<"adapter", "remove", "gone", "publish">>, a, "Internal")
ListDevices(a) == Try(<<"adapter", "list">>, a, "Internal")
Scan(a) == Try(<<"adapter", "discover", "list">>, a, "Internal")

Call(c) == \E a \in Addresses :
  \/ Begin(c, "pair", a, 0, Pair(a)) \/ Begin(c, "connect", a, 0, Connect(a))
  \/ Begin(c, "disconnect", a, 0, Disconnect(a)) \/ Begin(c, "remove", a, 0, Remove(a))
  \/ Begin(c, "list", a, 0, ListDevices(a)) \/ Begin(c, "scan", a, 0, Scan(a))

-----------------------------------------------------------------------------
(* The steps. *)

Dev(c) == device[Now(c).on]
Skip(c) == call' = [call EXCEPT ![c] = Left(@, Tail(Tail(@.todo)))]
Set(c, field, value) == device' = [device EXCEPT ![Now(c).on][field] = value]

\* adapter(): session, default adapter, power; and the enumeration of devices,
\* which leaves out those it cannot read.
AdapterStep(c) == (Due(c, "adapter") \/ Due(c, "list")) /\ Ask(c)

\* A device that is paired or trusted already is not paired or trusted again.
TestStep(c) ==
  \/ Due(c, "is_paired") /\ Dev(c).known /\ IF Dev(c).paired THEN Skip(c) ELSE Pass(c)
  \/ Due(c, "is_trusted") /\ Dev(c).known /\ IF Dev(c).trusted THEN Skip(c) ELSE Pass(c)
  \/ (Due(c, "is_paired") \/ Due(c, "is_trusted")) /\ Miss(c)

InfoStep(c) == \E field \in {"paired", "trusted", "connected"} :
  Due(c, field) /\ ((Dev(c).known /\ See(c, field, {Dev(c)[field]})) \/ Miss(c))

Reading(c) == AdapterStep(c) \/ TestStep(c) \/ InfoStep(c) \/ PublishStep(c)

\* The changes that BlueZ makes, or refuses to make.
ChangeStep(c) ==
  \/ Due(c, "trust") /\ Dev(c).known /\ Do(c) /\ Set(c, "trusted", TRUE)
  \/ Due(c, "connect") /\ Dev(c).known /\ Do(c) /\ Set(c, "connected", TRUE)
  \/ Due(c, "disconnect") /\ Dev(c).known /\ Do(c) /\ Set(c, "connected", FALSE)
  \/ Due(c, "remove") /\ Dev(c).known /\ Do(c) /\ device' = [device EXCEPT ![Now(c).on] = Unknown]
  \/ Due(c, "discover") /\ Do(c) /\ Set(c, "known", TRUE)
  \/ /\ \E step \in {"trust", "connect", "disconnect", "remove", "discover"} : Due(c, step)
     /\ Miss(c) /\ UNCHANGED device

\* remove publishes the device as it is known to be: all fields false.
GoneStep(c) == Due(c, "gone") /\ call' = [call EXCEPT ![c] =
  Left([@ EXCEPT !.saw = {<<field, FALSE>> : field \in {"paired", "trusted", "connected"}}], Tail(@.todo))]

\* device.pair(): BlueZ asks the agent, if there is one, with a prompt of the
\* device, or pairs it without a confirmation, or refuses.
PairBegin(c) ==
  /\ Due(c, "pair") /\ pairing[c] = NoPrompt /\ Dev(c).known
  /\ \E i \in Prompts : AddressOf[i] = Now(c).on /\ Request(i) /\ pairing' = [pairing EXCEPT ![c] = i]
  /\ UNCHANGED <<call, device>>

PairPlain(c) ==
  /\ Due(c, "pair") /\ pairing[c] = NoPrompt
  /\ \/ Dev(c).known /\ Do(c) /\ Set(c, "paired", TRUE)
     \/ Miss(c) /\ UNCHANGED device

\* The agent has answered; the device itself may still decline.
PairEnd(c) ==
  /\ Due(c, "pair") /\ pairing[c] # NoPrompt /\ pairing' = [pairing EXCEPT ![c] = NoPrompt]
  /\ \/ prompt[pairing[c]] = "accepted" /\ Dev(c).known /\ Do(c) /\ Set(c, "paired", TRUE)
     \/ prompt[pairing[c]] \in {"accepted", "rejected"} /\ Miss(c) /\ UNCHANGED device

\* A phone comes or goes by itself.
Roam(a) == device[a].known /\ device' = [device EXCEPT ![a].connected = ~@]

Still == UNCHANGED <<vars, deviceVars>>

CallStep(c) ==
  \/ (Reading(c) \/ GoneStep(c)) /\ Still
  \/ (PairPlain(c) \/ ChangeStep(c)) /\ UNCHANGED <<vars, pairing>>
  \/ PairEnd(c) /\ UNCHANGED vars
  \/ PairBegin(c)

Facts == [a \in Addresses |->
  {<<field, device[a][field]>> : field \in {"paired", "trusted", "connected"}}]

BtNext ==
  /\ \/ \E c \in Callers : (Call(c) /\ Still) \/ CallStep(c)
     \/ Next /\ UNCHANGED <<call, deviceVars>>
     \/ (\E a \in Addresses : Roam(a)) /\ UNCHANGED <<call, vars, pairing>>
  /\ Follow(Facts')

BtSpec == BtInit /\ [][BtNext]_btVars

\* As for the agent; and BlueZ answers a call, a pairing when its prompt is
\* resolved.
BtFairness ==
  /\ \A i \in Prompts : WF_btVars(Callback(i) /\ UNCHANGED <<call, deviceVars>> /\ Follow(Facts'))
  /\ \A c \in Callers : WF_btVars(CallStep(c) /\ Follow(Facts'))

-----------------------------------------------------------------------------
(* Properties. *)

BtTypeOK ==
  /\ TypeOK /\ CallsTypeOK /\ pairing \in [Callers -> Prompts \cup {NoPrompt}]
  /\ device \in [Addresses -> [{"known", "paired", "trusted", "connected"} -> BOOLEAN]]

\* Every prompt and every device call ends, the one that waits for a prompt nobody
\* answers too, whatever happens to the prompt and to the agent.
AllEnd == PromptsEnd /\ \A c \in Callers : Busy(c) ~> ~Busy(c)
=============================================================================

---------------------------- MODULE MCServices ----------------------------
(***************************************************************************)
(* Modules Services and Access.  A behaviour is of snapserver and the bus  *)
(* (all of it, or two calls while only snapserver publishes, or one call   *)
(* while the others publish as well), of one machine that is administered  *)
(* and restarted while its clients call, or of two that clients look for.  *)
(***************************************************************************)
EXTENDS Services, Access

CONSTANTS Parts,    \* of "services", "calls", "events", "restarts", "discovery"
          Home      \* the machine that is administered

ASSUME HomeAssumption == Home \in Servers

VARIABLE part

SnapClient == <<"snap", "client">>
Pairing == <<"bt", "pairing">>

MCKinds == {SnapClient, Pairing}
MCOthers == {Pairing}
MCFilters == {{}, {[parts |-> <<"snap">>, wild |-> TRUE]}}

MCSearchPaths == <<"user", "etc">>
MCContents == {[token |-> "k1", on |-> {"mdns", "snapcast"}]}

MCAddress == [s \in Servers |-> IF s = Home THEN "x" ELSE "y"]

MCInit ==
  /\ part \in Parts /\ Init /\ AccessInit
  /\ address = MCAddress
  /\ \A s \in Servers : Range(file[s]) = {None} \/ (part = "restarts" /\ s = Home)

Service(step) == part \in {"services", "calls", "events"} /\ step /\ UNCHANGED <<accessVars, part>>

\* What the parts "calls" and "events" leave to "services".
Within ==
  /\ part = "calls" => \A i \in DOMAIN published' : published'[i] = SnapKind
  /\ part = "events" => Cardinality({c \in Calls : call'[c] # "idle"}) <= 1

\* One client that has the token looks for Home, or for any server, while machines change
\* and Home goes; what comes after the answer is for the other parts.
Search == CallStep /\ (command.at = "done" =>
            command'.token # None /\ command'.host = None /\ command'.name \in {None, Home})
Machines == (Exit(Home) \/ \E s \in Servers : StartByHand(s) \/ LanStep(s)) /\ used' = used

MCNext ==
  \/ Service(Next) /\ Within
  \/ /\ UNCHANGED <<vars, part>>
     /\ \/ part = "restarts" /\ (AdminStep(Home) \/ ProcessStep(Home) \/ CallStep)
        \/ part = "discovery" /\ command.status = "none" /\ (Machines \/ Search)

\* The types of both modules.
MCTypeOK == TypeOK /\ AccessTypeOK

allVars == <<vars, accessVars, part>>
MCSpec == MCInit /\ [][MCNext]_allVars

\* As FairSpec of module Services.
MCFair ==
  /\ MCSpec
  /\ WF_allVars(Service(Snap(Connect))) /\ WF_allVars(Service(Snap(BackoffOver)))
  /\ WF_allVars(Service(Snap(Write))) /\ SF_allVars(Service(Snap(Refuse)))
  /\ WF_allVars(Service(Snap(ReceiveReply) \/ ForwardNote)) /\ WF_allVars(Service(Snap(ServerStep)))
=============================================================================

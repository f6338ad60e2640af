------------------------------- MODULE Access -------------------------------
(***************************************************************************)
(* From a command to a handler: zerod.toml (crates/server/src/settings.rs), *)
(* the daemon's start and its bearer token (crates/server/src/lib.rs), the *)
(* installer of the user unit (src/service.rs), mDNS (crates/discovery)    *)
(* and the client commands (src/main.rs).                                  *)
(*                                                                         *)
(* None stands for an empty string, a variable that is not set and a file  *)
(* that is not there, which this code treats alike, and for a machine with *)
(* no IPv4 address.  Of the settings, the token and the features that are  *)
(* enabled matter here.  A random token is one nobody has used.  Addresses *)
(* are IPv4 and not of the loopback; Bridge stands for all of              *)
(* 172.17.0.0/16, where a client meets its own machine.                    *)
(***************************************************************************)
EXTENDS Naturals, Sequences, FiniteSets, FiniteSetsExt, Functions

CONSTANTS Servers,      \* machines, by the name they advertise
          Tokens,       \* bound: all tokens there are
          Chosen,       \* those a user may think of
          SearchPaths,  \* where zerod.toml is looked for, in order
          Contents,     \* bound: what users write into it
          Broken,       \* a file that cannot be read or parsed
          Lan, Bridge,  \* bound: the addresses of machines; Docker's default bridge
          Here,         \* the server on the client's own machine, or None
          MaxEdits,     \* bound: changes of zerod.toml, of the unit file, of addresses
          None

Features == {"mdns", "snapcast", "librespot", "a2dp"}
Settings == [token : Tokens \cup {None}, on : SUBSET Features]
Process == [token : Tokens, on : SUBSET Features, by : {"unit", "hand"}]
Discovered == [name : Servers, addresses : SUBSET (Lan \cup {Bridge})]

ASSUME AccessAssumption ==
  /\ Chosen \subseteq Tokens /\ None \notin Tokens /\ None \notin Servers
  /\ None \notin Lan \cup {Bridge} /\ Bridge \notin Lan /\ Here \in Servers \cup {None}
  /\ Contents \subseteq Settings /\ SearchPaths \in Seq(Range(SearchPaths)) /\ MaxEdits \in Nat

VARIABLES
  file,          \* [path -> contents or None]
  unitToken,     \* token in the unit file, or None
  systemdToken,  \* token of the unit systemd has read
  daemon,        \* the running process: its token, features and parent; or None
  address,       \* of each machine on the LAN, or None
  advertised,    \* addresses that mDNS answers with, or None
  used,          \* tokens there have been
  edits,         \* number of changes so far
  command,       \* the client command
  configured,    \* history: token from settings or environment at the last start
  kept,          \* history: tokens accepted since that changed
  steps          \* history: what was done after the last installation

admin == <<file, unitToken, systemdToken, used, edits, steps>>
process == <<daemon, configured, kept>>
lan == <<address, advertised>>
accessVars == <<admin, process, lan, command>>

-----------------------------------------------------------------------------
(* Settings. *)

\* Settings::default.
Defaults == [token |-> None, on |-> {"mdns"}]

\* load_settings: the file of --config, or the first one there is.  There are no
\* settings, and no daemon, if it cannot be read.
LoadSettings(s, config) ==
  LET there == {i \in DOMAIN SearchPaths : file[s][SearchPaths[i]] # None} IN
  IF config # None THEN {file[s][config]} \ {None, Broken}
  ELSE IF there = {} THEN {Defaults} ELSE {file[s][SearchPaths[Min(there)]]} \ {Broken}

RandomHexToken == Tokens \ used

Configured(set, env) == IF set.token # None THEN set.token ELSE env

\* mutant
ResolveEnvIgnored(set, env) == IF set.token # None THEN {set.token} ELSE RandomHexToken

\* mutant
ResolveOpen(set, env) == {Configured(set, env)}

\* zerod.toml, then ZEROD_BEARER_TOKEN, then a random token.
ResolveBearerToken(set, env) ==
  IF Configured(set, env) = None THEN RandomHexToken ELSE {Configured(set, env)}

Edit == edits < MaxEdits /\ edits' = edits + 1

EditToml(s) ==
  /\ Edit
  /\ \E p \in Range(SearchPaths), c \in Contents \cup {None, Broken} :
       file[s][p] # c /\ file' = [file EXCEPT ![s][p] = c]
  /\ steps' = [steps EXCEPT ![s] = "none"]
  /\ UNCHANGED <<unitToken, systemdToken, used, process, lan, command>>

-----------------------------------------------------------------------------
(* The unit and the process. *)

\* The unit is written aside and renamed into place.
Install(s) == \E force \in BOOLEAN, chosen \in Chosen \cup {None} :
  /\ Edit
  /\ unitToken[s] = None \/ force
  /\ \E t \in IF chosen # None THEN {chosen} ELSE RandomHexToken :
       /\ unitToken' = [unitToken EXCEPT ![s] = t] /\ used' = used \cup {t}
       /\ steps' = [steps EXCEPT ![s] = "installed"]
  /\ UNCHANGED <<file, systemdToken, process, lan, command>>

Uninstall(s) ==
  /\ Edit /\ unitToken[s] # None /\ unitToken' = [unitToken EXCEPT ![s] = None]
  /\ steps' = [steps EXCEPT ![s] = "none"]
  /\ UNCHANGED <<file, systemdToken, used, process, lan, command>>

DaemonReload(s) ==
  /\ systemdToken' = [systemdToken EXCEPT ![s] = unitToken[s]]
  /\ steps' = [steps EXCEPT ![s] = IF @ = "installed" THEN "reloaded" ELSE @]
  /\ UNCHANGED <<file, unitToken, used, process, lan, command, edits>>

\* serve, up to the listening socket.
Boot(s, config, env, by) == \E set \in LoadSettings(s, config) :
  /\ daemon[s] = None
  /\ \E t \in ResolveBearerToken(set, env) :
       /\ daemon' = [daemon EXCEPT ![s] = [token |-> t, on |-> set.on, by |-> by]]
       /\ used' = used \cup {t}
  /\ LET now == Configured(set, env) IN
     /\ configured' = [configured EXCEPT ![s] = now]
     /\ kept' = IF configured[s] = now /\ now # None THEN kept ELSE [kept EXCEPT ![s] = {}]

\* systemctl enable --now, a restart by systemd after a crash.
StartUnit(s) ==
  /\ systemdToken[s] # None /\ Boot(s, None, systemdToken[s], "unit")
  /\ steps' = [steps EXCEPT ![s] = IF @ = "reloaded" THEN "enabled" ELSE @]
  /\ UNCHANGED <<file, unitToken, systemdToken, lan, command, edits>>

\* enable --now leaves a running service alone.
EnableRunning(s) ==
  /\ systemdToken[s] # None /\ steps[s] = "reloaded"
  /\ daemon[s] # None /\ daemon[s].by = "unit"
  /\ steps' = [steps EXCEPT ![s] = "enabled"]
  /\ UNCHANGED <<file, unitToken, systemdToken, used, process, lan, command, edits>>

\* zerod, from a shell.
StartByHand(s) ==
  /\ \E config \in Range(SearchPaths) \cup {None}, env \in Chosen \cup {None} :
       Boot(s, config, env, "hand")
  /\ steps' = [steps EXCEPT ![s] = "none"]
  /\ UNCHANGED <<file, unitToken, systemdToken, lan, command, edits>>

\* Any signal or crash: the process leaves no farewell.
Exit(s) ==
  /\ daemon[s] # None /\ daemon' = [daemon EXCEPT ![s] = None]
  /\ UNCHANGED <<admin, configured, kept, lan, command>>

\* maybe_advertise and advertise: with no list of addresses, those of the interfaces
\* that are up, and later again when they change.
Announce(s) ==
  /\ daemon[s] # None /\ "mdns" \in daemon[s].on
  /\ \E up \in SUBSET ({address[s], Bridge} \ {None}) :
       advertised[s] # up /\ advertised' = [advertised EXCEPT ![s] = up]
  /\ UNCHANGED <<admin, process, address, command>>

\* The records of a process that is gone expire.
Expire(s) ==
  /\ daemon[s] = None /\ advertised[s] # None /\ advertised' = [advertised EXCEPT ![s] = None]
  /\ UNCHANGED <<admin, process, address, command>>

\* A lease ends: the machine gets another address that is free, or none.
Renumber(s) ==
  /\ Edit
  /\ \E a \in (Lan \ Range(address)) \cup {None} :
       address[s] # a /\ address' = [address EXCEPT ![s] = a]
  /\ UNCHANGED <<file, unitToken, systemdToken, used, steps, process, advertised, command>>

-----------------------------------------------------------------------------
(* The client commands and the calls they make. *)

RunBluetooth == {"Scan", "ListDevices", "Pair", "ConnectDevice", "Disconnect", "Remove",
                 "SetDiscoverable", "RespondPairing"}
RunA2dp == {"A2dpEnable", "A2dpDisable"}
RunStream == {"Play", "Pause", "Resume", "Stop", "Status", "GetStreamVolume", "SetStreamVolume",
              "SpotifyStart", "SpotifyStop"}
RunVolume == {"ListMixers", "GetVolume", "SetVolume", "SetMute"}
RunSystemd == {"ListManagedUnits", "UnitStatus", "Start", "StopUnit", "Restart", "Reload",
               "Enable", "Disable"}
RunConfig == {"ListConfigs", "GetConfig", "PutConfig"}
RunEvents == {"Subscribe"}
RunSnapcast == {"GetServerStatus", "ListClients", "ListSnapStreams", "SetClientVolume",
                "SetClientLatency", "SetClientName", "SetGroupStream", "SetGroupMute",
                "SetGroupClients"}
RunSystem == {"Version", "Health"}
Rpcs == UNION {RunBluetooth, RunA2dp, RunStream, RunVolume, RunSystemd, RunConfig, RunEvents,
               RunSnapcast, RunSystem}

\* The feature without which a call answers FailedPrecondition.
Needs(rpc) == IF rpc \in RunSnapcast THEN "snapcast"
              ELSE IF rpc \in RunA2dp THEN "a2dp"
              ELSE IF rpc = "SpotifyStart" THEN "librespot" ELSE "none"

Demands == {Needs(rpc) : rpc \in Rpcs}

NoCommand == [at |-> "done", token |-> None, name |-> None, found |-> {}, host |-> None,
              server |-> None, status |-> "none", key |-> None]

\* main: with --host the address is given, or else it is looked for.
Command ==
  /\ command.at = "done"
  /\ \E token \in used \cup {None}, name \in Servers \cup {None}, host \in Lan \cup {None} :
       /\ name = None \/ host = None
       /\ command' = [NoCommand EXCEPT !.at = IF host # None THEN "connect" ELSE "browse",
                                 !.token = token, !.name = name, !.host = host]
  /\ UNCHANGED <<admin, process, lan>>

\* discover: an answer within the timeout, in the place of an earlier one of that name.
Resolved(s) == LET d == [name |-> s, addresses |-> advertised[s]] IN
  /\ command.at = "browse" /\ advertised[s] # None /\ d \notin command.found
  /\ command' = [command EXCEPT !.found = {e \in @ : e.name # s} \cup {d}]
  /\ UNCHANGED <<admin, process, lan>>

Fail == command' = NoCommand

\* mutant
BestHostAny(d) == d.addresses

\* best_host: any address, of the bridge only if there is no other.
BestHost(d) == IF d.addresses \ {Bridge} # {} THEN d.addresses \ {Bridge} ELSE d.addresses

\* mutant
ResolveAnyEndpoint ==
  /\ command.at = "browse"
  /\ \E d \in command.found : \E host \in BestHost(d) :
       command' = [command EXCEPT !.at = "connect", !.host = host]
  /\ UNCHANGED <<admin, process, lan>>

Wanted == {d \in command.found : command.name \in {None, d.name}}

\* resolve_endpoint, when the timeout is over: exactly one server, with an address.
ResolveEndpoint ==
  /\ command.at = "browse"
  /\ IF Cardinality(Wanted) = 1 /\ \E d \in Wanted : BestHost(d) # {}
     THEN \E d \in Wanted : \E host \in BestHost(d) :
            command' = [command EXCEPT !.at = "connect", !.host = host]
     ELSE Fail
  /\ UNCHANGED <<admin, process, lan>>

\* The daemon that is there now at the address of the command.
Reached == {s \in Servers : daemon[s] # None /\
                           IF command.host = Bridge THEN s = Here ELSE address[s] = command.host}

\* channel, the connection of a later attempt, or a command that reads a file once it
\* is connected, fails.
Unreached ==
  /\ command.at \in {"connect", "send"} /\ Fail
  /\ UNCHANGED <<admin, process, lan>>

Channel ==
  /\ command.at = "connect" /\ Reached # {} /\ command' = [command EXCEPT !.at = "send"]
  /\ UNCHANGED <<admin, process, lan>>

Answered(s, status) == command' = [command EXCEPT !.at = "done", !.server = s, !.status = status,
                                                  !.key = daemon[s].token]

\* bearer_interceptor.
Intercept(key, token) == key = None \/ token = key

\* The eight services of zerod: the interceptor, and then the handler, which may
\* refuse what is not enabled.  Which call it is matters here only.
Handle == \E s \in Reached, needs \in Demands :
  /\ command.at = "send"
  /\ Answered(s, IF ~Intercept(daemon[s].token, command.token) THEN "Unauthenticated"
              ELSE IF needs \in daemon[s].on \cup {"none"} THEN "handled" ELSE "FailedPrecondition")
  /\ kept' = IF command'.status = "Unauthenticated" THEN kept
             ELSE [kept EXCEPT ![s] = @ \cup {command.token}]
  /\ UNCHANGED <<admin, daemon, configured, lan>>

\* The reflection service is added without the interceptor: it answers any client,
\* with the names of the services and their messages.
Reflect == \E s \in Reached :
  /\ command.at = "send" /\ Answered(s, "reflected")
  /\ UNCHANGED <<admin, process, lan>>

-----------------------------------------------------------------------------

\* No two machines have one address.
Distinct(f) == \A s, t \in Servers : f[s] = f[t] /\ f[s] # None => s = t

AccessInit ==
  /\ file \in [Servers -> [Range(SearchPaths) -> Contents \cup {None, Broken}]]
  /\ unitToken = [s \in Servers |-> None] /\ systemdToken = unitToken /\ daemon = unitToken
  /\ address \in [Servers -> Lan \cup {None}] /\ Distinct(address)
  /\ advertised = [s \in Servers |-> None]
  /\ used = Chosen /\ edits = 0 /\ command = NoCommand
  /\ configured = unitToken /\ kept = [s \in Servers |-> {}]
  /\ steps = [s \in Servers |-> "none"]

AdminStep(s) == EditToml(s) \/ Install(s) \/ Uninstall(s) \/ DaemonReload(s)
                \/ StartUnit(s) \/ EnableRunning(s)
ProcessStep(s) == StartByHand(s) \/ Exit(s)
LanStep(s) == Announce(s) \/ Expire(s) \/ Renumber(s)

CallStep == Command \/ (\E s \in Servers : Resolved(s)) \/ ResolveEndpoint
            \/ Unreached \/ Channel \/ Handle \/ Reflect

AccessNext ==
  \/ \E s \in Servers : AdminStep(s) \/ ProcessStep(s) \/ LanStep(s)
  \/ CallStep

AccessSpec == AccessInit /\ [][AccessNext]_accessVars

-----------------------------------------------------------------------------
(* Properties. *)

Handled == command.status \in {"handled", "FailedPrecondition"}

AccessTypeOK ==
  /\ \A s \in Servers : /\ daemon[s] = None \/ daemon[s] \in Process
                        /\ unitToken[s] \in Tokens \cup {None} /\ systemdToken[s] \in Tokens \cup {None}
                        /\ kept[s] \subseteq used /\ address[s] \in Lan \cup {None}
                        /\ advertised[s] = None \/ advertised[s] \subseteq Lan \cup {Bridge}
  /\ command.at \in {"browse", "connect", "send", "done"} /\ command.found \subseteq Discovered

\* No server handles a call of zerod's services without a token, whatever its
\* settings, its unit and its environment lack, and none with another token than its
\* own.  "Bearer-token check applied to every RPC" (server/src/lib.rs:113) claims it of
\* the reflection service too, which has no interceptor: see Reflect.
OnlyWithToken == Handled => command.token # None /\ command.token = command.key

\* Crashes, restarts and edits that have not come into configured lock no client out: a
\* token that was accepted is, until a start with another token in zerod.toml or
\* in the environment, or with neither (zerod.service.in, [Service]).
RestartKeepsToken == command.status = "Unauthenticated" => command.token \notin kept[command.server]

\* A command that has looked for its server is handled by the one it named, or the
\* only one that answered, whatever Docker's bridge leaks into its record and whoever
\* else answers, as long as the record has the machine's address right: after a new
\* lease, or with no other address than the bridge's, nothing but the token tells
\* another daemon from it.
HandledByNamed ==
  [][command.at = "send" /\ Handled' /\ command.found # {} =>
       /\ Wanted # {}
       /\ \A d \in Wanted : d.addresses \ {Bridge} = {address[d.name]} => command'.server = d.name
    ]_accessVars

\* The steps "zerod service install" prints make the token it prints valid
\* (src/main.rs:461-485), which the run shows not to be so.
PrintedTokenWorks == command.status = "Unauthenticated" =>
  ~(steps[command.server] = "enabled" /\ unitToken[command.server] = command.token)
=============================================================================

-------------------------------- MODULE Host --------------------------------
(***************************************************************************)
(* The calls that act on the host through systemd, the Bluetooth adapter   *)
(* and the mixer: SystemdService (crates/server/src/systemd.rs), the A2DP  *)
(* and discoverable calls of BluetoothService (crates/server/src/          *)
(* bluetooth.rs), VolumeService (crates/server/src/volume.rs) and, by      *)
(* module PutConfig, ConfigService.                                        *)
(***************************************************************************)
EXTENDS PutConfig, Mixer

CONSTANTS Clients,                 \* callers of the other services than ConfigService
          A2dpUnit, A2dpEnabled,   \* [bluetooth.a2dp] of zerod.toml
          SystemdUnits,            \* [systemd] units of zerod.toml
          Percents,                \* what SetVolume is asked for
          Services                 \* of "units", "mixer", "config": whose calls are made

\* The A2DP unit need not be listed by hand.
SystemdAllowlist == SystemdUnits \cup (IF A2dpEnabled THEN {A2dpUnit} ELSE {})

ASSUME HostAssumption == /\ Callers = Clients \cup Puts /\ A2dpUnit \in Units
                         /\ A2dpEnabled \in BOOLEAN /\ Percents \subseteq Nat
                         /\ Allow = SystemdAllowlist /\ IsFiniteSet(Allow)
                         /\ Units \cap (Statuses \cup {"adapter", "none", "stream", "Master", "PCM"}) = {}

VARIABLES
  service,        \* the service called in this behaviour
  discoverable    \* of the Bluetooth adapter

hostVars == <<putVars, mixerVars, service, discoverable>>

HostInit == /\ PutInit /\ MixerInit /\ service \in Services /\ discoverable = FALSE

\* set_discoverable: the timeout, then the flag.
SetDiscoverable(on, err) == Try(<<"timeout", IF on THEN "on" ELSE "off">>, "adapter", err)

Require == Try(<<"require">>, "a2dp", "FailedPrecondition")

\* mutant
A2dpEnableLogged ==
  Require \o Try(<<"check">> \o StatusSteps, A2dpUnit, "FailedPrecondition")
    \o Job("start", A2dpUnit) \o SetDiscoverable(TRUE, "logged")

\* a2dp_enable: the pre-flight status, the start, then the adapter.
A2dpEnable ==
  Require \o Try(<<"check">> \o StatusSteps, A2dpUnit, "FailedPrecondition")
    \o Job("start", A2dpUnit) \o SetDiscoverable(TRUE, "Internal")

\* a2dp_disable goes on when the adapter fails.
A2dpDisable == Require \o SetDiscoverable(FALSE, "logged") \o Job("stop", A2dpUnit)

-----------------------------------------------------------------------------
(* Requests. *)

RequestUnit(c) == \E u \in Units, kind \in Jobs \cup Files \cup {"status"} :
  Begin(c, kind, u, 0, IF kind = "status" THEN Status(u)
                         ELSE IF kind \in Jobs THEN Job(kind, u) ELSE File(kind, u))

RequestList(c) == Begin(c, "list", "none", 0, List)

RequestA2dp(c) ==
  \/ Begin(c, "a2dp_enable", A2dpUnit, 0, A2dpEnable)
  \/ Begin(c, "a2dp_disable", A2dpUnit, 0, A2dpDisable)
  \/ \E on \in BOOLEAN :
       Begin(c, IF on THEN "on" ELSE "off", "adapter", 0, SetDiscoverable(on, "Internal"))

RequestVolume(c) == \E sel \in {"Master", "PCM"} :
  \/ Begin(c, "list_mixers", "none", 0, ListMixers)
  \/ \E pct \in Percents : Begin(c, "gain", "stream", pct, SetStreamVolume)
  \/ Begin(c, "get_volume", sel, 0, GetVolume(sel))
  \/ \E pct \in Percents : Begin(c, "set_volume", sel, pct, SetLevel("set_volume", sel))
  \/ \E mute \in {0, 1} : Begin(c, "set_mute", sel, mute, SetLevel("set_mute", sel))

-----------------------------------------------------------------------------
(* The steps. *)

RequireStep(c) == Due(c, "require") /\ IF A2dpEnabled THEN Pass(c) ELSE Miss(c)

AdapterStep(c) ==
  \/ Due(c, "timeout") /\ Ask(c) /\ UNCHANGED discoverable
  \/ \E on \in BOOLEAN :
       /\ Due(c, IF on THEN "on" ELSE "off")
       /\ \/ Do(c) /\ discoverable' = on
          \/ Miss(c) /\ UNCHANGED discoverable

Facts == [on \in Units \cup {"adapter", "none", "stream", "Master", "PCM"} |->
  IF on \in Units THEN UnitFacts(on) ELSE MixerFacts(on)]

OnUnits == service = "units" /\ UNCHANGED <<vars, loaded, mixerVars, service>>
OnMixer == service = "mixer" /\ UNCHANGED <<vars, loaded, unit, discoverable, service>>
OnConfig == service = "config" /\ UNCHANGED <<mixerVars, discoverable, service>>

\* BlueZ ends the discoverable time.
TimeOut == discoverable /\ discoverable' = FALSE

HostNext ==
  /\ \/ \E c \in Clients :
          \/ /\ OnUnits /\ UNCHANGED <<unit, discoverable>>
             /\ RequestUnit(c) \/ RequestList(c) \/ RequestA2dp(c) \/ RequireStep(c) \/ PublishStep(c)
          \/ OnUnits /\ UNCHANGED discoverable /\ UnitStep(c)
          \/ OnUnits /\ UNCHANGED unit /\ AdapterStep(c)
          \/ OnMixer /\ UNCHANGED mixerVars /\ (RequestVolume(c) \/ PublishStep(c))
          \/ OnMixer /\ MixerStep(c)
     \/ OnUnits /\ UNCHANGED <<call, discoverable>> /\ \E u \in Units : RunJob(u)
     \/ OnUnits /\ UNCHANGED <<call, unit>> /\ TimeOut
     \/ OnMixer /\ UNCHANGED call /\ \E m \in Controls : Knob(m)
     \/ OnConfig /\ PutNext
  /\ Follow(Facts')

HostSpec == HostInit /\ [][HostNext]_hostVars

-----------------------------------------------------------------------------
(* Properties. *)

HostTypeOK == PutTypeOK /\ CallsTypeOK /\ UnitsTypeOK /\ MixerTypeOK /\ discoverable \in BOOLEAN

\* What a call that reports success has changed: all that it was asked for, and
\* nothing else.  A2dpDisable may leave the adapter as it is, but not the unit.
Changes(r) ==
  IF r.op = "a2dp_enable" THEN {{<<"start", A2dpUnit>>, <<"on", "adapter">>}}
  ELSE IF r.op = "a2dp_disable" THEN {{<<"stop", A2dpUnit>>}, {<<"off", "adapter">>, <<"stop", A2dpUnit>>}}
  ELSE IF r.op \in {"status", "list", "list_mixers", "get_volume"} THEN {{}}
  ELSE {{<<r.op, r.on>>}}

OkIsDone == \A c \in Callers : call[c].reply = "Ok" => call[c].did \in Changes(call[c])
=============================================================================

------------------------------- MODULE Units -------------------------------
(***************************************************************************)
(* systemd units behind the allowlist (crates/systemd/src/lib.rs): each    *)
(* operation is a few D-Bus calls, and after a change the status is read   *)
(* back, property by property, for a SystemdUnitState event.               *)
(*                                                                         *)
(* systemd answers a job request when it has queued the job, in the place  *)
(* of the one queued before; it runs the job later.  LoadUnit succeeds for *)
(* a unit that is not installed, a job on it does not.  Of the status, the *)
(* active state and the file state are kept.                               *)
(***************************************************************************)
EXTENDS Calls, SequencesExt

CONSTANTS Units, Allow, Installed   \* UnitAllowlist; units with a unit file

ASSUME UnitsAssumption == Allow \subseteq Units /\ Installed \subseteq Units

VARIABLES unit   \* of each: its active state, whether enabled, its queued job

UnitsInit == unit = [u \in Units |-> [active |-> "inactive", enabled |-> FALSE, job |-> "none"]]

Jobs == {"start", "stop", "restart", "reload"}
Files == {"enable", "disable"}

Check(u) == Try(<<"check">>, u, "PermissionDenied")
StatusSteps == <<"connect", "load", "enabled", "active">>

\* publish_after: status(), then the event; without a status there is none.
PublishAfter(u) == Try(<<"check">> \o StatusSteps \o <<"publish">>, u, "event")

Status(u) == Check(u) \o Try(StatusSteps, u, "Internal")

\* list: the status of one unit after the other; one that fails is listed as unknown.
List == LET u(k) == SetToSeq(Allow)[(k - 1) \div 5 + 1] IN
  [k \in 1..(5 * Cardinality(Allow)) |->
    [do |-> (<<"check">> \o StatusSteps)[((k - 1) % 5) + 1], on |-> u(k), err |-> u(k)]]

\* mutant
UncheckedJob(kind, u) == Try(<<"connect", kind>>, u, "Internal") \o PublishAfter(u)

\* mutant
JobReadFirst(kind, u) == Check(u) \o Try(StatusSteps \o <<kind>>, u, "Internal") \o Try(<<"publish">>, u, "event")

\* start, stop, restart, reload: a job in mode "replace".
Job(kind, u) == Check(u) \o Try(<<"connect", kind>>, u, "Internal") \o PublishAfter(u)

\* enable, disable: the unit file is linked or unlinked, then daemon-reload,
\* whose error is ignored.
File(kind, u) == Check(u) \o Try(<<"connect", kind>>, u, "Internal")
                   \o Try(<<"daemon_reload">>, u, "ignored") \o PublishAfter(u)

-----------------------------------------------------------------------------
(* The steps. *)

\* allow.check.
CheckStep(c) == Due(c, "check") /\ (IF Now(c).on \in Allow THEN Pass(c) ELSE Miss(c)) /\ UNCHANGED unit

\* connect, LoadUnit, Reload: the bus or systemd may fail.
BusStep(c) == (Due(c, "connect") \/ Due(c, "load") \/ Due(c, "daemon_reload")) /\ Ask(c) /\ UNCHANGED unit

\* A property that cannot be read is left at its default.
ReadStep(c) == LET u == Now(c).on IN
  /\ \/ Due(c, "active") /\ \E read \in {{}, {unit[u].active}} : See(c, "active", read)
     \/ Due(c, "enabled") /\ \E read \in {{}, {unit[u].enabled}} : See(c, "enabled", read)
  /\ UNCHANGED unit

\* StartUnit, StopUnit, RestartUnit, ReloadUnit, EnableUnitFiles, DisableUnitFiles.
\* A unit that is not installed refuses, an inactive one a reload.
ChangeStep(c) == \E kind \in Jobs \cup Files : LET u == Now(c).on IN
  /\ Due(c, kind)
  /\ \/ /\ u \in Installed /\ (kind = "reload" => unit[u].active = "active") /\ Do(c)
        /\ unit' = IF kind \in Jobs THEN [unit EXCEPT ![u].job = kind]
                   ELSE [unit EXCEPT ![u].enabled = (kind = "enable")]
     \/ Miss(c) /\ UNCHANGED unit

UnitStep(c) == CheckStep(c) \/ BusStep(c) \/ ReadStep(c) \/ ChangeStep(c)

\* systemd runs the queued job; a unit that is started may fail.
RunJob(u) ==
  /\ unit[u].job # "none"
  /\ \E a \in (IF unit[u].job = "stop" THEN {"inactive"}
               ELSE IF unit[u].job = "reload" THEN {unit[u].active} ELSE {"active", "failed"}) :
       unit' = [unit EXCEPT ![u].job = "none", ![u].active = a]

UnitFacts(u) == {<<"active", unit[u].active>>, <<"enabled", unit[u].enabled>>}

-----------------------------------------------------------------------------
(* Properties. *)

UnitsTypeOK == unit \in [Units -> [active : {"active", "inactive", "failed"}, enabled : BOOLEAN,
                                   job : Jobs \cup {"none"}]]

\* "only configured units accept actions" (lib.rs:4-5): no call of any service
\* has asked systemd to change another, and one that is refused for its unit or for
\* a precondition has changed nothing.
OnlyListed ==
  /\ RefusedUntouched
  /\ \A c \in Callers, u \in Units \ Allow, kind \in Jobs \cup Files : <<kind, u>> \notin call[c].did
=============================================================================

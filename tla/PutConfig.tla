----------------------------- MODULE PutConfig -----------------------------
(***************************************************************************)
(* PutConfig with its post-write action (apply_action in crates/config/    *)
(* src/lib.rs): a call of module ConfigStore that has written its file     *)
(* becomes a reload or restart of the bound unit, a call of module Units.  *)
(* The unit reads its file when systemd runs the job.                      *)
(***************************************************************************)
EXTENDS ConfigStore, Units

CONSTANTS BoundUnit,    \* ManagedConfig::unit
          MaxActions    \* bound: only the first calls to take effect take an action

ASSUME PutConfigAssumption == Puts \subseteq Callers /\ BoundUnit \in Units /\ MaxActions \in Nat

VARIABLE loaded         \* content the unit last read

putVars == <<vars, scriptVars, unit, loaded>>

PutInit == Init /\ CallsInit /\ UnitsInit /\ loaded = Whole(Old)

\* mutant
ActIgnored(w) ==
  /\ At(w, "action") /\ Reply(w, "applied")
  /\ UNCHANGED <<target, tmp, content, mode, effected, reader, call>>

\* No unit, or PostWriteAction::None; or else Reload or Restart begins.
Act(w) ==
  /\ At(w, "action")
  /\ \/ Reply(w, "written") /\ UNCHANGED call
     \/ /\ Len(effected) <= MaxActions
        /\ \E kind \in {"reload", "restart"} :
             Begin(w, kind, BoundUnit, 0, Job(kind, BoundUnit))
        /\ Go(w, "acting") /\ UNCHANGED callVars
  /\ UNCHANGED <<target, tmp, content, mode, effected, reader>>

\* A call that is over, or dropped by its client or with the process.
Forget(over) == call' = [c \in Callers |-> IF c \in over THEN NoCall ELSE call[c]]

\* systemd's error is PutConfig's, although the file is written.
Acted(w) ==
  /\ At(w, "acting") /\ ~Busy(w)
  /\ Reply(w, IF call[w].reply = "Ok" THEN "applied" ELSE "unapplied") /\ Forget({w})
  /\ UNCHANGED <<target, tmp, content, mode, effected, reader>>

ActOver(w) ==
  /\ gone[w] /\ pc[w] = "acting" /\ Forget({w}) /\ End({w})
  /\ UNCHANGED <<target, tmp, content, mode, outcome, effected, reader>>

\* The unit reads its file when it is started or told to reload.
Load == /\ unit[BoundUnit].job \in {"start", "restart", "reload"} /\ RunJob(BoundUnit)
        /\ loaded' = content[target] /\ UNCHANGED <<vars, call>>

PutNext ==
  \/ \E w \in Puts :
       \/ PutStep(w) /\ UNCHANGED <<call, unit, loaded>>
       \/ (Act(w) \/ Acted(w) \/ ActOver(w)) /\ UNCHANGED <<unit, loaded>>
       \/ ~gone[w] /\ UnitStep(w) /\ UNCHANGED <<vars, loaded>>
       \/ ~gone[w] /\ PublishStep(w) /\ UNCHANGED <<vars, unit, loaded>>
  \/ Read /\ UNCHANGED <<call, unit, loaded>>
  \/ Restart /\ Forget(Puts) /\ UNCHANGED <<unit, loaded>>
  \/ Load

-----------------------------------------------------------------------------
(* Properties. *)

PutTypeOK == TypeOK /\ loaded \in Content

\* A PutConfig that reports its action applied has the unit read its content, or
\* that of a later one, unless systemd still has a job for it: no restart that is
\* under way, no other call and no end of the daemon makes the unit keep what it
\* had.
AppliedIsRead == \A k \in DOMAIN effected :
  outcome[effected[k]] = "applied" /\ unit[BoundUnit].job = "none"
  => \E j \in k..Len(effected) : loaded = Whole(effected[j])
=============================================================================

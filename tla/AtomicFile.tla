----------------------------- MODULE AtomicFile -----------------------------
(***************************************************************************)
(* What crates/config/src/lib.rs:1-4 promises of a managed file: its       *)
(* content is always one that somebody wrote as a whole, and changes only  *)
(* by a write taking effect, which each write does at most once.           *)
(***************************************************************************)
CONSTANTS Writes, Old

VARIABLES file,     \* whose content the file has
          effected  \* the writes that have taken effect

Init == file = Old /\ effected = {}

Effect(w) == /\ w \notin effected
             /\ file' = w
             /\ effected' = effected \cup {w}

Spec == Init /\ [][\E w \in Writes : Effect(w)]_<<file, effected>>
=============================================================================

------------------------------- MODULE MCHost -------------------------------
(***************************************************************************)
(* Module Host for interchangeable clients and interchangeable PutConfig   *)
(* calls.  One client makes any call; the other makes one that changes     *)
(* what the first may change or read.                                      *)
(***************************************************************************)
EXTENDS Host

Symmetry == Permutations(Clients) \cup Permutations(Puts)

\* The job of a stop moves the active state, enable the file state.
Disturbs(r) == \/ r.op \in {"none", "stop", "enable"}
               \/ r.op = "set_volume" /\ r.on = "Master"

MCNext == HostNext /\ Cardinality({c \in Clients : ~Disturbs(call'[c])}) <= 1

MCSpec == HostInit /\ [][MCNext]_hostVars
=============================================================================

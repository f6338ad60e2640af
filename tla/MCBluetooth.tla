---------------------------- MODULE MCBluetooth ----------------------------
(***************************************************************************)
(* Module Bluetooth in three settings: "agent", three prompts of two       *)
(* phones and no calls; "calls", two prompts of one phone and a caller;    *)
(* "race", two callers and no agent.                                       *)
(***************************************************************************)
EXTENDS Bluetooth, TLC

CONSTANTS i1, i2, i3, phone, tablet, c1, c2

VARIABLE setting

MCAddressOf == (i1 :> phone) @@ (i2 :> phone) @@ (i3 :> tablet)

MCInit == /\ BtInit /\ setting \in {"agent", "calls", "race"}
          /\ setting = "agent" => device[phone].known /\ device[tablet].known
          /\ setting # "agent" => ~device[tablet].known

MCNext ==
  /\ BtNext /\ UNCHANGED setting
  /\ setting = "agent" => UNCHANGED <<call, device>>
  /\ setting = "calls" => /\ call'[c2] = NoCall /\ prompt'[i3] = "none"
                          /\ device'[phone].connected # device[phone].connected => call' # call
  /\ setting = "race" => UNCHANGED agent /\ \A c \in Callers : call'[c].op \notin {"scan", "list", "pair"}
  /\ \A c \in Callers : call'[c].on # tablet

MCSpec == MCInit /\ [][MCNext]_<<btVars, setting>> /\ BtFairness
=============================================================================

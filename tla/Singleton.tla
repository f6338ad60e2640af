----------------------------- MODULE Singleton -----------------------------
(***************************************************************************)
(* What crates/stream promises of its player slot, in the words of the     *)
(* header of player.rs ("Singleton player state machine. One stream at a   *)
(* time.") as far as the code keeps it: at most one player is current, a   *)
(* player is current once, it stops being current by being cancelled and   *)
(* by nothing else, and no other player is ever cancelled.                 *)
(***************************************************************************)
CONSTANTS Players,      \* one element per Player object
          NoPlayer      \* Option::None

VARIABLES current,      \* the player that Pause, Resume and Status act on
          cancelled     \* the players told to stop

Init == current = NoPlayer /\ cancelled = {}

\* A player nobody has cancelled becomes current when no other one is.
Install(p) == /\ current = NoPlayer
              /\ p \notin cancelled
              /\ current' = p
              /\ UNCHANGED cancelled

\* The current player is told to stop and is current no longer.
Retire == /\ current # NoPlayer
          /\ current' = NoPlayer
          /\ cancelled' = cancelled \cup {current}

Next == Retire \/ \E p \in Players : Install(p)

Spec == Init /\ [][Next]_<<current, cancelled>>
=============================================================================

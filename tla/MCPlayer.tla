------------------------------ MODULE MCPlayer ------------------------------
(* Module Player on small sets of players and handlers. *)
EXTENDS Player, TLC

\* Players are interchangeable (all of them, or none, are Spotify's), and so
\* are handlers.
Symmetry == Permutations(Players) \cup Permutations(Rpcs)
=============================================================================

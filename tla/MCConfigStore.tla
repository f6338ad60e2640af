--------------------------- MODULE MCConfigStore ---------------------------
(* Module ConfigStore for a few interchangeable PutConfig calls. *)
EXTENDS ConfigStore, TLC

Symmetry == Permutations(Puts)
=============================================================================

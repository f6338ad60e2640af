--------------------------- MODULE MCPairingAgent ---------------------------
(* Three prompts: two of one phone, one of another. *)
EXTENDS PairingAgent, TLC

CONSTANTS i1, i2, i3, phone, tablet

MCAddressOf == (i1 :> phone) @@ (i2 :> phone) @@ (i3 :> tablet)
=============================================================================

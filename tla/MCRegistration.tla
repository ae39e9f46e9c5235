--------------------------- MODULE MCRegistration ---------------------------
(* An invite for one use and one for two. *)
EXTENDS Registration, TLC
CONSTANTS i1, i2
MCMaxUses == (i1 :> 1) @@ (i2 :> 2)
=============================================================================

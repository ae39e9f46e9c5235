------------------------------ MODULE MCAccess ------------------------------
(* A buyer under a mediator under an agency. *)
EXTENDS Access, TLC
CONSTANTS agency, mediator, buyer
MCChain == (agency :> <<>>) @@ (mediator :> <<agency>>) @@ (buyer :> <<mediator, agency>>)
=============================================================================

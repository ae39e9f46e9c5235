---------------------------- MODULE MCCampaigns ----------------------------
(* All mediators belong to one agency, so they are interchangeable. *)
EXTENDS Campaigns, TLC
MCAgencyOf == [m \in Mediator |-> CHOOSE g \in Agency : TRUE]
Symmetry == Permutations(Request) \cup Permutations(Order) \cup Permutations(Mediator)
            \cup Permutations(Price)
=============================================================================

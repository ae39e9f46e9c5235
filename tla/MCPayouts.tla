----------------------------- MODULE MCPayouts -----------------------------
(* A brand that can pay the smaller amount only, until it is refunded, and  *)
(* a mediator that can pay out either amount once; the agency's wallet may  *)
(* be deleted.                                                              *)
EXTENDS Payouts, TLC

CONSTANTS c1, c2, r1, r2

MCOwner == {brand, agency, mediator}
MCInitialWallet ==
    (brand :> [status |-> "live", available |-> 1])
    @@ (agency :> [status |-> "live", available |-> 0])
    @@ (mediator :> [status |-> "live", available |-> 2])
Symmetry == Permutations(Caller) \cup Permutations(Ref)
=============================================================================

---------------------------- MODULE MCSettlement ----------------------------
(* Two orders of one mediator on one campaign of one brand, the second one  *)
(* with a discount (a negative commission), which leaves the whole payout   *)
(* to the mediator.                                                         *)
EXTENDS Settlement, TLC

CONSTANTS o1, o2, brand, buyer, mediator, Shortage

MCOwner == {brand, buyer, mediator}
MCBrand == [o \in Order |-> brand]
MCBuyer == [o \in Order |-> buyer]
MCMediator == [o \in Order |-> mediator]
MCNoMediator == [o \in Order |-> NoMediator]
MCCommission == (o1 :> 1) @@ (o2 :> -1)
OnePayout == (o1 :> {3}) @@ (o2 :> {2})
TwoPayouts == [o \in Order |-> {2, 3}]
ShortPayouts == [o \in Order |-> {1, 3}]
MCDearCommission == [o \in Order |-> 2]
MCInitialWallet ==
    [w \in Owner |-> [status |-> "live", available |-> IF w = brand THEN 8 - Shortage ELSE 0]]
Symmetry == Permutations(Caller)
=============================================================================

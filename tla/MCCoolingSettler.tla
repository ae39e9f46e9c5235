--------------------------- MODULE MCCoolingSettler ---------------------------
(* The settler and one manual handler over one order; the values are those   *)
(* of the settlement's model.                                                *)
EXTENDS CoolingSettler, TLC

CONSTANTS o1, brand, buyer, mediator

MCOwner == {brand, buyer, mediator}
MCBrand == [o \in Order |-> brand]
MCBuyer == [o \in Order |-> buyer]
MCMediator == [o \in Order |-> mediator]
MCCommission == [o \in Order |-> 1]
OnePayout == [o \in Order |-> {3}]
MCInitialWallet ==
    [w \in Owner |-> [status |-> "live", available |-> IF w = brand THEN 8 ELSE 0]]
===============================================================================

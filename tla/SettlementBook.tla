--------------------------- MODULE SettlementBook ---------------------------
(***************************************************************************)
(* What settling and unsettling orders promises: an order is either paid   *)
(* from the wallets or not, it is paid at most once until it is reversed,  *)
(* and each step moves exactly the order's money, from the brand to the    *)
(* buyer and the mediator or back.                                         *)
(***************************************************************************)
EXTENDS Integers, FiniteSets

CONSTANTS Order, Owner,
          Brand, Buyer, Mediator,   \* [Order -> Owner]
          Payout, Reward,           \* [Order -> Nat]
          Limit,                    \* wallet settlements of the mediator, 0 for none
          InitialBalance

VARIABLES settled, balance

Share(o, w) == (IF w = Buyer[o] THEN Reward[o] ELSE 0)
               + (IF w = Mediator[o] THEN Payout[o] - Reward[o] ELSE 0)
               - (IF w = Brand[o] THEN Payout[o] ELSE 0)

Init == settled = {} /\ balance = InitialBalance

Settle(o) == /\ o \notin settled
             /\ Limit > 0 => Cardinality(settled) < Limit
             /\ settled' = settled \cup {o}
             /\ balance' = [w \in Owner |-> balance[w] + Share(o, w)]

Unsettle(o) == /\ o \in settled
               /\ settled' = settled \ {o}
               /\ balance' = [w \in Owner |-> balance[w] - Share(o, w)]

NeverNegative == \A w \in Owner : balance'[w] >= 0

Next == \E o \in Order : (Settle(o) \/ Unsettle(o)) /\ NeverNegative

Spec == Init /\ [][Next]_<<settled, balance>>
=============================================================================

------------------------------ MODULE MCWallet ------------------------------
(* A brand with three units and a buyer whose wallet is not there yet,      *)
(* under a ceiling of three.  The batches: a settlement, its reversal, a    *)
(* batch that locks the buyer's row before the brand's (the service imposes *)
(* no order on its callers), and one that is refused after its first        *)
(* update.  Keys are shared with the same operation, with another type and  *)
(* with another amount; a credit can overflow the ceiling and a debit the   *)
(* balance.                                                                 *)
EXTENDS Wallet, TLC

CONSTANTS brand, buyer, k1, k2, k3, k4

Row0(s, a) == [status |-> s, available |-> a]
MCInitialWallet == (brand :> Row0("live", 3)) @@ (buyer :> Row0("none", 0))

Debit(k, t, w, a) == [op |-> "debit", key |-> k, type |-> t, owner |-> w, amount |-> a]
Credit(k, t, w, a) == [op |-> "credit", key |-> k, type |-> t, owner |-> w, amount |-> a]

MCBatches ==
    { << Debit(k1, "order_settlement_debit", brand, 2),
         Credit(k2, "commission_settle", buyer, 2) >>,
      << Debit(k3, "commission_reversal", buyer, 1),
         Credit(k4, "refund", brand, 1) >>,
      << Credit(k4, "brand_deposit", buyer, 2),
         Debit(k1, "order_settlement_debit", brand, 2) >>,
      << Debit(k1, "order_settlement_debit", brand, 1),
         Credit(k3, "brand_deposit", buyer, 0) >> }
=============================================================================

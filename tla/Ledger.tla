------------------------------- MODULE Ledger -------------------------------
(***************************************************************************)
(* What the wallet service promises its callers: a batch of credits and    *)
(* debits, the ones a caller groups in one database transaction, is posted *)
(* in one step or not at all; a mutation whose idempotency key is already  *)
(* in the ledger moves no money; balances stay in 0 .. MaxBalance.         *)
(*                                                                         *)
(* The operators of this module are the service's rules on one mutation,   *)
(* shared by every module that moves money.                                *)
(***************************************************************************)
EXTENDS Integers, SequencesExt

CONSTANTS Owner,        \* wallet owners (users)
          Key,          \* idempotency keys
          MaxBalance,   \* WALLET_MAX_BALANCE_PAISE
          Batches,      \* the batches callers may post
          InitialWallet, \* [Owner -> [status, available]]
          NoEntry       \* no ledger row under that key

VARIABLES wallet,       \* [Owner -> [status, available]]
          ledger        \* [Key -> the mutation recorded under it, or NoEntry]

TransactionType ==
    {"brand_deposit", "platform_fee", "commission_lock", "commission_settle", "cashback_lock",
     "cashback_settle", "order_settlement_debit", "commission_reversal", "margin_reversal",
     "agency_payout", "agency_receipt", "payout_request", "payout_complete", "payout_failed",
     "refund"}

(* The rows applyWalletCredit and applyWalletDebit are given: an entry of   *)
(* the transactions table keeps all of it.                                  *)
Mutation == [op : {"credit", "debit"}, key : Key, type : TransactionType,
             owner : Owner, amount : Int]

WalletStatus == {"none", "live", "deleted"}
-----------------------------------------------------------------------------
Signed(m) == IF m.op = "credit" THEN m.amount ELSE -m.amount

(* The input checks in front of both functions: the amount is positive.     *)
ValidInput(m) == m.amount > 0

(* An earlier row under the same key is the same operation: the owner is    *)
(* not compared.                                                            *)
SameOperationUnchecked(e, m) == TRUE
SameOperation(e, m) == e.type = m.type /\ e.amount = m.amount

(* The WHERE clause of the conditional UPDATE, on the current row.          *)
MayCreditNoCeiling(row, m) == row.status # "deleted"
MayCredit(row, m) == /\ row.status # "deleted"
                     /\ row.available + m.amount <= MaxBalance
MayDebitNoFloor(row, m) == row.status = "live"
MayDebit(row, m)  == /\ row.status = "live"
                     /\ row.available >= m.amount
MayApply(row, m)  == IF m.op = "credit" THEN MayCredit(row, m)
                                        ELSE MayDebit(row, m)

(* One mutation on a state st = [ok, wallet, ledger]: a repeated key changes *)
(* nothing, a refusal clears ok and with it the whole batch.                *)
ApplyMutation(st, m) ==
    LET row == st.wallet[m.owner]
    IN  IF ~st.ok \/ ~ValidInput(m) THEN [st EXCEPT !.ok = FALSE]
        ELSE IF st.ledger[m.key] # NoEntry
             THEN [st EXCEPT !.ok = SameOperation(st.ledger[m.key], m)]
        ELSE IF ~MayApply(row, m) THEN [st EXCEPT !.ok = FALSE]
        ELSE [ok |-> TRUE,
              wallet |-> [st.wallet EXCEPT ![m.owner] =
                 [status |-> "live", available |-> row.available + Signed(m)]],
              ledger |-> [st.ledger EXCEPT ![m.key] = m]]

ApplyBatch(wal, led, batch) ==
    FoldLeft(ApplyMutation, [ok |-> TRUE, wallet |-> wal, ledger |-> led], batch)
-----------------------------------------------------------------------------
Init == /\ wallet = InitialWallet
        /\ ledger = [k \in Key |-> NoEntry]

Post(batch) == LET res == ApplyBatch(wallet, ledger, batch)
               IN  /\ res.ok
                   /\ wallet' = res.wallet
                   /\ ledger' = res.ledger

(* ensureWallet *)
Open(w) == /\ wallet[w].status = "none"
           /\ wallet' = [wallet EXCEPT ![w].status = "live"]
           /\ UNCHANGED ledger

Delete(w) == /\ wallet[w].status = "live"
             /\ wallet' = [wallet EXCEPT ![w].status = "deleted"]
             /\ UNCHANGED ledger

Next == \/ \E batch \in Batches : Post(batch)
        \/ \E w \in Owner : Open(w) \/ Delete(w)

Spec == Init /\ [][Next]_<<wallet, ledger>>
=============================================================================

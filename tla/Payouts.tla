------------------------------- MODULE Payouts -------------------------------
(***************************************************************************)
(* Money that leaves the order workflow: payoutAgency of a brand, which    *)
(* moves it between two wallets or, without funds, only records it;        *)
(* payoutMediator, which debits a mediator's wallet (admin, ops) or only   *)
(* records it (agency); deletePayout; and the deletion of a wallet.        *)
(*                                                                         *)
(* A request may come twice: the same ref, in a second call.  A refused    *)
(* request changes nothing and is not an action, but a payoutAgency whose  *)
(* transaction fails for lack of funds, or of a wallet, goes on outside.   *)
(***************************************************************************)
EXTENDS Integers, Sequences, FiniteSets, Functions

CONSTANTS Caller, Owner, brand, agency, mediator,
          Ref,             \* references given by those who pay
          Amounts,
          Deletable,       \* the owners whose wallet an admin may delete
          MaxPayouts,      \* bound on the rows of the payouts table
          MaxRefund,       \* bound on what the brand is refunded
          MaxBalance, InitialWallet, NoEntry

VARIABLES wallet, ledger,
          payouts,    \* the payouts table: <<[ref, amount, status, deleted], ...>>
          refunded,   \* what unsettleOrderPayment gave back to the brand
          call

vars == <<wallet, ledger, payouts, refunded, call>>

PayoutId == 1 .. MaxPayouts
Key == ({"debit", "credit"} \X Ref) \cup ({"payout_complete"} \X PayoutId)

L == INSTANCE Ledger WITH Batches <- {}

(* A ledger row; recordManualPayoutLedger records one that moves nothing. *)
Row == [op : {"credit", "debit"}, key : Key, type : L!TransactionType, owner : Owner,
        amount : Amounts, moved : BOOLEAN]

ASSUME PayoutsAssumption ==
    /\ {brand, agency, mediator} \subseteq Owner /\ Deletable \subseteq Owner
    /\ Amounts \subseteq Nat \ {0}
    /\ MaxPayouts \in Nat /\ MaxRefund \in Nat /\ MaxBalance \in Nat
    /\ NoEntry \notin Row
    /\ InitialWallet \in [Owner -> [status : L!WalletStatus, available : 0 .. MaxBalance]]

Idle == [pc |-> "idle"]
Balance(w) == wallet[w].available
Call == {Idle}
        \cup [pc : {"pay", "manualdebit", "manualcredit"}, r : Ref, a : Amounts, hit : BOOLEAN]
        \cup [pc : {"payout"}, r : Ref, a : Amounts, status : {"paid", "recorded"}]
        \cup [pc : {"delete"}, i : PayoutId]
Payout == [ref : Ref, amount : Amounts, status : {"paid", "recorded"}, deleted : BOOLEAN]

TypeOK == /\ wallet \in [Owner -> [status : L!WalletStatus, available : 0 .. MaxBalance]]
          /\ ledger \in [Key -> Row \cup {NoEntry}]
          /\ payouts \in Seq(Payout) /\ Len(payouts) <= MaxPayouts
          /\ refunded \in 0 .. MaxRefund
          /\ call \in [Caller -> Call]

Init == /\ wallet = InitialWallet
        /\ ledger = [k \in Key |-> NoEntry]
        /\ payouts = <<>>
        /\ refunded = 0
        /\ call = [c \in Caller |-> Idle]
-----------------------------------------------------------------------------
Goto(c, next) == call' = [call EXCEPT ![c] = next]
At(c, pc) == call[c].pc = pc
Start(c) == call[c] = Idle

Entry(op, key, type, w, a) ==
    [op |-> op, key |-> key, type |-> type, owner |-> w, amount |-> a, moved |-> TRUE]
AgencyDebit(r, a) == Entry("debit", <<"debit", r>>, "agency_payout", brand, a)
AgencyCredit(r, a) == Entry("credit", <<"credit", r>>, "agency_receipt", agency, a)
ManualMoved(m) == m
Manual(m) == [m EXCEPT !.moved = FALSE]

(* payoutAgency: the transaction, with what its first lookup of the debit's *)
(* key found.                                                               *)
AgencyRead(c, r, a) ==
    /\ Start(c)
    /\ Goto(c, [pc |-> "pay", r |-> r, a |-> a, hit |-> ledger[<<"debit", r>>] # NoEntry])
    /\ UNCHANGED <<wallet, ledger, payouts, refunded>>

(* The debit finds no row to update: INSUFFICIENT_FUNDS, WALLET_NOT_FOUND.  *)
NoFunds(k) == ~k.hit /\ ~L!MayDebit(wallet[brand], AgencyDebit(k.r, k.a))

(* The debit passes and the credit, a new one, finds the wallet deleted:    *)
(* WALLET_NOT_FOUND.  A debit that another request posted after the lookup  *)
(* is a unique key violation before the credit.                             *)
NoWallet(k) ==
    LET d == ledger[<<"debit", k.r>>]
    IN  /\ IF k.hit THEN L!SameOperation(d, AgencyDebit(k.r, k.a)) ELSE d = NoEntry
        /\ ledger[<<"credit", k.r>>] = NoEntry
        /\ wallet[agency].status = "deleted"

AgencyPay(c) ==
    /\ At(c, "pay")
    /\ LET k == call[c]
           late == ~k.hit /\ ledger[<<"debit", k.r>>] # NoEntry
           res == L!ApplyBatch(wallet, ledger, <<AgencyDebit(k.r, k.a), AgencyCredit(k.r, k.a)>>)
       IN  IF res.ok /\ ~late
           THEN wallet' = res.wallet /\ ledger' = res.ledger /\ Goto(c, Idle)
           ELSE /\ Goto(c, IF NoFunds(k) \/ NoWallet(k) THEN [k EXCEPT !.pc = "manualdebit"] ELSE Idle)
                /\ UNCHANGED <<wallet, ledger>>
    /\ UNCHANGED <<payouts, refunded>>

(* recordManualPayoutLedger: two upserts that update nothing. *)
Upsert(m) == ledger' = IF ledger[m.key] = NoEntry
                       THEN [ledger EXCEPT ![m.key] = Manual(m)] ELSE ledger

ManualDebitForgotten(c) ==
    /\ At(c, "manualdebit")
    /\ Goto(c, [call[c] EXCEPT !.pc = "manualcredit"])
    /\ UNCHANGED <<wallet, ledger, payouts, refunded>>

ManualDebit(c) ==
    /\ At(c, "manualdebit")
    /\ Upsert(AgencyDebit(call[c].r, call[c].a))
    /\ Goto(c, [call[c] EXCEPT !.pc = "manualcredit"])
    /\ UNCHANGED <<wallet, payouts, refunded>>

ManualCredit(c) ==
    /\ At(c, "manualcredit")
    /\ Upsert(AgencyCredit(call[c].r, call[c].a))
    /\ Goto(c, Idle)
    /\ UNCHANGED <<wallet, payouts, refunded>>
-----------------------------------------------------------------------------
(* payoutMediator: admin and ops check the balance and debit it, an agency  *)
(* does neither.  The pair of provider and ref is unique in the table.      *)
PayoutRead(c, r, a, status) ==
    /\ Start(c)
    /\ status = "paid" => Balance(mediator) >= a
    /\ Goto(c, [pc |-> "payout", r |-> r, a |-> a, status |-> status])
    /\ UNCHANGED <<wallet, ledger, payouts, refunded>>

RefTakenByLive(r) == \E i \in DOMAIN payouts : payouts[i].ref = r /\ ~payouts[i].deleted
RefTaken(r) == \E i \in DOMAIN payouts : payouts[i].ref = r

PayoutWrite(c) ==
    /\ At(c, "payout")
    /\ LET k  == call[c]
           id == Len(payouts) + 1
           batch == IF k.status = "paid"
                    THEN <<Entry("debit", <<"payout_complete", id>>, "payout_complete",
                                 mediator, k.a)>>
                    ELSE <<>>
           res == L!ApplyBatch(wallet, ledger, batch)
       IN  IF id \in PayoutId /\ ~RefTaken(k.r) /\ res.ok
           THEN /\ payouts' = Append(payouts, [ref |-> k.r, amount |-> k.a,
                                               status |-> k.status, deleted |-> FALSE])
                /\ wallet' = res.wallet
                /\ ledger' = res.ledger
           ELSE UNCHANGED <<payouts, wallet, ledger>>
    /\ Goto(c, Idle)
    /\ UNCHANGED refunded

(* deletePayout refuses a payout with ledger entries. *)
HasWalletTxIgnored(i) == FALSE
HasWalletTx(i) == ledger[<<"payout_complete", i>>] # NoEntry
DeleteRead(c, i) ==
    /\ Start(c)
    /\ i \in DOMAIN payouts
    /\ ~payouts[i].deleted /\ ~HasWalletTx(i)
    /\ Goto(c, [pc |-> "delete", i |-> i])
    /\ UNCHANGED <<wallet, ledger, payouts, refunded>>

DeleteWrite(c) ==
    /\ At(c, "delete")
    /\ payouts' = [payouts EXCEPT ![call[c].i].deleted = TRUE]
    /\ Goto(c, Idle)
    /\ UNCHANGED <<wallet, ledger, refunded>>

(* unsettleOrderPayment refunds the brand. *)
Refund(a) ==
    /\ wallet[brand].status = "live"
    /\ refunded + a <= MaxRefund
    /\ Balance(brand) + a <= MaxBalance
    /\ wallet' = [wallet EXCEPT ![brand].available = @ + a]
    /\ refunded' = refunded + a
    /\ UNCHANGED <<ledger, payouts, call>>

(* deleteWallet, whose look at the balance is an earlier statement: a       *)
(* wallet may hold anything when it goes (module Wallet has the handler).   *)
DeleteWallet(w) ==
    /\ w \in Deletable /\ wallet[w].status = "live"
    /\ wallet' = [wallet EXCEPT ![w].status = "deleted"]
    /\ UNCHANGED <<ledger, payouts, refunded, call>>

Crash(c) == call[c] # Idle /\ Goto(c, Idle)
            /\ UNCHANGED <<wallet, ledger, payouts, refunded>>

Next == \/ \E c \in Caller :
              \/ \E r \in Ref, a \in Amounts :
                    \/ AgencyRead(c, r, a)
                    \/ \E status \in {"paid", "recorded"} : PayoutRead(c, r, a, status)
              \/ \E i \in PayoutId : DeleteRead(c, i)
              \/ AgencyPay(c)
              \/ ManualDebit(c)
              \/ ManualCredit(c)
              \/ PayoutWrite(c)
              \/ DeleteWrite(c)
              \/ Crash(c)
        \/ \E a \in Amounts : Refund(a)
        \/ \E w \in Owner : DeleteWallet(w)

Spec == Init /\ [][Next]_vars
-----------------------------------------------------------------------------
Moved(w) == {k \in Key : ledger[k] # NoEntry /\ ledger[k].moved /\ ledger[k].owner = w}

(* Every balance is explained by the ledger rows that name a wallet: the    *)
(* rows recorded without funds and the failed transactions count for none.  *)
BalancesMatchLedger ==
    \A w \in Owner :
        Balance(w) = InitialWallet[w].available
                     + (IF w = brand THEN refunded ELSE 0)
                     + SumFunctionOnSet([k \in Key |-> L!Signed(ledger[k])], Moved(w))

(* A payout marked paid was debited, and stays in the table: no crash       *)
(* between the row and the debit, no second payout that emptied the wallet  *)
(* after the check, no deletion separates the two.                          *)
PaidPayoutIsDebited ==
    \A i \in DOMAIN payouts : payouts[i].status = "paid" =>
        /\ ledger[<<"payout_complete", i>>] # NoEntry
        /\ ~payouts[i].deleted

(* However often a payout is requested, its ref pays once. *)
RefPaysOnce ==
    \A r \in Ref : Cardinality({i \in DOMAIN payouts : payouts[i].ref = r}) <= 1

(* payoutAgency: "Atomic payout: wrap debit + credit in a single Prisma     *)
(* transaction".  What a brand was debited reaches the agency, through      *)
(* retries, crashes and rows recorded without funds under the same ref.     *)
DebitReachesAgency ==
    \A r \in Ref :
        LET d == ledger[<<"debit", r>>]  e == ledger[<<"credit", r>>]
        IN  d # NoEntry /\ d.moved => e # NoEntry /\ e.moved /\ e.amount = d.amount

(* MONEY_FLOW.md: "Debit happens first; credit only occurs after a          *)
(* successful debit": an agency is credited what a brand was debited.       *)
ReceiptIsFunded ==
    \A r \in Ref : LET e == ledger[<<"credit", r>>]
                   IN  e # NoEntry /\ e.moved => ledger[<<"debit", r>>].moved
=============================================================================

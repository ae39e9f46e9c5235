----------------------------- MODULE Settlement -----------------------------
(***************************************************************************)
(* Settling an approved order and reversing the settlement, as concurrent  *)
(* handlers run them: settleOrderPayment in wallet and in external mode,   *)
(* unsettleOrderPayment, the workflow transitions they end with, and what  *)
(* happens around them: suspensions freeze orders, tickets open and close, *)
(* a deal is republished with another payout, the process dies.            *)
(*                                                                         *)
(* Every handler works on the order it read first.  The wallet batch and   *)
(* the order's new payment status are committed together; the workflow     *)
(* status follows in statements of its own.  A request that is refused     *)
(* changes nothing and is not an action.  The orders are those of one      *)
(* mediator on one campaign, past their cooling period.                    *)
(***************************************************************************)
EXTENDS Integers, Sequences, FiniteSets, FiniteSetsExt

CONSTANTS Order, Caller, Owner,
          Brand, Buyer,      \* [Order -> Owner]
          Mediator,          \* [Order -> Owner \cup {NoMediator}]
          NoMediator,        \* the mediator's user does not exist any more
          Commission,        \* [Order -> Int], commissionPaise of the item
          Payouts,           \* [Order -> SUBSET Nat], what a republish may set
          Limit,             \* the mediator's assigned limit, 0 for none
          MaxBalance, InitialWallet, NoEntry,
          MaxCycle,          \* bound: settlements counted in an order's events
          Overlap,           \* whether handlers, suspensions and deals interleave
          CanCrash           \* whether the process may die inside a handler

VARIABLES order,    \* [Order -> [wf, frozen, pay, aff, mode, cycle]]
          payout,   \* [Order -> payoutPaise of the order's deal]
          ticket,   \* the orders with an open ticket
          call,     \* what each handler in flight is doing
          wallet, ledger

vars == <<order, payout, ticket, call, wallet, ledger>>

Kind == {"order-settlement-debit", "order-commission", "order-margin",
         "order-unsettle-credit-brand", "order-unsettle-debit-buyer",
         "order-unsettle-debit-mediator"}
Key == Kind \X Order \X (0 .. MaxCycle)

L == INSTANCE Ledger WITH Batches <- {}
W == INSTANCE OrderWorkflow WITH MaxReproof <- 0, InitialStatus <- {"APPROVED"}

ASSUME SettlementAssumption ==
    /\ MaxBalance \in Nat /\ MaxCycle \in Nat /\ Limit \in Nat /\ IsFiniteSet(Owner)
    /\ \A o \in Order : /\ Brand[o] \in Owner /\ Buyer[o] \in Owner
                        /\ Mediator[o] \in Owner \cup {NoMediator}
                        /\ Commission[o] \in Int
                        /\ Payouts[o] \subseteq Nat
                        /\ \E p \in Payouts[o] : \A q \in Payouts[o] : q <= p
    /\ InitialWallet \in [Owner -> [status : L!WalletStatus, available : 0 .. MaxBalance]]
    /\ NoEntry \notin L!Mutation

Idle == [pc |-> "idle"]
TypeOK ==
    /\ order \in [Order -> [wf : {"APPROVED", "REWARD_PENDING", "COMPLETED", "FAILED"},
                            frozen : BOOLEAN,
                            pay : {"Pending", "Paid", "Failed"},
                            aff : {"Pending_Cooling", "Approved_Settled", "Cap_Exceeded",
                                   "Frozen_Disputed"},
                            mode : {"wallet", "external"},
                            cycle : 0 .. MaxCycle + 1]]
    /\ \A o \in Order : payout[o] \in Payouts[o]
    /\ ticket \subseteq Order
    /\ \A c \in Caller : call[c] = Idle \/ call[c].o \in Order
    /\ \A w \in Owner : wallet[w].available \in 0 .. MaxBalance
    /\ ledger \in [Key -> L!Mutation \cup {NoEntry}]

Init == /\ order = [o \in Order |-> [wf |-> "APPROVED", frozen |-> FALSE, pay |-> "Pending",
                                     aff |-> "Pending_Cooling", mode |-> "wallet", cycle |-> 0]]
        /\ payout = [o \in Order |-> Max(Payouts[o])]
        /\ ticket = {}
        /\ call = [c \in Caller |-> Idle]
        /\ wallet = InitialWallet
        /\ ledger = [k \in Key |-> NoEntry]
-----------------------------------------------------------------------------
Goto(c, next) == call' = [call EXCEPT ![c] = next]
At(c, pc) == call[c].pc = pc
MayStart == Overlap \/ \A c \in Caller : call[c] = Idle
Start(c) == call[c] = Idle /\ MayStart

(* The transaction of a wallet settlement holds the order's row from its    *)
(* guard to its end: any other update of the row waits.                     *)
Locked(o) == \E c \in Caller : At(c, "commit") /\ call[c].o = o
Update(o, row) == ~Locked(o) /\ order' = [order EXCEPT ![o] = row]

Entry(op, kind, o, n, type, w, a) ==
    [op |-> op, key |-> <<kind, o, n>>, type |-> type, owner |-> w, amount |-> a]

Cashback(o) == IF Commission[o] > 0 THEN Commission[o] ELSE 0

(* The batches of both transactions: payout p, cycle n. *)
If(cond, m) == IF cond THEN <<m>> ELSE <<>>
HasMargin(o, p) == p > Cashback(o) /\ Mediator[o] # NoMediator

SettleBatchNoDebit(o, p, n) ==
    If(Cashback(o) > 0, Entry("credit", "order-commission", o, n, "commission_settle",
                              Buyer[o], Cashback(o)))
SettleBatch(o, p, n) ==
    <<Entry("debit", "order-settlement-debit", o, n, "order_settlement_debit", Brand[o], p)>>
    \o If(Cashback(o) > 0, Entry("credit", "order-commission", o, n, "commission_settle",
                                 Buyer[o], Cashback(o)))
    \o If(HasMargin(o, p), Entry("credit", "order-margin", o, n, "commission_settle",
                                 Mediator[o], p - Cashback(o)))

UnsettleBatchKeepsMargin(o, p, n) ==
    <<Entry("credit", "order-unsettle-credit-brand", o, n, "refund", Brand[o], p)>>
    \o If(Cashback(o) > 0, Entry("debit", "order-unsettle-debit-buyer", o, n,
                                 "commission_reversal", Buyer[o], Cashback(o)))
UnsettleBatch(o, p, n) ==
    <<Entry("credit", "order-unsettle-credit-brand", o, n, "refund", Brand[o], p)>>
    \o If(Cashback(o) > 0, Entry("debit", "order-unsettle-debit-buyer", o, n,
                                 "commission_reversal", Buyer[o], Cashback(o)))
    \o If(HasMargin(o, p), Entry("debit", "order-unsettle-debit-mediator", o, n,
                                 "margin_reversal", Mediator[o], p - Cashback(o)))
-----------------------------------------------------------------------------
(* settleOrderPayment reads the order, its open tickets, its campaign and   *)
(* its deal.  An open ticket goes first, whatever the order's status.       *)
SettleRead(c, o, mode) ==
    /\ Start(c)
    /\ ~order[o].frozen
    /\ order[o].cycle < MaxCycle
    /\ \/ /\ o \in ticket
          /\ Goto(c, [pc |-> "dispute", o |-> o, cycle |-> order[o].cycle])
       \/ /\ o \notin ticket
          /\ order[o].wf = "APPROVED"
          /\ \/ mode = "wallet" /\ payout[o] > 0 /\ Cashback(o) <= payout[o]
             \/ mode = "external"
          /\ Goto(c, [pc |-> mode, o |-> o, cycle |-> order[o].cycle, payout |-> payout[o]])
    /\ UNCHANGED <<order, payout, ticket, wallet, ledger>>

DisputeWrite(c) ==
    /\ At(c, "dispute")
    /\ LET k == call[c]
       IN  Update(k.o, [order[k.o] EXCEPT !.aff = "Frozen_Disputed", !.cycle = k.cycle])
    /\ Goto(c, Idle)
    /\ UNCHANGED <<payout, ticket, wallet, ledger>>

(* The guard of the transaction and the count of what the mediator has      *)
(* settled on the campaign, on the committed rows.                          *)
CountsAsSettled(q) == order[q].aff = "Approved_Settled" \/ order[q].pay = "Paid"
OverLimitByOne(o) == Limit > 0 /\ Cardinality({q \in Order \ {o} : CountsAsSettled(q)}) > Limit
OverLimit(o) == Limit > 0 /\ Cardinality({q \in Order \ {o} : CountsAsSettled(q)}) >= Limit

SettleGuard(c) ==
    /\ At(c, "wallet")
    /\ LET o == call[c].o
       IN  /\ ~Locked(o)
           /\ Goto(c, IF order[o].wf # "APPROVED" THEN Idle
                      ELSE [call[c] EXCEPT !.pc = IF OverLimit(o) THEN "overlimit" ELSE "commit"])
    /\ UNCHANGED <<order, payout, ticket, wallet, ledger>>

Transitions(o, last) == [pc |-> "next", o |-> o,
                         path |-> <<"APPROVED", "REWARD_PENDING", last>>]

SettledRowAlwaysWallet(o, mode, n) ==
    [order[o] EXCEPT !.pay = "Paid", !.aff = "Approved_Settled", !.mode = "wallet",
                     !.cycle = n + 1]
SettledRowUncounted(o, mode, n) ==
    [order[o] EXCEPT !.pay = "Paid", !.aff = "Approved_Settled", !.mode = mode, !.cycle = n]
SettledRow(o, mode, n) == [order[o] EXCEPT !.pay = "Paid", !.aff = "Approved_Settled",
                                           !.mode = mode, !.cycle = n + 1]

(* The wallet batch and the order's payment status: both or neither. *)
SettleCommit(c) ==
    /\ At(c, "commit")
    /\ LET k   == call[c]
           res == L!ApplyBatch(wallet, ledger, SettleBatch(k.o, k.payout, k.cycle))
       IN  IF res.ok
           THEN /\ wallet' = res.wallet
                /\ ledger' = res.ledger
                /\ order' = [order EXCEPT ![k.o] = SettledRow(k.o, "wallet", k.cycle)]
                /\ Goto(c, Transitions(k.o, "COMPLETED"))
           ELSE Goto(c, Idle) /\ UNCHANGED <<wallet, ledger, order>>
    /\ UNCHANGED <<payout, ticket>>

OverLimitWrite(c) ==
    /\ At(c, "overlimit")
    /\ LET k == call[c]
       IN  /\ Update(k.o, [order[k.o] EXCEPT !.pay = "Failed", !.aff = "Cap_Exceeded",
                                             !.mode = "wallet", !.cycle = k.cycle])
           /\ Goto(c, Transitions(k.o, "FAILED"))
    /\ UNCHANGED <<payout, ticket, wallet, ledger>>

(* External mode: no wallets, no cap, and the update has no condition. *)
ExternalWrite(c) ==
    /\ At(c, "external")
    /\ LET k == call[c]
       IN  /\ Update(k.o, SettledRow(k.o, "external", k.cycle))
           /\ Goto(c, Transitions(k.o, "COMPLETED"))
    /\ UNCHANGED <<payout, ticket, wallet, ledger>>

(* transitionOrderWorkflow, twice: the read with its checks, then the       *)
(* conditional update, which writes the events that were read.              *)
TransitionRead(c) ==
    /\ At(c, "next")
    /\ LET k == call[c]
       IN  Goto(c, IF W!StillAt(k.o, k.path[1])
                   THEN [pc |-> "move", o |-> k.o, path |-> k.path, cycle |-> order[k.o].cycle]
                   ELSE Idle)
    /\ UNCHANGED <<order, payout, ticket, wallet, ledger>>

TransitionWrite(c) ==
    /\ At(c, "move")
    /\ LET k == call[c]
       IN  /\ ~Locked(k.o)
           /\ IF W!StillAt(k.o, k.path[1])
              THEN /\ order' = [order EXCEPT ![k.o].wf = k.path[2], ![k.o].cycle = k.cycle]
                   /\ Goto(c, IF Len(k.path) = 2 THEN Idle
                              ELSE [pc |-> "next", o |-> k.o, path |-> Tail(k.path)])
              ELSE Goto(c, Idle) /\ UNCHANGED order
    /\ UNCHANGED <<payout, ticket, wallet, ledger>>
-----------------------------------------------------------------------------
(* unsettleOrderPayment: it checks the order it reads, and its transaction  *)
(* does not check it again.                                                 *)
UnsettleRead(c, o) ==
    /\ Start(c)
    /\ ~order[o].frozen
    /\ order[o].wf \in {"COMPLETED", "FAILED", "REWARD_PENDING"}
    /\ order[o].pay = "Paid"
    /\ LET viaWallet == order[o].aff # "Cap_Exceeded" /\ order[o].mode # "external"
       IN  Goto(c, [pc |-> "unsettle", o |-> o, cycle |-> order[o].cycle,
                    batch |-> IF viaWallet THEN UnsettleBatch(o, payout[o], order[o].cycle)
                                           ELSE <<>>])
    /\ UNCHANGED <<order, payout, ticket, wallet, ledger>>

UnsettledRowStays(o, n) == [order[o] EXCEPT !.pay = "Pending",
                                            !.aff = "Pending_Cooling", !.mode = "wallet",
                                            !.cycle = n]
UnsettledRow(o, n) == [order[o] EXCEPT !.wf = "APPROVED", !.pay = "Pending",
                                       !.aff = "Pending_Cooling", !.mode = "wallet",
                                       !.cycle = n]

UnsettleCommit(c) ==
    /\ At(c, "unsettle")
    /\ LET k   == call[c]
           res == L!ApplyBatch(wallet, ledger, k.batch)
       IN  /\ ~Locked(k.o)
           /\ IF res.ok
              THEN /\ wallet' = res.wallet
                   /\ ledger' = res.ledger
                   /\ order' = [order EXCEPT ![k.o] = UnsettledRow(k.o, k.cycle)]
              ELSE UNCHANGED <<wallet, ledger, order>>
    /\ Goto(c, Idle)
    /\ UNCHANGED <<payout, ticket>>

(* reactivateOrder *)
ReactivateRead(c, o) ==
    /\ Start(c)
    /\ order[o].frozen /\ order[o].wf \notin W!TERMINAL
    /\ Goto(c, [pc |-> "reactivate", o |-> o, cycle |-> order[o].cycle])
    /\ UNCHANGED <<order, payout, ticket, wallet, ledger>>

ReactivateWrite(c) ==
    /\ At(c, "reactivate")
    /\ LET k == call[c]
       IN  Update(k.o, [order[k.o] EXCEPT !.frozen = FALSE, !.cycle = k.cycle])
    /\ Goto(c, Idle)
    /\ UNCHANGED <<payout, ticket, wallet, ledger>>

(* freezeOrders, when the mediator or the buyer is suspended. *)
Freeze(o) ==
    /\ MayStart
    /\ W!Freezable(o)
    /\ Update(o, [order[o] EXCEPT !.frozen = TRUE])
    /\ UNCHANGED <<payout, ticket, call, wallet, ledger>>

(* A ticket is opened on the order, or resolved. *)
Ticket(o) ==
    /\ MayStart
    /\ ticket' = IF o \in ticket THEN ticket \ {o} ELSE ticket \cup {o}
    /\ UNCHANGED <<order, payout, call, wallet, ledger>>

(* publishDeal of a deal that exists takes the payout of the assignment. *)
Republish(o) ==
    /\ MayStart
    /\ \E p \in Payouts[o] \ {payout[o]} : payout' = [payout EXCEPT ![o] = p]
    /\ UNCHANGED <<order, ticket, call, wallet, ledger>>

(* The process dies: what was not committed is rolled back. *)
Crash(c) ==
    /\ CanCrash
    /\ call[c] # Idle
    /\ Goto(c, Idle)
    /\ UNCHANGED <<order, payout, ticket, wallet, ledger>>

Settle(c) == \/ \E o \in Order, mode \in {"wallet", "external"} : SettleRead(c, o, mode)
             \/ DisputeWrite(c)
             \/ SettleGuard(c)
             \/ SettleCommit(c)
             \/ OverLimitWrite(c)
             \/ ExternalWrite(c)
             \/ TransitionRead(c)
             \/ TransitionWrite(c)

Handle(c) == \/ Settle(c)
             \/ \E o \in Order : UnsettleRead(c, o)
             \/ UnsettleCommit(c)
             \/ \E o \in Order : ReactivateRead(c, o)
             \/ ReactivateWrite(c)
             \/ Crash(c)
Surroundings == \E o \in Order : Freeze(o) \/ Ticket(o) \/ Republish(o)

Next == (\E c \in Caller : Handle(c)) \/ Surroundings

Spec == Init /\ [][Next]_vars
-----------------------------------------------------------------------------
Total(f) == SumFunctionOnSet([w \in Owner |-> f[w].available], Owner)
Amount(kind, o, n) == LET e == ledger[<<kind, o, n>>] IN IF e = NoEntry THEN 0 ELSE e.amount
Cycles == 0 .. MaxCycle
Posted(kind, o) == {n \in Cycles : ledger[<<kind, o, n>>] # NoEntry}
Refunds(o) == Cardinality(Posted("order-unsettle-credit-brand", o))
Debits(o) == Cardinality(Posted("order-settlement-debit", o))

(* MONEY_FLOW.md: "settlement is conservation-safe".  Settling, reversing,  *)
(* failing half way and doing so twice never makes or destroys money.       *)
MoneyIsConserved == Total(wallet) = Total(InitialWallet)

(* DATABASE_DOCUMENTATION.md: "Settlement debit from brand matches credit   *)
(* to buyer+mediator".  It does in every cycle of every order, also when    *)
(* a batch is cut short or a second handler runs into its keys.             *)
CreditsMatchDebit ==
    \A o \in Order, n \in Cycles :
        Amount("order-settlement-debit", o, n)
            = Amount("order-commission", o, n) + Amount("order-margin", o, n)

(* Between handlers, the workflow and the payment status of an order agree. *)
StatusAgrees ==
    (\A c \in Caller : call[c] = Idle) =>
        \A o \in Order :
            CASE order[o].wf = "APPROVED"  -> order[o].pay = "Pending"
              [] order[o].wf = "COMPLETED" -> order[o].pay = "Paid"
              [] order[o].wf = "FAILED"    -> order[o].pay = "Failed"
              [] OTHER                     -> FALSE

(* With handlers that do not overlap, settling is what the book says: the   *)
(* order's payment status and the balances move together, once each way.    *)
PaidByWallet == {o \in Order : order[o].pay = "Paid" /\ order[o].mode = "wallet"}
Book == INSTANCE SettlementBook WITH
            Payout <- [o \in Order |-> Max(Payouts[o])],
            Reward <- [o \in Order |-> Cashback(o)],
            InitialBalance <- [w \in Owner |-> InitialWallet[w].available],
            settled <- PaidByWallet,
            balance <- [w \in Owner |-> wallet[w].available]
KeepsTheBook == Book!Spec

(* SYSTEM_FLOW.md: "Every transaction has an `idempotencyKey` (prevents     *)
(* double-spend)": an order's debits are at most one ahead of its refunds.  *)
NoDoubleSpend ==
    \A o \in Order : Debits(o) <= Refunds(o) + 1

(* settleOrderPayment counts SETTLED events for its keys: "Without this,     *)
(* re-settlement silently no-ops".  An order was never refunded more often  *)
(* than it was charged, and once less while it is paid from the wallets.    *)
(* With handlers one at a time this holds through suspensions, disputes and *)
(* limits, and (MCSettlementCrash.cfg) also when the process dies between   *)
(* any two statements and somebody retries, and when deals are republished. *)
(* Overlapping handlers break it: a stale reversal writes back the events   *)
(* it read, and the next settlement finds its key taken.                    *)
PaidIsCovered ==
    \A o \in Order : Refunds(o) + (IF o \in PaidByWallet THEN 1 ELSE 0) <= Debits(o)

(* settleOrderPayment: "Checking inside the serialized transaction          *)
(* guarantees atomicity" of the mediator's assigned limit.                  *)
CapRespected == Limit > 0 => Cardinality(PaidByWallet) <= Limit

(* BACKEND_API_SURFACE.md: unsettle "reverses a settlement": a refund is    *)
(* what the settlement before it debited.                                   *)
ReversalIsExact ==
    \A o \in Order, n \in Cycles \ {0} :
        n \in Posted("order-unsettle-credit-brand", o) =>
            Amount("order-unsettle-credit-brand", o, n)
                = Amount("order-settlement-debit", o, n - 1)
=============================================================================

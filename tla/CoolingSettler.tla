---------------------------- MODULE CoolingSettler ----------------------------
(***************************************************************************)
(* The periodic settler beside the handlers of Settlement.  A run fetches  *)
(* the approved orders past their cooling period, with their tickets,      *)
(* deals and the count of settled orders, and passes them to settleOne one *)
(* by one.  settleOne claims the order, by writing the system actor into   *)
(* updatedBy, and then settles it on what the run fetched; it never gives  *)
(* a claim back, and a second attempt finds the first one's claim.         *)
(*                                                                         *)
(* In the schema updatedBy takes user ids only, which the system actor is  *)
(* not: ActorAccepted is FALSE.  With TRUE this is the settler on a column *)
(* that takes any text.  Buyers stay active here.                          *)
(***************************************************************************)
EXTENDS Settlement

CONSTANTS Settler,       \* the member of Caller that is the periodic run
          ActorAccepted  \* whether updatedBy takes the system actor

VARIABLES batch,    \* the fetched orders that are still to do
          fetched,  \* what the run read
          claimed   \* the orders whose updatedBy is the system actor

coolingVars == <<vars, batch, fetched, claimed>>

(* Past its cooling period, as every order of Settlement is. *)
Due(o) == /\ order[o].wf = "APPROVED"
          /\ order[o].aff = "Pending_Cooling"
          /\ ~order[o].frozen

Settled == Cardinality({q \in Order : CountsAsSettled(q)})
Snapshot == [cycle |-> [o \in Order |-> order[o].cycle], ticket |-> ticket,
             payout |-> payout, settled |-> Settled]

CoolingInit == /\ Init
               /\ batch = {}
               /\ fetched = Snapshot
               /\ claimed = {}

Fetch ==
    /\ batch = {} /\ call[Settler] = Idle
    /\ batch' = {o \in Order : Due(o) /\ order[o].cycle < MaxCycle} \* bound
    /\ batch' # {}
    /\ fetched' = Snapshot
    /\ UNCHANGED <<vars, claimed>>

(* The claim, and what settleOne makes of the fetched data. *)
Claimable(o) == ActorAccepted /\ Due(o) /\ o \notin claimed
Plan(o) ==
    LET p == fetched.payout[o]
        pc == CASE o \in fetched.ticket -> "dispute"
                [] o \notin fetched.ticket /\ Limit > 0 /\ fetched.settled >= Limit -> "overlimit"
                [] OTHER -> IF p <= 0 \/ Commission[o] > p THEN "invalid" ELSE "auto"
    IN  [pc |-> pc, o |-> o, cycle |-> fetched.cycle[o], payout |-> p]

Claim(o) ==
    /\ o \in batch /\ call[Settler] = Idle /\ ~Locked(o)
    /\ batch' = batch \ {o}
    /\ IF Claimable(o)
       THEN claimed' = claimed \cup {o} /\ Goto(Settler, Plan(o))
       ELSE UNCHANGED <<claimed, call>>
    /\ UNCHANGED <<order, payout, ticket, wallet, ledger, fetched>>

(* The margin is what the stored commission leaves of the payout: a negative*)
(* commission raises it above the payout, which the manual handler does not *)
(* do.  The keys have no cycle.                                             *)
AutoBatch(o, p) ==
    LET margin == p - Commission[o]
    IN  <<Entry("debit", "order-settlement-debit", o, 0, "order_settlement_debit", Brand[o], p)>>
        \o If(Commission[o] > 0, Entry("credit", "order-commission", o, 0, "commission_settle",
                                       Buyer[o], Commission[o]))
        \o If(margin > 0 /\ Mediator[o] # NoMediator,
              Entry("credit", "order-margin", o, 0, "commission_settle", Mediator[o], margin))

(* The transaction: the cap again, the batch, and an update that looks at   *)
(* nothing but the id.                                                      *)
AutoCommit ==
    /\ At(Settler, "auto")
    /\ LET k   == call[Settler]
           res == L!ApplyBatch(wallet, ledger, AutoBatch(k.o, k.payout))
       IN  /\ ~Locked(k.o)
           /\ IF OverLimit(k.o)
              THEN Goto(Settler, [k EXCEPT !.pc = "overlimit"]) /\ UNCHANGED <<wallet, ledger, order>>
              ELSE IF res.ok
              THEN /\ wallet' = res.wallet
                   /\ ledger' = res.ledger
                   /\ order' = [order EXCEPT ![k.o] = SettledRow(k.o, "wallet", k.cycle)]
                   /\ Goto(Settler, Transitions(k.o, "COMPLETED"))
              ELSE Goto(Settler, Idle) /\ UNCHANGED <<wallet, ledger, order>>
    /\ UNCHANGED <<payout, ticket, batch, fetched, claimed>>

AutoOverLimit ==
    /\ At(Settler, "overlimit")
    /\ LET k == call[Settler]
       IN  /\ Update(k.o, [order[k.o] EXCEPT !.pay = "Failed", !.aff = "Cap_Exceeded",
                                             !.cycle = k.cycle])
           /\ Goto(Settler, Transitions(k.o, "FAILED"))
    /\ UNCHANGED <<payout, ticket, wallet, ledger, batch, fetched, claimed>>

AutoFreeze ==
    /\ At(Settler, "invalid")
    /\ LET k == call[Settler]
       IN  Update(k.o, [order[k.o] EXCEPT !.frozen = TRUE, !.cycle = k.cycle])
    /\ Goto(Settler, Idle)
    /\ UNCHANGED <<payout, ticket, wallet, ledger, batch, fetched, claimed>>

Auto == \/ AutoCommit \/ AutoOverLimit \/ AutoFreeze
        \/ /\ DisputeWrite(Settler) \/ TransitionRead(Settler) \/ TransitionWrite(Settler)
           /\ UNCHANGED <<batch, fetched, claimed>>

(* A transition by a user writes the user into updatedBy. *)
Manual(c) ==
    /\ Handle(c)
    /\ claimed' = {o \in claimed : order'[o].wf = order[o].wf}
    /\ UNCHANGED <<batch, fetched>>

(* The process dies with its run. *)
Die == /\ CanCrash
       /\ batch # {} \/ call[Settler] # Idle
       /\ batch' = {}
       /\ Goto(Settler, Idle)
       /\ UNCHANGED <<order, payout, ticket, wallet, ledger, fetched, claimed>>

CoolingNext == \/ Fetch \/ Auto \/ Die
               \/ \E o \in Order : Claim(o)
               \/ \E c \in Caller \ {Settler} : Manual(c)
               \/ Surroundings /\ UNCHANGED <<batch, fetched, claimed>>

(* The interval timer fires and the settler's steps end. *)
CoolingSpec == /\ CoolingInit /\ [][CoolingNext]_coolingVars
               /\ WF_coolingVars(Fetch) /\ WF_coolingVars(Auto)
               /\ WF_coolingVars(\E o \in Order : Claim(o))
-----------------------------------------------------------------------------
(* orders.products.ops.brand.spec.ts, of the cooling period: "In production,*)
(* the coolingPeriodSettler cron handles this automatically": an approved   *)
(* order past its cooling period, without disputes, does not stay so.       *)
CooledOrdersSettle == \A o \in Order : [](o \notin ticket) => (Due(o) ~> ~Due(o))
=============================================================================

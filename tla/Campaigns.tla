----------------------------- MODULE Campaigns -----------------------------
(***************************************************************************)
(* One campaign, the deals its mediators publish and the orders placed     *)
(* through them: slots, allocations, terms, status and deletion.           *)
(*                                                                         *)
(* No handler but createOrder and cancelOrder uses a transaction.  A       *)
(* handler reads the campaign, looks at orders or deals, and writes by id; *)
(* only assignSlots makes its write conditional, on the updatedAt it read. *)
(* Slots are taken and given back by SQL that leaves updatedAt alone.      *)
(***************************************************************************)
EXTENDS Integers, FiniteSets, Functions

CONSTANTS Request, Mediator, Agency, Order,
          AgencyOf,     \* [Mediator -> Agency]
          Total, Price, \* the capacities and the prices a campaign may be given
          Grant,        \* the sizes of an allocation
          Asked,        \* the statuses a request may ask for
          TermsAlone    \* no request runs beside one that changes terms

CONSTANT None           \* no value: a field left alone, an order of nobody

ASSUME CampaignsAssumption ==
    /\ AgencyOf \in [Mediator -> Agency] /\ IsFiniteSet(Mediator) /\ IsFiniteSet(Order)
    /\ Total \subseteq Nat /\ Grant \subseteq Nat \ {0}
    /\ Asked \subseteq {"draft", "active", "paused", "completed"}
    /\ TermsAlone \in BOOLEAN /\ None \notin Price \cup Mediator

VARIABLES campaign, \* the row of the campaign
          deals,    \* the deal of every mediator
          orders,   \* the orders and the pre-orders of a click on a deal
          call,     \* the requests in flight
          current   \* the allocations in flight that read the row as it is now

vars == <<campaign, deals, orders, call, current>>

Status == {"draft", "active", "paused", "completed"}
Campaign == [status : Status, total : Total, used : Nat, price : Price,
             allowed : SUBSET Agency, limit : [Mediator -> Nat],
             open : BOOLEAN, locked : BOOLEAN, deleted : BOOLEAN]
Deal == {"none", "active", "inactive", "deleted"}
Idle == [op |-> "idle"]
Call ==
    {Idle}
    \cup [op : {"assign"}, at : {"orders", "write"}, limit : [Mediator -> Nat], open : BOOLEAN,
          price : Price \cup {None}, status : {"active", None}]
    \cup [op : {"edit"}, at : {"orders", "write"}, field : {"price"}, value : Price]
    \cup [op : {"edit"}, at : {"orders", "write"}, field : {"total"}, value : Total]
    \cup [op : {"edit"}, at : {"write"}, field : {"allowed"}, value : SUBSET Agency]
    \cup [op : {"edit"}, at : {"write", "deals"}, field : {"status"}, value : Asked, sync : BOOLEAN]
    \cup [op : {"delete"}, at : {"orders", "write", "deals"}]
    \cup [op : {"publish"}, at : {"find", "create", "update"}, m : Mediator]
    \cup [op : {"drop"}, at : {"orders", "write"}, m : Mediator]
    \cup [op : {"redirect"}, at : {"campaign", "write"}, m : Mediator, o : Order]
    \cup [op : {"order"}, at : {"sales", "begin", "claim"}, m : Mediator, o : Order,
          pre : BOOLEAN, cap : Nat \cup {None}]
    \cup [op : {"cancel"}, at : {"write"}, o : Order]

TypeOK ==
    /\ campaign \in Campaign
    /\ deals \in [Mediator -> Deal]
    /\ orders \in [Order -> [state : {"none", "redirected", "placed"},
                             by : Mediator \cup {None}, cancelled : BOOLEAN]]
    /\ call \in [Request -> Call]
    /\ current \subseteq Request

Unassigned == [m \in Mediator |-> 0]
Assigned(limit) == SumFunctionOnSet(limit, Mediator)

Created(c) == c.status = "active" /\ ~c.open
Copied(c) == c.status = "draft"
Init == /\ campaign \in [status : Status, total : Total, used : {0}, price : Price,
                         allowed : SUBSET Agency, limit : {Unassigned},
                         open : BOOLEAN, locked : {FALSE}, deleted : {FALSE}]
        /\ Created(campaign) \/ Copied(campaign)
        /\ deals = [m \in Mediator |-> "none"]
        /\ orders \in [Order -> [state : {"none"}, by : {None}, cancelled : {FALSE}]]
        /\ call = [r \in Request |-> Idle]
        /\ current = {}
-----------------------------------------------------------------------------
ChangesTerms(c) == \/ c.op = "assign" /\ c.price # None
                   \/ c.op = "edit" /\ c.field \in {"price", "total"}

\* A request takes a free place; beside one that changes terms, if it may.
Begin(r, c) ==
    /\ call[r] = Idle
    /\ TermsAlone => \A q \in Request \ {r} : call[q] # Idle =>
                        ~ChangesTerms(c) /\ ~ChangesTerms(call[q])
    /\ call' = [call EXCEPT ![r] = c]
    /\ current' = IF c.op = "assign" THEN current \cup {r} ELSE current
Goto(r, at) == call' = [call EXCEPT ![r].at = at]
End(r) == call' = [call EXCEPT ![r] = Idle]
At(r, op, at) == call[r].op = op /\ call[r].at = at

Saved(row) == campaign' = row /\ current' = {}
Untouched == UNCHANGED <<campaign, deals, orders>>

Existing == {o \in Order : orders[o].state # "none"}
HasOrdersLive == \E o \in Order : orders[o].state = "placed" /\ ~orders[o].cancelled
HasOrders == Existing # {}
Sales(m) == Cardinality({o \in Existing : orders[o].by = m})
Live == {o \in Order : orders[o].state = "placed" /\ ~orders[o].cancelled}
Spare(o) == /\ orders[o].state = "none"
            /\ \A q \in Request : call[q].op \in {"order", "redirect"} => call[q].o # o
-----------------------------------------------------------------------------
\* assignSlots: to one mediator, or to all.
WithGrant(m, n, open) == IF open THEN Unassigned
                         ELSE [campaign.limit EXCEPT ![m] = @ + n]
AssignRead(r) ==
    \E m \in Mediator, n \in Grant, open \in BOOLEAN, price \in Price \cup {None} :
        LET limit == WithGrant(m, n, open) IN
        /\ ~campaign.deleted /\ campaign.status \in {"active", "draft"}
        /\ price # None => ~campaign.locked
        /\ open \/ Assigned(limit) <= campaign.total
        /\ Begin(r, [op |-> "assign", at |-> IF price = None THEN "write" ELSE "orders",
                     limit |-> limit, open |-> open, price |-> price,
                     status |-> IF campaign.status = "draft" THEN "active" ELSE None])
        /\ Untouched

Or(new, old) == IF new = None THEN old ELSE new
UnmodifiedUnchecked(r) == TRUE
Unmodified(r) == r \in current
AssignWrite(r) ==
    /\ At(r, "assign", "write")
    /\ IF Unmodified(r)
       THEN Saved([campaign EXCEPT !.limit = call[r].limit, !.open = call[r].open,
                                   !.price = Or(call[r].price, @), !.locked = TRUE,
                                   !.status = Or(call[r].status, @)])
       ELSE UNCHANGED <<campaign, current>>
    /\ End(r)
    /\ UNCHANGED <<deals, orders>>
-----------------------------------------------------------------------------
\* updateCampaign of a brand, one field at a time, and updateCampaignStatus.
EditRead(r) ==
    /\ ~campaign.deleted
    /\ \/ /\ ~campaign.locked
          /\ \/ \E p \in Price : Begin(r, [op |-> "edit", at |-> "orders", field |-> "price", value |-> p])
             \/ \E t \in Total : Begin(r, [op |-> "edit", at |-> "orders", field |-> "total", value |-> t])
       \/ \E A \in SUBSET Agency :
              Begin(r, [op |-> "edit", at |-> "write", field |-> "allowed", value |-> A])
       \/ \E s \in Asked :
              Begin(r, [op |-> "edit", at |-> "write", field |-> "status", value |-> s, sync |-> TRUE])
    /\ Untouched

\* The deals follow a brand's change of status, and an agency's if it is one.
StatusRead(r) ==
    /\ ~campaign.deleted
    /\ \E s \in Asked : Begin(r, [op |-> "edit", at |-> "write", field |-> "status",
                                 value |-> s, sync |-> campaign.status # s])
    /\ Untouched

EditWrite(r) ==
    /\ At(r, "edit", "write")
    /\ Saved([campaign EXCEPT ![call[r].field] = call[r].value])
    /\ IF call[r].field = "status" /\ call[r].sync THEN Goto(r, "deals") ELSE End(r)
    /\ UNCHANGED <<deals, orders>>

SetDeals(from, to) == deals' = [m \in Mediator |-> IF deals[m] \in from THEN to ELSE deals[m]]
Published == {"active", "inactive"}
EditDeals(r) ==
    /\ At(r, "edit", "deals")
    /\ SetDeals(Published, IF call[r].value = "active" THEN "active" ELSE "inactive")
    /\ End(r)
    /\ UNCHANGED <<campaign, orders, current>>

DeclineRead(r) ==
    /\ ~campaign.deleted
    /\ \E g \in campaign.allowed :
           Begin(r, [op |-> "edit", at |-> "write", field |-> "allowed", value |-> campaign.allowed \ {g}])
    /\ Untouched

\* Every handler that may not run on a campaign with orders looks for them.
CheckOrders(r) ==
    /\ \E op \in {"assign", "edit", "delete"} : At(r, op, "orders")
    /\ IF HasOrders THEN End(r) /\ current' = current \ {r}
                    ELSE Goto(r, "write") /\ UNCHANGED current
    /\ Untouched

DeleteRead(r) ==
    /\ ~campaign.deleted
    /\ Begin(r, [op |-> "delete", at |-> "orders"])
    /\ Untouched
DeleteWrite(r) ==
    /\ At(r, "delete", "write")
    /\ Saved([campaign EXCEPT !.deleted = TRUE])
    /\ Goto(r, "deals")
    /\ UNCHANGED <<deals, orders>>
DeleteDeals(r) ==
    /\ At(r, "delete", "deals")
    /\ SetDeals(Published, "deleted")
    /\ End(r)
    /\ UNCHANGED <<campaign, orders, current>>
-----------------------------------------------------------------------------
\* publishDeal and deleteDeal.  A deal that was deleted holds its unique key.
PublishRead(r) ==
    /\ ~campaign.deleted /\ campaign.status = "active"
    /\ \E m \in Mediator : Begin(r, [op |-> "publish", at |-> "find", m |-> m])
    /\ Untouched
PublishFind(r) ==
    /\ At(r, "publish", "find")
    /\ Goto(r, IF deals[call[r].m] \in Published THEN "update" ELSE "create")
    /\ UNCHANGED <<campaign, deals, orders, current>>
PublishWrite(r) ==
    LET m == call[r].m IN
    /\ \/ At(r, "publish", "update") /\ deals[m] \in Published
       \/ At(r, "publish", "create") /\ deals[m] = "none"
    /\ deals' = [deals EXCEPT ![m] = "active"]
    /\ End(r)
    /\ UNCHANGED <<campaign, orders, current>>
PublishFails(r) ==
    LET m == call[r].m IN
    /\ \/ At(r, "publish", "update") /\ deals[m] = "deleted"
       \/ At(r, "publish", "create") /\ deals[m] # "none"
    /\ End(r)
    /\ Untouched /\ UNCHANGED current

DropRead(r) ==
    /\ \E m \in Mediator : /\ deals[m] \in Published
                           /\ Begin(r, [op |-> "drop", at |-> "orders", m |-> m])
    /\ Untouched
DropCheck(r) ==
    /\ At(r, "drop", "orders")
    /\ IF Sales(call[r].m) > 0 THEN End(r) ELSE Goto(r, "write")
    /\ Untouched /\ UNCHANGED current
DropWrite(r) ==
    /\ At(r, "drop", "write")
    /\ deals' = [deals EXCEPT ![call[r].m] = "deleted"]
    /\ End(r)
    /\ UNCHANGED <<campaign, orders, current>>
-----------------------------------------------------------------------------
\* trackRedirect: a click on an active deal leaves a pre-order.
RedirectRead(r) ==
    /\ \E m \in Mediator, o \in Order :
           /\ deals[m] = "active" /\ Spare(o)
           /\ Begin(r, [op |-> "redirect", at |-> "campaign", m |-> m, o |-> o])
    /\ Untouched
RedirectCheck(r) ==
    /\ At(r, "redirect", "campaign")
    /\ IF campaign.deleted THEN End(r) ELSE Goto(r, "write")
    /\ Untouched /\ UNCHANGED current
RedirectWrite(r) ==
    /\ At(r, "redirect", "write")
    /\ orders' = [orders EXCEPT ![call[r].o] =
                    [state |-> "redirected", by |-> call[r].m, cancelled |-> FALSE]]
    /\ End(r)
    /\ UNCHANGED <<campaign, deals, current>>

\* createOrder, from a pre-order or without one.
HasAccess(m) == AgencyOf[m] \in campaign.allowed \/ campaign.limit[m] > 0
Capped(m) == ~campaign.open /\ campaign.limit[m] > 0
OrderRead(r) ==
    /\ ~campaign.deleted /\ campaign.status = "active" /\ campaign.used < campaign.total
    /\ \E m \in Mediator, o \in Order, pre \in BOOLEAN :
           /\ HasAccess(m)
           /\ IF pre THEN orders[o].state = "redirected" /\ orders[o].by = m ELSE Spare(o)
           /\ Begin(r, [op |-> "order", at |-> "sales", m |-> m, o |-> o, pre |-> pre,
                        cap |-> IF Capped(m) THEN campaign.limit[m] ELSE None])
    /\ Untouched
OrderSales(r) ==
    /\ At(r, "order", "sales")
    /\ IF call[r].cap # None => Sales(call[r].m) < call[r].cap
       THEN call' = [call EXCEPT ![r].at = "begin", ![r].cap = None]
       ELSE End(r)
    /\ Untouched /\ UNCHANGED current
StillRedirectedUnchecked(o) == TRUE
StillRedirected(o) == orders[o].state = "redirected"
OrderBegin(r) ==
    /\ At(r, "order", "begin")
    /\ IF call[r].pre => orders[call[r].o].state = "redirected" THEN Goto(r, "claim") ELSE End(r)
    /\ Untouched /\ UNCHANGED current

FreeSlotOneMore == campaign.used <= campaign.total /\ ~campaign.deleted
FreeSlotAnyCampaign == campaign.used < campaign.total
FreeSlot == campaign.used < campaign.total /\ ~campaign.deleted
\* The claim, the order and its transition commit together or not at all.
OrderCommit(r) ==
    LET o == call[r].o IN
    /\ At(r, "order", "claim")
    /\ IF FreeSlot /\ (call[r].pre => StillRedirected(o))
       THEN /\ campaign' = [campaign EXCEPT !.used = @ + 1]
            /\ orders' = [orders EXCEPT ![o] =
                            [state |-> "placed", by |-> call[r].m, cancelled |-> FALSE]]
       ELSE UNCHANGED <<campaign, orders>>
    /\ End(r)
    /\ UNCHANGED <<deals, current>>

\* cancelOrder; the transition that follows does not change what is counted.
CancelRead(r) ==
    /\ \E o \in Existing : /\ ~orders[o].cancelled
                         /\ Begin(r, [op |-> "cancel", at |-> "write", o |-> o])
    /\ Untouched
CancelWrite(r) ==
    /\ At(r, "cancel", "write")
    /\ orders' = [orders EXCEPT ![call[r].o].cancelled = TRUE]
    /\ campaign' = IF campaign.deleted \/ campaign.used = 0 THEN campaign
                   ELSE [campaign EXCEPT !.used = @ - 1]
    /\ End(r)
    /\ UNCHANGED <<deals, current>>
-----------------------------------------------------------------------------
\* The cascades of a suspension, and a process that dies within a request.
SuspendMediator(m) ==
    /\ deals[m] = "active"
    /\ deals' = [deals EXCEPT ![m] = "inactive"]
    /\ UNCHANGED <<campaign, orders, call, current>>
SuspendBrand ==
    /\ ~campaign.deleted /\ campaign.status \in {"active", "draft"}
    /\ Saved([campaign EXCEPT !.status = "paused"])
    /\ UNCHANGED <<deals, orders, call>>
Crash(r) ==
    /\ call[r] # Idle
    /\ End(r) /\ current' = current \ {r}
    /\ Untouched

Step(r) ==
    \/ AssignRead(r) \/ AssignWrite(r) \/ CheckOrders(r)
    \/ EditRead(r) \/ StatusRead(r) \/ EditWrite(r) \/ EditDeals(r) \/ DeclineRead(r)
    \/ DeleteRead(r) \/ DeleteWrite(r) \/ DeleteDeals(r)
    \/ PublishRead(r) \/ PublishFind(r) \/ PublishWrite(r) \/ PublishFails(r)
    \/ DropRead(r) \/ DropCheck(r) \/ DropWrite(r)
    \/ RedirectRead(r) \/ RedirectCheck(r) \/ RedirectWrite(r)
    \/ OrderRead(r) \/ OrderSales(r) \/ OrderBegin(r) \/ OrderCommit(r)
    \/ CancelRead(r) \/ CancelWrite(r) \/ Crash(r)
Next == \/ \E r \in Request : Step(r)
        \/ \E m \in Mediator : SuspendMediator(m)
        \/ SuspendBrand
Spec == Init /\ [][Next]_vars
-----------------------------------------------------------------------------
(* assignSlots adds to what was allocated before: an allocation that was   *)
(* granted is not lost to another request, only to opening the campaign to *)
(* all mediators (opsController.ts assignSlots, the updatedAt guard).      *)
AllocationsOnlyGrow ==
    [][\A m \in Mediator : campaign'.limit[m] < campaign.limit[m] => campaign'.open]_vars

(* The slots in use never exceed the live orders: no claim outlives a      *)
(* createOrder that failed, and a pre-order claims one slot however often  *)
(* its upgrade is sent (ordersController.ts claimSlot and its transaction).*)
SlotsNeverLeak == ~campaign.deleted => campaign.used <= Cardinality(Live)

(* Slots in use and slots allocated stay within the capacity               *)
(* (claimSlot; ASSIGNMENT_EXCEEDS_TOTAL_SLOTS of assignSlots).             *)
CapacityRespected ==
    /\ campaign.used <= campaign.total
    /\ ~campaign.open => Assigned(campaign.limit) <= campaign.total

(* "Non-negotiable: lock campaign mutability after the first order is      *)
(* created" (brandController.ts updateCampaign), and after the first       *)
(* allocation (assignSlots): price and capacity stay.                      *)
TermsStayLocked ==
    [][campaign.locked \/ (\E o \in Order : orders[o].state # "none") =>
         campaign'.price = campaign.price /\ campaign'.total = campaign.total]_vars

(* No order is placed on a deleted campaign, though createOrder read it    *)
(* before it was deleted (claimSlot looks again).                          *)
DeletedTakesNoOrders ==
    [][campaign.deleted =>
         \A o \in Order : orders'[o].state = "placed" => orders[o].state = "placed"]_vars
-----------------------------------------------------------------------------
(* What follows is said of the code and does not hold of it; the runs with *)
(* MCCampaignsOverlap.cfg show how.                                        *)

(* "Cannot delete a campaign with orders": an order is placed between the  *)
(* look for orders and the deletion (opsController.ts deleteCampaign).     *)
DeletedHasNoOrders == campaign.deleted => Live = {}

(* "sold out for your network": the count of a mediator's sales includes   *)
(* pre-orders and cancelled orders, for no code sets the status Cancelled  *)
(* that it leaves out; a click can use up an allocation, its own order's   *)
(* too (ordersController.ts createOrder).                                  *)
SoldOutMeansSold ==
    \A m \in Mediator : Capped(m) /\ Sales(m) >= campaign.limit[m] =>
        Cardinality({o \in Live : orders[o].by = m}) >= campaign.limit[m]

(* "limited slots per mediator": the count is taken before the transaction *)
(* of the order.                                                           *)
AllocationRespected ==
    \A m \in Mediator : Capped(m) =>
        Cardinality({o \in Live : orders[o].by = m}) <= campaign.limit[m]

(* With no request in flight, deals are on offer only while the campaign   *)
(* is active: publishDeal overlaps a pause, two changes of status cross, a *)
(* process dies between the campaign and its deals, or a brand is          *)
(* suspended (adminController.ts updateUserStatus leaves its deals).       *)
DealsFollowStatus ==
    (\A r \in Request : call[r] = Idle) =>
        \A m \in Mediator : deals[m] = "active" =>
            campaign.status = "active" /\ ~campaign.deleted
=============================================================================

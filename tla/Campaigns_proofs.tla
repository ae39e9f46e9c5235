-------------------------- MODULE Campaigns_proofs --------------------------
(* However many requests overlap on a campaign, no allocation is lost, no   *)
(* slot leaks and no deleted campaign takes an order; and its terms stay    *)
(* where they are locked as long as a change of terms runs alone.           *)
EXTENDS Campaigns, Sums, FiniteSetTheorems, TLAPS

(* An allocation in flight whose read is still current grants no less than *)
(* the row holds.                                                          *)
Granted ==
    \A r \in current :
        /\ call[r].op = "assign"
        /\ ~call[r].open => \A m \in Mediator : campaign.limit[m] <= call[r].limit[m]

(* A change of terms in flight runs alone, on terms that are not locked,   *)
(* and has found no order once it writes.                                  *)
Termed ==
    TermsAlone =>
        \A r \in Request : ChangesTerms(call[r]) =>
            /\ ~campaign.locked
            /\ call[r].at = "write" => ~HasOrders
            /\ \A q \in Request \ {r} : call[q] = Idle

(* A request that will insert an order has its id to itself.               *)
Takes(c) == c.op \in {"order", "redirect"}
Inserts(c) == c.op = "redirect" \/ (c.op = "order" /\ ~c.pre)
Reserved ==
    \A r \in Request : Inserts(call[r]) =>
        /\ orders[call[r].o].state = "none"
        /\ \A q \in Request \ {r} : Takes(call[q]) => call[q].o # call[r].o

IInv == TypeOK /\ Granted /\ Termed /\ Reserved /\ SlotsNeverLeak
-----------------------------------------------------------------------------
(* What each kind of step does to the requests in flight. *)
Others(r) == \A q \in Request \ {r} : call'[q] = call[q]

LEMMA BeginFacts ==
    ASSUME TypeOK, NEW r \in Request, NEW c \in Call, Begin(r, c)
    PROVE  /\ call' \in [Request -> Call] /\ Others(r) /\ call'[r] = c /\ call[r] = Idle
           /\ current' \subseteq Request
  BY DEF TypeOK, Begin, Others

LEMMA EndFacts ==
    ASSUME TypeOK, NEW r \in Request, End(r)
    PROVE  call' \in [Request -> Call] /\ Others(r) /\ call'[r] = Idle
  BY DEF TypeOK, End, Others, Call

LEMMA GotoFields ==
    ASSUME NEW c \in Call, c # Idle, NEW at
    PROVE  LET d == [c EXCEPT !.at = at] IN
           /\ d.op = c.op /\ d.at = at
           /\ c.op = "order" => d.pre = c.pre /\ d.o = c.o
           /\ c.op = "redirect" => d.o = c.o
           /\ c.op = "edit" => d.field = c.field /\ d.value = c.value
           /\ c.op = "assign" => d.open = c.open /\ d.limit = c.limit /\ d.price = c.price
  BY DEF Call, Idle

(* The request goes on: only its place in the handler changes. *)
GoesOn(r, at) ==
    /\ Others(r)
    /\ call'[r].op = call[r].op /\ call'[r].at = at
    /\ call[r].op = "order" => call'[r].pre = call[r].pre /\ call'[r].o = call[r].o
    /\ call[r].op = "redirect" => call'[r].o = call[r].o
    /\ call[r].op = "edit" => call'[r].field = call[r].field /\ call'[r].value = call[r].value
    /\ call[r].op = "assign" => /\ call'[r].open = call[r].open
                                /\ call'[r].limit = call[r].limit
                                /\ call'[r].price = call[r].price

LEMMA GotoFacts ==
    ASSUME TypeOK, NEW r \in Request, NEW at, Goto(r, at), call[r] # Idle,
           [call[r] EXCEPT !.at = at] \in Call
    PROVE  call' \in [Request -> Call] /\ GoesOn(r, at)
<1>1. call[r] \in Call
  BY DEF TypeOK
<1>2. /\ call' \in [Request -> Call] /\ Others(r)
      /\ call'[r] = [call[r] EXCEPT !.at = at]
  BY DEF TypeOK, Goto, Others
<1> QED
  BY <1>1, <1>2, GotoFields DEF GoesOn
-----------------------------------------------------------------------------
(* What a step must respect for each part of the invariant. *)
LEMMA GrantedStep ==
    ASSUME IInv, NEW r \in Request, Others(r), current' \subseteq current,
           r \in current' => /\ call'[r].op = call[r].op
                             /\ call'[r].open = call[r].open
                             /\ call'[r].limit = call[r].limit,
           current' = {} \/ campaign'.limit = campaign.limit
    PROVE  Granted'
  BY DEF IInv, TypeOK, Granted, Others

(* While a request runs, no other one changes terms. *)
LEMMA TermedStep ==
    ASSUME IInv, NEW r \in Request, Others(r), call[r] # Idle,
           ChangesTerms(call'[r]) => /\ ChangesTerms(call[r])
                                     /\ campaign' = campaign /\ orders' = orders
                                     /\ call'[r].at = "write" => ~HasOrders
    PROVE  Termed'
<1> SUFFICES ASSUME TermsAlone, NEW q \in Request, ChangesTerms(call'[q])
             PROVE  /\ ~campaign'.locked
                    /\ call'[q].at = "write" => ~HasOrders'
                    /\ \A p \in Request \ {q} : call'[p] = Idle
  BY DEF Termed, ChangesTerms
<1>1. CASE q = r
  BY <1>1 DEF IInv, Termed, Others, HasOrders, Existing
<1>2. CASE q # r
  BY <1>2 DEF IInv, Termed, Others
<1> QED
  BY <1>1, <1>2

LEMMA ReservedStep ==
    ASSUME IInv, NEW r \in Request, Others(r),
           Takes(call'[r]) => /\ Takes(call[r]) /\ call'[r].o = call[r].o
                              /\ Inserts(call'[r]) => Inserts(call[r]),
           \A o \in Order : orders[o].state = "none" =>
               \/ orders'[o].state = "none"
               \/ Takes(call[r]) /\ call[r].o = o /\ ~Takes(call'[r])
    PROVE  Reserved'
<1> SUFFICES ASSUME NEW q \in Request, Inserts(call'[q])
             PROVE  /\ orders'[call'[q].o].state = "none"
                    /\ \A p \in Request \ {q} : Takes(call'[p]) => call'[p].o # call'[q].o
  BY DEF Reserved, Inserts, Takes
<1>1. Inserts(call[q]) /\ call'[q].o = call[q].o
  BY DEF Others, Inserts, Takes
<1>2. call[q].o \in Order
  BY <1>1 DEF IInv, TypeOK, Call, Inserts, Idle
<1>3. /\ orders[call[q].o].state = "none"
      /\ \A p \in Request \ {q} : Takes(call[p]) => call[p].o # call[q].o
  BY <1>1 DEF IInv, Reserved
<1>4. Takes(call'[q])
  BY DEF Inserts, Takes
<1> QED
  BY <1>1, <1>2, <1>3, <1>4 DEF Others

LEMMA LeakStep ==
    ASSUME IInv, orders' = orders, campaign'.used = campaign.used,
           campaign.deleted => campaign'.deleted
    PROVE  SlotsNeverLeak'
  BY DEF IInv, SlotsNeverLeak, Live
-----------------------------------------------------------------------------
(* The steps that touch nothing but the requests. *)
LEMMA BeginKeeps ==
    ASSUME IInv, NEW r \in Request, NEW c \in Call, Begin(r, c), Untouched, c.op # "idle",
           c.op = "assign" /\ ~c.open => \A m \in Mediator : campaign.limit[m] <= c.limit[m],
           ChangesTerms(c) => ~campaign.locked /\ c.at = "orders",
           Takes(c) => IF Inserts(c) THEN Spare(c.o) ELSE orders[c.o].state # "none"
    PROVE  IInv'
<1> USE DEF Untouched
<1>0. /\ call' \in [Request -> Call] /\ Others(r) /\ call'[r] = c /\ call[r] = Idle
      /\ current' \subseteq Request /\ TypeOK
  BY BeginFacts DEF IInv
<1>1. TypeOK'
  BY <1>0 DEF TypeOK
<1>2. Granted'
  BY <1>0 DEF IInv, TypeOK, Granted, Others, Begin, Idle
<1>3. Termed'
  <2> SUFFICES ASSUME TermsAlone, NEW q \in Request, ChangesTerms(call'[q])
               PROVE  /\ ~campaign.locked
                      /\ call'[q].at = "write" => ~HasOrders
                      /\ \A p \in Request \ {q} : call'[p] = Idle
    BY DEF Termed, ChangesTerms, HasOrders, Existing
  <2>1. CASE q = r
    BY <1>0, <2>1 DEF Begin, Others
  <2>2. CASE q # r
    BY <1>0, <2>2 DEF Begin, Others, ChangesTerms, Idle
  <2> QED
    BY <2>1, <2>2
<1>4. Reserved'
  <2> SUFFICES ASSUME NEW q \in Request, Inserts(call'[q])
               PROVE  /\ orders[call'[q].o].state = "none"
                      /\ \A p \in Request \ {q} : Takes(call'[p]) => call'[p].o # call'[q].o
    BY DEF Reserved, Inserts, Takes
  <2>1. CASE q = r
    BY <1>0, <2>1 DEF Spare, Others, Takes, Inserts
  <2>2. CASE q # r
    <3>1. Inserts(call[q]) /\ call'[q] = call[q]
      BY <1>0, <2>2 DEF Others, Inserts
    <3>2. /\ orders[call[q].o].state = "none"
          /\ \A p \in Request \ {q} : Takes(call[p]) => call[p].o # call[q].o
      BY <3>1 DEF IInv, Reserved
    <3>3. Takes(c) => c.o # call[q].o
      BY <2>2, <3>1, <3>2 DEF Spare, Takes, Inserts
    <3> QED
      BY <1>0, <3>1, <3>2, <3>3 DEF Others
  <2> QED
    BY <2>1, <2>2
<1>5. SlotsNeverLeak'
  BY LeakStep
<1> QED
  BY <1>1, <1>2, <1>3, <1>4, <1>5 DEF IInv

LEMMA EndKeeps ==
    ASSUME IInv, NEW r \in Request, call[r] # Idle, End(r), current' = current \ {r},
           UNCHANGED <<campaign, orders>>, deals' \in [Mediator -> Deal]
    PROVE  IInv'
<1>0. call' \in [Request -> Call] /\ Others(r) /\ call'[r] = Idle /\ TypeOK
  BY EndFacts DEF IInv
<1>1. TypeOK'
  BY <1>0 DEF TypeOK
<1>2. Granted'
  BY <1>0, GrantedStep
<1>3. ~ChangesTerms(call'[r]) /\ ~Takes(call'[r])
  BY <1>0 DEF Idle, ChangesTerms, Takes
<1>4. Termed'
  BY <1>0, <1>3, TermedStep
<1>5. Reserved'
  BY <1>0, <1>3, ReservedStep
<1> QED
  BY <1>1, <1>2, <1>4, <1>5, LeakStep DEF IInv

LEMMA GotoKeeps ==
    ASSUME IInv, NEW r \in Request, call[r] # Idle, NEW at, Goto(r, at), Untouched,
           current' = current, [call[r] EXCEPT !.at = at] \in Call,
           ChangesTerms(call[r]) /\ at = "write" => ~HasOrders
    PROVE  IInv'
<1> USE DEF Untouched
<1>0. call' \in [Request -> Call] /\ GoesOn(r, at) /\ Others(r) /\ TypeOK
  BY GotoFacts DEF IInv, GoesOn
<1>1. TypeOK'
  BY <1>0 DEF TypeOK
<1>2. Granted'
  BY <1>0, GrantedStep DEF GoesOn, IInv, Granted
<1>3. Termed'
  <2>1. ChangesTerms(call'[r]) => ChangesTerms(call[r])
    BY <1>0 DEF GoesOn, ChangesTerms
  <2> QED
    BY <1>0, <2>1, TermedStep DEF GoesOn
<1>4. Reserved'
  <2>1. Takes(call'[r]) => /\ Takes(call[r]) /\ call'[r].o = call[r].o
                           /\ Inserts(call'[r]) => Inserts(call[r])
    BY <1>0 DEF GoesOn, Takes, Inserts
  <2> QED
    BY <1>0, <2>1, ReservedStep
<1> QED
  BY <1>1, <1>2, <1>3, <1>4, LeakStep DEF IInv
-----------------------------------------------------------------------------
(* The reads. *)
LEMMA AssignReadKeeps == ASSUME IInv, NEW r \in Request, AssignRead(r) PROVE IInv'
<1>1. PICK m \in Mediator, n \in Grant, open \in BOOLEAN, price \in Price \cup {None} :
        LET limit == WithGrant(m, n, open) IN
        /\ price # None => ~campaign.locked
        /\ Begin(r, [op |-> "assign", at |-> IF price = None THEN "write" ELSE "orders",
                     limit |-> limit, open |-> open, price |-> price,
                     status |-> IF campaign.status = "draft" THEN "active" ELSE None])
        /\ Untouched
  BY DEF AssignRead
<1> DEFINE limit == WithGrant(m, n, open)
           c == [op |-> "assign", at |-> IF price = None THEN "write" ELSE "orders",
                 limit |-> limit, open |-> open, price |-> price,
                 status |-> IF campaign.status = "draft" THEN "active" ELSE None]
<1>2. /\ limit \in [Mediator -> Nat]
      /\ ~open => \A w \in Mediator : campaign.limit[w] <= limit[w]
  <2>1. campaign.limit \in [Mediator -> Nat] /\ n \in Nat
    BY CampaignsAssumption DEF IInv, TypeOK, Campaign
  <2> QED
    BY <2>1 DEF WithGrant, Unassigned
<1> HIDE DEF limit
<1>3. c \in Call
  BY <1>2 DEF Call
<1>4. ChangesTerms(c) => ~campaign.locked /\ c.at = "orders"
  BY <1>1 DEF ChangesTerms
<1>5. Begin(r, c) /\ Untouched
  BY <1>1 DEF limit
<1> QED
  BY <1>2, <1>3, <1>4, <1>5, BeginKeeps DEF Takes

LEMMA EditReadKeeps == ASSUME IInv, NEW r \in Request, EditRead(r) PROVE IInv'
<1>1. ASSUME NEW at \in {"orders", "write"}, NEW field \in {"price", "total", "allowed"}, NEW value,
             [op |-> "edit", at |-> at, field |-> field, value |-> value] \in Call,
             field # "allowed" => ~campaign.locked /\ at = "orders", Untouched,
             Begin(r, [op |-> "edit", at |-> at, field |-> field, value |-> value])
      PROVE  IInv'
  BY <1>1, BeginKeeps DEF ChangesTerms, Takes
<1>2. ASSUME NEW s \in Asked, Untouched,
             Begin(r, [op |-> "edit", at |-> "write", field |-> "status", value |-> s, sync |-> TRUE])
      PROVE  IInv'
  <2>1. [op |-> "edit", at |-> "write", field |-> "status", value |-> s, sync |-> TRUE] \in Call
    BY DEF Call
  <2> QED
    BY <1>2, <2>1, BeginKeeps DEF ChangesTerms, Takes
<1>3. \A p \in Price : [op |-> "edit", at |-> "orders", field |-> "price", value |-> p] \in Call
  BY DEF Call
<1>4. \A t \in Total : [op |-> "edit", at |-> "orders", field |-> "total", value |-> t] \in Call
  BY DEF Call
<1>5. \A A \in SUBSET Agency :
        [op |-> "edit", at |-> "write", field |-> "allowed", value |-> A] \in Call
  BY DEF Call
<1> QED
  BY <1>1, <1>2, <1>3, <1>4, <1>5 DEF EditRead

LEMMA StatusReadKeeps == ASSUME IInv, NEW r \in Request, StatusRead(r) PROVE IInv'
<1>1. PICK s \in Asked : Begin(r, [op |-> "edit", at |-> "write", field |-> "status", value |-> s,
                                  sync |-> campaign.status # s])
  BY DEF StatusRead
<1>2. [op |-> "edit", at |-> "write", field |-> "status", value |-> s,
       sync |-> campaign.status # s] \in Call
  BY DEF Call
<1> QED
  BY <1>1, <1>2, BeginKeeps DEF StatusRead, ChangesTerms, Takes

LEMMA DeclineReadKeeps == ASSUME IInv, NEW r \in Request, DeclineRead(r) PROVE IInv'
<1>1. PICK g \in campaign.allowed :
        Begin(r, [op |-> "edit", at |-> "write", field |-> "allowed",
                  value |-> campaign.allowed \ {g}])
  BY DEF DeclineRead
<1>2. campaign.allowed \ {g} \in SUBSET Agency
  BY DEF IInv, TypeOK, Campaign
<1>3. [op |-> "edit", at |-> "write", field |-> "allowed",
       value |-> campaign.allowed \ {g}] \in Call
  BY <1>2 DEF Call
<1> QED
  BY <1>1, <1>3, BeginKeeps DEF DeclineRead, ChangesTerms, Takes

LEMMA PlainReadKeeps ==
    ASSUME IInv, NEW r \in Request, DeleteRead(r) \/ PublishRead(r) \/ DropRead(r) \/ CancelRead(r)
    PROVE  IInv'
<1>1. [op |-> "delete", at |-> "orders"] \in Call
  BY DEF Call
<1>2. \A m \in Mediator : /\ [op |-> "publish", at |-> "find", m |-> m] \in Call
                          /\ [op |-> "drop", at |-> "orders", m |-> m] \in Call
  BY DEF Call
<1>3. \A o \in Existing : [op |-> "cancel", at |-> "write", o |-> o] \in Call
  BY DEF Call, Existing
<1>4. ASSUME NEW c \in Call, c.op \in {"delete", "publish", "drop", "cancel"},
             Begin(r, c), Untouched
      PROVE  IInv'
  BY <1>4, BeginKeeps DEF ChangesTerms, Takes
<1>5. CASE DeleteRead(r)
  BY <1>1, <1>4, <1>5 DEF DeleteRead
<1>6. CASE PublishRead(r)
  BY <1>2, <1>4, <1>6 DEF PublishRead
<1>7. CASE DropRead(r)
  BY <1>2, <1>4, <1>7 DEF DropRead
<1>8. CASE CancelRead(r)
  BY <1>3, <1>4, <1>8 DEF CancelRead
<1> QED
  BY <1>5, <1>6, <1>7, <1>8

LEMMA RedirectReadKeeps == ASSUME IInv, NEW r \in Request, RedirectRead(r) PROVE IInv'
<1>1. PICK m \in Mediator, o \in Order :
        Spare(o) /\ Begin(r, [op |-> "redirect", at |-> "campaign", m |-> m, o |-> o])
  BY DEF RedirectRead
<1>2. [op |-> "redirect", at |-> "campaign", m |-> m, o |-> o] \in Call
  BY DEF Call
<1> QED
  BY <1>1, <1>2, BeginKeeps DEF RedirectRead, ChangesTerms, Takes, Inserts

LEMMA OrderReadKeeps == ASSUME IInv, NEW r \in Request, OrderRead(r) PROVE IInv'
<1>1. PICK m \in Mediator, o \in Order, pre \in BOOLEAN :
        /\ IF pre THEN orders[o].state = "redirected" /\ orders[o].by = m ELSE Spare(o)
        /\ Begin(r, [op |-> "order", at |-> "sales", m |-> m, o |-> o, pre |-> pre,
                     cap |-> IF Capped(m) THEN campaign.limit[m] ELSE None])
  BY DEF OrderRead
<1> DEFINE cap == IF Capped(m) THEN campaign.limit[m] ELSE None
           c == [op |-> "order", at |-> "sales", m |-> m, o |-> o, pre |-> pre, cap |-> cap]
<1>2. cap \in Nat \cup {None}
  BY DEF IInv, TypeOK, Campaign
<1> HIDE DEF cap
<1>3. c \in Call
  BY <1>2 DEF Call
<1>4. Begin(r, c) /\ Untouched
  BY <1>1 DEF cap, OrderRead
<1> QED
  BY <1>1, <1>3, <1>4, BeginKeeps DEF ChangesTerms, Takes, Inserts
-----------------------------------------------------------------------------
(* The places a request may go on to. *)
LEMMA GoOnTypes ==
    ASSUME NEW c \in Call
    PROVE  /\ c.op \in {"assign", "delete", "drop"} => [c EXCEPT !.at = "write"] \in Call
           /\ c.op = "edit" /\ c.at = "orders" => [c EXCEPT !.at = "write"] \in Call
           /\ c.op = "edit" /\ c.field = "status" => [c EXCEPT !.at = "deals"] \in Call
           /\ c.op = "delete" => [c EXCEPT !.at = "deals"] \in Call
           /\ c.op = "publish" => /\ [c EXCEPT !.at = "create"] \in Call
                                  /\ [c EXCEPT !.at = "update"] \in Call
           /\ c.op = "redirect" => [c EXCEPT !.at = "write"] \in Call
           /\ c.op = "order" => [c EXCEPT !.at = "claim"] \in Call
<1>1. c.op = "assign" => [c EXCEPT !.at = "write"] \in Call
  BY DEF Call, Idle
<1>2. c.op = "delete" => /\ [c EXCEPT !.at = "write"] \in Call
                         /\ [c EXCEPT !.at = "deals"] \in Call
  BY DEF Call, Idle
<1>3. c.op = "drop" => [c EXCEPT !.at = "write"] \in Call
  BY DEF Call, Idle
<1>4. c.op = "edit" /\ c.at = "orders" => [c EXCEPT !.at = "write"] \in Call
  BY DEF Call, Idle
<1>5. c.op = "edit" /\ c.field = "status" => [c EXCEPT !.at = "deals"] \in Call
  BY DEF Call, Idle
<1>6. c.op = "publish" => /\ [c EXCEPT !.at = "create"] \in Call
                          /\ [c EXCEPT !.at = "update"] \in Call
  BY DEF Call, Idle
<1>7. c.op = "redirect" => [c EXCEPT !.at = "write"] \in Call
  BY DEF Call, Idle
<1>8. c.op = "order" => [c EXCEPT !.at = "claim"] \in Call
  BY DEF Call, Idle
<1> QED
  BY <1>1, <1>2, <1>3, <1>4, <1>5, <1>6, <1>7, <1>8

(* Only an allocation is ever current. *)
LEMMA OtherEnds ==
    ASSUME IInv, NEW r \in Request, call[r] # Idle, call[r].op # "assign", End(r),
           UNCHANGED <<campaign, orders, current>>, deals' \in [Mediator -> Deal]
    PROVE  IInv'
<1>1. r \notin current
  BY DEF IInv, Granted
<1> QED
  BY <1>1, EndKeeps

LEMMA CheckOrdersKeeps == ASSUME IInv, NEW r \in Request, CheckOrders(r) PROVE IInv'
<1>1. /\ call[r] \in Call /\ call[r] # Idle
      /\ call[r].op \in {"assign", "edit", "delete"} /\ call[r].at = "orders"
  BY DEF CheckOrders, At, IInv, TypeOK, Idle
<1>2. CASE HasOrders
  BY <1>1, <1>2, EndKeeps DEF CheckOrders, Untouched, IInv, TypeOK
<1>3. CASE ~HasOrders
  BY <1>1, <1>3, GoOnTypes, GotoKeeps DEF CheckOrders
<1> QED
  BY <1>2, <1>3

LEMMA PublishFindKeeps == ASSUME IInv, NEW r \in Request, PublishFind(r) PROVE IInv'
<1>1. call[r] \in Call /\ call[r] # Idle /\ call[r].op = "publish"
  BY DEF PublishFind, At, IInv, TypeOK, Idle
<1>2. PICK at \in {"update", "create"} : Goto(r, at)
  BY DEF PublishFind
<1> QED
  BY <1>1, <1>2, GoOnTypes, GotoKeeps DEF PublishFind, Untouched, ChangesTerms

LEMMA DropCheckKeeps == ASSUME IInv, NEW r \in Request, DropCheck(r) PROVE IInv'
<1>1. call[r] \in Call /\ call[r] # Idle /\ call[r].op = "drop"
  BY DEF DropCheck, At, IInv, TypeOK, Idle
<1>2. CASE End(r)
  BY <1>1, <1>2, OtherEnds DEF DropCheck, Untouched, IInv, TypeOK
<1>3. CASE Goto(r, "write")
  BY <1>1, <1>3, GoOnTypes, GotoKeeps DEF DropCheck, ChangesTerms
<1> QED
  BY <1>2, <1>3 DEF DropCheck

LEMMA RedirectCheckKeeps == ASSUME IInv, NEW r \in Request, RedirectCheck(r) PROVE IInv'
<1>1. call[r] \in Call /\ call[r] # Idle /\ call[r].op = "redirect"
  BY DEF RedirectCheck, At, IInv, TypeOK, Idle
<1>2. CASE End(r)
  BY <1>1, <1>2, OtherEnds DEF RedirectCheck, Untouched, IInv, TypeOK
<1>3. CASE Goto(r, "write")
  BY <1>1, <1>3, GoOnTypes, GotoKeeps DEF RedirectCheck, ChangesTerms
<1> QED
  BY <1>2, <1>3 DEF RedirectCheck

LEMMA OrderBeginKeeps == ASSUME IInv, NEW r \in Request, OrderBegin(r) PROVE IInv'
<1>1. call[r] \in Call /\ call[r] # Idle /\ call[r].op = "order"
  BY DEF OrderBegin, At, IInv, TypeOK, Idle
<1>2. CASE End(r)
  BY <1>1, <1>2, OtherEnds DEF OrderBegin, Untouched, IInv, TypeOK
<1>3. CASE Goto(r, "claim")
  BY <1>1, <1>3, GoOnTypes, GotoKeeps DEF OrderBegin, ChangesTerms
<1> QED
  BY <1>2, <1>3 DEF OrderBegin

LEMMA OrderSalesKeeps == ASSUME IInv, NEW r \in Request, OrderSales(r) PROVE IInv'
<1>1. call[r] \in Call /\ call[r] # Idle /\ call[r].op = "order"
  BY DEF OrderSales, At, IInv, TypeOK, Idle
<1>2. CASE End(r)
  BY <1>1, <1>2, OtherEnds DEF OrderSales, Untouched, IInv, TypeOK
<1>3. CASE call' = [call EXCEPT ![r].at = "begin", ![r].cap = None]
  <2> DEFINE c == call[r]
             d == [[c EXCEPT !.at = "begin"] EXCEPT !.cap = None]
  <2>1. d \in Call /\ d.op = "order" /\ d.o = c.o /\ d.pre = c.pre
    BY <1>1 DEF Call, Idle
  <2>2. call' \in [Request -> Call] /\ Others(r) /\ call'[r] = d
    BY <1>3, <2>1 DEF IInv, TypeOK, Others
  <2> HIDE DEF d
  <2>3. TypeOK'
    BY <2>2 DEF OrderSales, Untouched, IInv, TypeOK
  <2>4. Granted'
    BY <1>1, <2>2, GrantedStep DEF OrderSales, Untouched, IInv, Granted
  <2>5. Termed'
    BY <1>1, <2>1, <2>2, TermedStep DEF ChangesTerms
  <2>6. Reserved'
    BY <1>1, <2>1, <2>2, ReservedStep DEF OrderSales, Untouched, Takes, Inserts
  <2> QED
    BY <2>3, <2>4, <2>5, <2>6, LeakStep DEF OrderSales, Untouched, IInv
<1> QED
  BY <1>2, <1>3 DEF OrderSales

LEMMA CrashKeeps == ASSUME IInv, NEW r \in Request, Crash(r) PROVE IInv'
  BY EndKeeps DEF Crash, Untouched, IInv, TypeOK

LEMMA DealWriteKeeps ==
    ASSUME IInv, NEW r \in Request,
           \/ EditDeals(r) \/ DeleteDeals(r) \/ PublishWrite(r) \/ PublishFails(r) \/ DropWrite(r)
    PROVE  IInv'
<1>1. /\ call[r] # Idle /\ call[r].op # "assign" /\ End(r)
      /\ UNCHANGED <<campaign, orders, current>>
  BY DEF EditDeals, DeleteDeals, PublishWrite, PublishFails, DropWrite, At, Idle, Untouched
<1>2. deals' \in [Mediator -> Deal]
  <2>1. deals \in [Mediator -> Deal]
    BY DEF IInv, TypeOK
  <2>2. CASE PublishWrite(r) \/ PublishFails(r) \/ DropWrite(r)
    BY <2>1, <2>2 DEF PublishWrite, PublishFails, DropWrite, Deal, Untouched
  <2>3. CASE EditDeals(r) \/ DeleteDeals(r)
    <3>1. PICK to \in Deal : SetDeals(Published, to)
      BY <2>3 DEF EditDeals, DeleteDeals, Deal
    <3> QED
      BY <2>1, <3>1 DEF SetDeals
  <2> QED
    BY <2>2, <2>3
<1> QED
  BY <1>1, <1>2, OtherEnds
-----------------------------------------------------------------------------
(* The writes of the campaign and of the orders. *)
LEMMA AssignWriteKeeps == ASSUME IInv, NEW r \in Request, AssignWrite(r) PROVE IInv'
<1>1. call[r] \in Call /\ call[r] # Idle /\ call[r].op = "assign"
  BY DEF AssignWrite, At, IInv, TypeOK, Idle
<1>2. call' \in [Request -> Call] /\ Others(r) /\ call'[r] = Idle
  BY EndFacts DEF AssignWrite, IInv
<1>3. CASE ~Unmodified(r)
  BY <1>1, <1>3, EndKeeps DEF AssignWrite, Unmodified, IInv, TypeOK
<1>4. CASE Unmodified(r)
  <2>1. /\ call[r].limit \in [Mediator -> Nat] /\ call[r].open \in BOOLEAN
        /\ call[r].price \in Price \cup {None} /\ call[r].status \in {"active", None}
    BY <1>1 DEF Call, Idle
  <2> DEFINE price == Or(call[r].price, campaign.price)
             status == Or(call[r].status, campaign.status)
  <2>2. price \in Price /\ status \in Status
    BY <2>1 DEF Or, IInv, TypeOK, Campaign, Status
  <2> HIDE DEF price, status
  <2>3. /\ campaign' = [campaign EXCEPT !.limit = call[r].limit, !.open = call[r].open,
                                        !.price = price, !.locked = TRUE, !.status = status]
        /\ current' = {} /\ UNCHANGED <<deals, orders>>
    BY <1>4 DEF AssignWrite, Saved, price, status, IInv, TypeOK, Campaign
  <2>4. campaign' \in Campaign
    BY <2>1, <2>2, <2>3 DEF IInv, TypeOK, Campaign
  <2>5. campaign'.used = campaign.used /\ campaign'.deleted = campaign.deleted
    BY <2>3 DEF IInv, TypeOK, Campaign
  <2>6. TypeOK'
    BY <1>2, <2>3, <2>4 DEF IInv, TypeOK
  <2>7. ~ChangesTerms(call'[r]) /\ ~Takes(call'[r])
    BY <1>2 DEF Idle, ChangesTerms, Takes
  <2>8. Granted' /\ Termed' /\ Reserved' /\ SlotsNeverLeak'
    BY <1>1, <1>2, <2>3, <2>5, <2>7, GrantedStep, TermedStep, ReservedStep, LeakStep
  <2> QED
    BY <2>6, <2>8 DEF IInv
<1> QED
  BY <1>3, <1>4

(* What the edit of one field leaves of the row. *)
LEMMA EditedRow ==
    ASSUME IInv, NEW r \in Request, EditWrite(r)
    PROVE  /\ campaign' \in Campaign
           /\ campaign'.used = campaign.used /\ campaign'.deleted = campaign.deleted
           /\ campaign'.limit = campaign.limit /\ campaign'.locked = campaign.locked
           /\ ~ChangesTerms(call[r]) =>
                  campaign'.price = campaign.price /\ campaign'.total = campaign.total
<1>1. /\ call[r] \in Call /\ call[r].op = "edit"
      /\ campaign' = [campaign EXCEPT ![call[r].field] = call[r].value]
  BY DEF EditWrite, At, Saved, IInv, TypeOK
<1>2. campaign \in Campaign
  BY DEF IInv, TypeOK
<1>3. CASE call[r].field = "price"
  <2>1. call[r].value \in Price
    BY <1>1, <1>3 DEF Call, Idle
  <2>2. campaign' = [campaign EXCEPT !.price = call[r].value]
    BY <1>1, <1>3
  <2> QED
    BY <1>1, <1>2, <1>3, <2>1, <2>2 DEF Campaign, ChangesTerms
<1>4. CASE call[r].field = "total"
  <2>1. call[r].value \in Total /\ ChangesTerms(call[r])
    BY <1>1, <1>4 DEF Call, Idle, ChangesTerms
  <2>2. campaign' = [campaign EXCEPT !.total = call[r].value]
    BY <1>1, <1>4
  <2> QED
    BY <1>2, <2>1, <2>2, CampaignsAssumption DEF Campaign
<1>5. CASE call[r].field = "allowed"
  <2>1. call[r].value \in SUBSET Agency
    BY <1>1, <1>5 DEF Call, Idle
  <2>2. campaign' = [campaign EXCEPT !.allowed = call[r].value]
    BY <1>1, <1>5
  <2> QED
    BY <1>2, <2>1, <2>2 DEF Campaign
<1>6. CASE call[r].field = "status"
  <2>1. call[r].value \in Asked
    BY <1>1, <1>6 DEF Call, Idle
  <2>2. campaign' = [campaign EXCEPT !.status = call[r].value]
    BY <1>1, <1>6
  <2> QED
    BY <1>2, <2>1, <2>2, CampaignsAssumption DEF Campaign, Status
<1> QED
  BY <1>1, <1>3, <1>4, <1>5, <1>6 DEF Call, Idle

LEMMA EditWriteKeeps == ASSUME IInv, NEW r \in Request, EditWrite(r) PROVE IInv'
<1>1. /\ call[r] \in Call /\ call[r] # Idle /\ call[r].op = "edit"
      /\ current' = {} /\ UNCHANGED <<deals, orders>>
  BY DEF EditWrite, At, Saved, IInv, TypeOK, Idle
<1>2. call' \in [Request -> Call] /\ Others(r) /\ ~ChangesTerms(call'[r]) /\ ~Takes(call'[r])
  <2>1. CASE End(r)
    BY <2>1, EndFacts DEF IInv, Idle, ChangesTerms, Takes
  <2>2. CASE call[r].field = "status" /\ Goto(r, "deals")
    <3>1. call' \in [Request -> Call] /\ GoesOn(r, "deals")
      BY <1>1, <2>2, GoOnTypes, GotoFacts DEF IInv
    <3> QED
      BY <1>1, <2>2, <3>1 DEF GoesOn, ChangesTerms, Takes
  <2> QED
    BY <2>1, <2>2 DEF EditWrite
<1>3. TypeOK'
  BY <1>1, <1>2, EditedRow DEF IInv, TypeOK
<1> QED
  BY <1>1, <1>2, <1>3, EditedRow, GrantedStep, TermedStep, ReservedStep, LeakStep DEF IInv

LEMMA DeleteWriteKeeps == ASSUME IInv, NEW r \in Request, DeleteWrite(r) PROVE IInv'
<1>1. /\ call[r] \in Call /\ call[r] # Idle /\ call[r].op = "delete"
      /\ current' = {} /\ UNCHANGED <<deals, orders>>
      /\ campaign' = [campaign EXCEPT !.deleted = TRUE]
  BY DEF DeleteWrite, At, Saved, IInv, TypeOK, Idle
<1>2. call' \in [Request -> Call] /\ GoesOn(r, "deals")
  BY <1>1, GoOnTypes, GotoFacts DEF DeleteWrite, IInv
<1>3. Others(r) /\ ~ChangesTerms(call'[r]) /\ ~Takes(call'[r])
  BY <1>1, <1>2 DEF GoesOn, ChangesTerms, Takes
<1>4. campaign' \in Campaign /\ campaign'.used = campaign.used /\ campaign'.deleted
  BY <1>1 DEF IInv, TypeOK, Campaign
<1>5. TypeOK'
  BY <1>1, <1>2, <1>4 DEF IInv, TypeOK
<1> QED
  BY <1>1, <1>3, <1>4, <1>5, GrantedStep, TermedStep, ReservedStep, LeakStep DEF IInv

LEMMA LiveIsFinite == IsFiniteSet(Live) /\ Cardinality(Live) \in Nat
  BY CampaignsAssumption, FS_Subset, FS_CardinalityType DEF Live

LEMMA RedirectWriteKeeps == ASSUME IInv, NEW r \in Request, RedirectWrite(r) PROVE IInv'
<1> DEFINE o == call[r].o
<1>1. /\ call[r] # Idle /\ call[r].op = "redirect" /\ o \in Order /\ call[r].m \in Mediator
      /\ UNCHANGED <<campaign, deals, current>>
      /\ orders' = [orders EXCEPT ![o] =
                      [state |-> "redirected", by |-> call[r].m, cancelled |-> FALSE]]
  BY DEF RedirectWrite, At, IInv, TypeOK, Call, Idle
<1>2. call' \in [Request -> Call] /\ Others(r) /\ call'[r] = Idle
  BY EndFacts DEF RedirectWrite, IInv
<1>3. r \notin current
  BY <1>1 DEF IInv, Granted
<1>4. /\ orders[o].state = "none"
      /\ \A p \in Order : p # o => orders'[p] = orders[p]
      /\ orders'[o].state = "redirected"
  BY <1>1 DEF IInv, TypeOK, Reserved, Inserts
<1>5. TypeOK'
  BY <1>1, <1>2 DEF IInv, TypeOK
<1>6. Live' = Live
  BY <1>4 DEF Live
<1>7. Takes(call[r]) /\ ~Takes(call'[r]) /\ ~ChangesTerms(call'[r])
  BY <1>1, <1>2 DEF Takes, ChangesTerms, Idle
<1>8. Granted'
  BY <1>1, <1>2, <1>3, GrantedStep
<1>9. Termed'
  BY <1>1, <1>2, <1>7, TermedStep
<1>10. Reserved'
  BY <1>1, <1>2, <1>4, <1>7, ReservedStep
<1> QED
  BY <1>1, <1>5, <1>6, <1>8, <1>9, <1>10 DEF IInv, SlotsNeverLeak

LEMMA OrderCommitKeeps == ASSUME IInv, NEW r \in Request, OrderCommit(r) PROVE IInv'
<1> DEFINE o == call[r].o
<1>1. /\ call[r] # Idle /\ call[r].op = "order" /\ o \in Order /\ call[r].m \in Mediator
      /\ UNCHANGED <<deals, current>> /\ End(r)
  BY DEF OrderCommit, At, IInv, TypeOK, Call, Idle
<1>2. CASE UNCHANGED <<campaign, orders>>
  BY <1>1, <1>2, OtherEnds DEF IInv, TypeOK
<1>3. CASE /\ FreeSlot /\ (call[r].pre => StillRedirected(o))
           /\ campaign' = [campaign EXCEPT !.used = @ + 1]
           /\ orders' = [orders EXCEPT ![o] =
                           [state |-> "placed", by |-> call[r].m, cancelled |-> FALSE]]
  <2>1. call' \in [Request -> Call] /\ Others(r) /\ call'[r] = Idle
    BY <1>1, EndFacts DEF IInv
  <2>2. r \notin current
    BY <1>1 DEF IInv, Granted
  <2>3. orders[o].state \in {"none", "redirected"}
    BY <1>1, <1>3 DEF IInv, Reserved, Inserts, StillRedirected
  <2>4. /\ \A p \in Order : p # o => orders'[p] = orders[p]
        /\ orders'[o].state = "placed" /\ ~orders'[o].cancelled
    BY <1>1, <1>3 DEF IInv, TypeOK
  <2>5. /\ campaign' \in Campaign /\ campaign.used \in Nat
        /\ campaign'.used = campaign.used + 1 /\ campaign'.limit = campaign.limit
        /\ campaign'.deleted = campaign.deleted
    BY <1>3 DEF IInv, TypeOK, Campaign
  <2>6. TypeOK'
    BY <1>1, <1>3, <2>1, <2>5 DEF IInv, TypeOK
  <2>7. Live' = Live \cup {o} /\ o \notin Live
    BY <1>1, <2>3, <2>4 DEF Live
  <2>8. Cardinality(Live') = Cardinality(Live) + 1
    BY <2>7, LiveIsFinite, FS_AddElement
  <2>9. SlotsNeverLeak'
    BY <2>5, <2>8, LiveIsFinite DEF IInv, SlotsNeverLeak
  <2>10. Takes(call[r]) /\ ~Takes(call'[r]) /\ ~ChangesTerms(call'[r])
    BY <1>1, <2>1 DEF Takes, ChangesTerms, Idle
  <2>11. Granted'
    BY <1>1, <2>1, <2>2, <2>5, GrantedStep
  <2>12. Termed'
    BY <1>1, <2>1, <2>10, TermedStep
  <2>13. Reserved'
    BY <1>1, <2>1, <2>4, <2>10, ReservedStep
  <2> QED
    BY <2>6, <2>9, <2>11, <2>12, <2>13 DEF IInv
<1> QED
  BY <1>2, <1>3 DEF OrderCommit

LEMMA CancelWriteKeeps == ASSUME IInv, NEW r \in Request, CancelWrite(r) PROVE IInv'
<1> DEFINE o == call[r].o
<1>1. /\ call[r] # Idle /\ call[r].op = "cancel" /\ o \in Order
      /\ UNCHANGED <<deals, current>> /\ orders' = [orders EXCEPT ![o].cancelled = TRUE]
      /\ campaign' = IF campaign.deleted \/ campaign.used = 0 THEN campaign
                     ELSE [campaign EXCEPT !.used = @ - 1]
  BY DEF CancelWrite, At, IInv, TypeOK, Call, Idle
<1>2. call' \in [Request -> Call] /\ Others(r) /\ call'[r] = Idle
  BY EndFacts DEF CancelWrite, IInv
<1>3. r \notin current
  BY <1>1 DEF IInv, Granted
<1>4. /\ \A p \in Order : /\ orders'[p].state = orders[p].state
                          /\ p # o => orders'[p] = orders[p]
      /\ orders'[o].cancelled
      /\ orders' \in [Order -> [state : {"none", "redirected", "placed"},
                                by : Mediator \cup {None}, cancelled : BOOLEAN]]
  <2>1. orders[o] \in [state : {"none", "redirected", "placed"},
                       by : Mediator \cup {None}, cancelled : BOOLEAN]
    BY <1>1 DEF IInv, TypeOK
  <2> DEFINE d == [orders[o] EXCEPT !.cancelled = TRUE]
  <2>2. /\ d \in [state : {"none", "redirected", "placed"},
                  by : Mediator \cup {None}, cancelled : BOOLEAN]
        /\ d.state = orders[o].state /\ d.cancelled
    BY <2>1
  <2>3. orders' = [orders EXCEPT ![o] = d]
    BY <1>1
  <2> HIDE DEF d
  <2> QED
    BY <1>1, <2>1, <2>2, <2>3 DEF IInv, TypeOK
<1>5. /\ campaign' \in Campaign /\ campaign'.deleted = campaign.deleted
      /\ campaign'.limit = campaign.limit /\ campaign.used \in Nat
      /\ ~campaign.deleted =>
           campaign'.used = IF campaign.used = 0 THEN 0 ELSE campaign.used - 1
  <2>1. campaign \in Campaign /\ campaign.used \in Nat
    BY DEF IInv, TypeOK, Campaign
  <2>2. CASE campaign.deleted \/ campaign.used = 0
    BY <1>1, <2>1, <2>2
  <2>3. CASE ~(campaign.deleted \/ campaign.used = 0)
    <3>1. campaign' = [campaign EXCEPT !.used = @ - 1]
      BY <1>1, <2>3
    <3>2. campaign.used - 1 \in Nat
      BY <2>1, <2>3
    <3> QED
      BY <2>1, <2>3, <3>1, <3>2 DEF Campaign
  <2> QED
    BY <2>2, <2>3
<1>6. TypeOK'
  BY <1>1, <1>2, <1>4, <1>5 DEF IInv, TypeOK
<1>7. Live' = Live \ {o}
  BY <1>4 DEF Live
<1>8. Cardinality(Live') \in {Cardinality(Live), Cardinality(Live) - 1} /\ Cardinality(Live') \in Nat
  <2>1. CASE o \in Live
    BY <1>7, <2>1, LiveIsFinite, FS_RemoveElement, FS_CardinalityType
  <2>2. CASE o \notin Live
    <3>1. Live' = Live
      BY <1>7, <2>2
    <3> QED
      BY <3>1, LiveIsFinite
  <2> QED
    BY <2>1, <2>2
<1>9. SlotsNeverLeak'
  BY <1>5, <1>8, LiveIsFinite DEF IInv, SlotsNeverLeak
<1>10. ~Takes(call'[r]) /\ ~ChangesTerms(call'[r])
  BY <1>2 DEF Takes, ChangesTerms, Idle
<1>11. Granted'
  BY <1>1, <1>2, <1>3, <1>5, GrantedStep
<1>12. Termed'
  BY <1>1, <1>2, <1>10, TermedStep
<1>13. Reserved'
  BY <1>1, <1>2, <1>4, <1>10, ReservedStep
<1> QED
  BY <1>6, <1>9, <1>11, <1>12, <1>13 DEF IInv

LEMMA SuspendKeeps ==
    ASSUME IInv, SuspendBrand \/ \E m \in Mediator : SuspendMediator(m)
    PROVE  IInv'
<1>1. CASE \E m \in Mediator : SuspendMediator(m)
  <2>1. /\ deals' \in [Mediator -> Deal] /\ UNCHANGED <<campaign, orders, call, current>>
    BY <1>1 DEF SuspendMediator, IInv, TypeOK, Deal
  <2> QED
    BY <2>1 DEF IInv, TypeOK, Granted, Termed, HasOrders, Existing, Reserved,
                SlotsNeverLeak, Live
<1>2. CASE SuspendBrand
  <2>1. /\ campaign' = [campaign EXCEPT !.status = "paused"]
        /\ current' = {} /\ UNCHANGED <<deals, orders, call>>
    BY <1>2 DEF SuspendBrand, Saved
  <2>2. /\ campaign' \in Campaign /\ campaign'.locked = campaign.locked
        /\ campaign'.used = campaign.used /\ campaign'.deleted = campaign.deleted
    BY <2>1 DEF IInv, TypeOK, Campaign, Status
  <2> QED
    BY <2>1, <2>2 DEF IInv, TypeOK, Granted, Termed, HasOrders, Existing, Reserved,
                      SlotsNeverLeak, Live
<1> QED
  BY <1>1, <1>2

LEMMA InitInvariant == Init => IInv
<1> SUFFICES ASSUME Init PROVE IInv
  OBVIOUS
<1>1. TypeOK
  <2>1. campaign \in Campaign
    <3>1. Total \subseteq Nat /\ Unassigned \in [Mediator -> Nat] /\ 0 \in Nat
      BY CampaignsAssumption DEF Unassigned
    <3> QED
      BY <3>1 DEF Init, Campaign
  <2>2. deals \in [Mediator -> Deal] /\ call \in [Request -> Call] /\ current \subseteq Request
    BY DEF Init, Deal, Call
  <2>3. orders \in [Order -> [state : {"none", "redirected", "placed"},
                             by : Mediator \cup {None}, cancelled : BOOLEAN]]
    BY DEF Init
  <2> QED
    BY <2>1, <2>2, <2>3 DEF TypeOK
<1>2. Granted /\ Termed /\ Reserved
  BY DEF Init, Granted, Termed, Reserved, Idle, ChangesTerms, Inserts
<1>3. SlotsNeverLeak
  BY LiveIsFinite DEF Init, SlotsNeverLeak
<1> QED
  BY <1>1, <1>2, <1>3 DEF IInv

LEMMA NextInvariant == IInv /\ [Next]_vars => IInv'
<1> SUFFICES ASSUME IInv, [Next]_vars PROVE IInv'
  OBVIOUS
<1>1. ASSUME NEW r \in Request, Step(r) PROVE IInv'
  <2>1. CASE \/ AssignRead(r) \/ EditRead(r) \/ StatusRead(r) \/ DeclineRead(r) \/ DeleteRead(r)
             \/ PublishRead(r) \/ DropRead(r) \/ RedirectRead(r) \/ OrderRead(r) \/ CancelRead(r)
    BY <2>1, AssignReadKeeps, EditReadKeeps, StatusReadKeeps, DeclineReadKeeps, PlainReadKeeps,
       RedirectReadKeeps, OrderReadKeeps
  <2>2. CASE \/ CheckOrders(r) \/ PublishFind(r) \/ DropCheck(r) \/ RedirectCheck(r)
             \/ OrderSales(r) \/ OrderBegin(r) \/ Crash(r)
    BY <2>2, CheckOrdersKeeps, PublishFindKeeps, DropCheckKeeps, RedirectCheckKeeps,
       OrderSalesKeeps, OrderBeginKeeps, CrashKeeps
  <2>3. CASE \/ EditDeals(r) \/ DeleteDeals(r) \/ PublishWrite(r) \/ PublishFails(r) \/ DropWrite(r)
    BY <2>3, DealWriteKeeps
  <2>4. CASE \/ AssignWrite(r) \/ EditWrite(r) \/ DeleteWrite(r) \/ RedirectWrite(r)
             \/ OrderCommit(r) \/ CancelWrite(r)
    BY <2>4, AssignWriteKeeps, EditWriteKeeps, DeleteWriteKeeps, RedirectWriteKeeps,
       OrderCommitKeeps, CancelWriteKeeps
  <2> QED
    BY <1>1, <2>1, <2>2, <2>3, <2>4 DEF Step
<1>2. CASE UNCHANGED vars
  BY <1>2 DEF vars, IInv, TypeOK, Granted, Termed, HasOrders, Existing, Reserved,
              SlotsNeverLeak, Live
<1> QED
  BY <1>1, <1>2, SuspendKeeps DEF Next

(* Slots and allocations stay within the capacity: nothing is allocated    *)
(* before the campaign is locked, an allocation that may still be written  *)
(* fits the capacity, and no edit of the capacity outlives the campaign.   *)
Recapacitates(c) == c.op = "edit" /\ c.field = "total"
Unallocated == ~campaign.locked => campaign.limit = Unassigned
Fitting == \A r \in current : ~call[r].open => Assigned(call[r].limit) <= campaign.total
Capacity ==
    /\ Unallocated /\ Fitting
    /\ TermsAlone => /\ CapacityRespected
                     /\ \A r \in Request : Recapacitates(call[r]) => ~campaign.deleted

LEMMA NothingIsAssigned == Assigned(Unassigned) = 0
  BY CampaignsAssumption, SumOfZeros DEF Assigned, Unassigned

(* The steps that leave the row alone and grant nothing. *)
LEMMA QuietStep ==
    ASSUME Capacity, campaign' = campaign,
           \A q \in current' : /\ q \in current /\ call'[q].open = call[q].open
                               /\ call'[q].limit = call[q].limit,
           \A q \in Request : Recapacitates(call'[q]) =>
               Recapacitates(call[q]) \/ ~campaign.deleted
    PROVE  Capacity'
<1>1. Unallocated' /\ (TermsAlone => CapacityRespected')
  BY DEF Capacity, Unallocated, CapacityRespected
<1>2. Fitting'
  BY DEF Capacity, Fitting
<1> QED
  BY <1>1, <1>2 DEF Capacity

(* A request that ends or goes on. *)
LEMMA GoingOnFits ==
    ASSUME IInv, Capacity, NEW r \in Request, call[r] # Idle, campaign' = campaign,
           current' \subseteq current, r \in current' => ~End(r),
           End(r) \/ \E at : Goto(r, at) /\ [call[r] EXCEPT !.at = at] \in Call
    PROVE  Capacity'
<1>1. CASE End(r)
  <2>1. Others(r) /\ ~Recapacitates(call'[r]) /\ r \notin current'
    BY <1>1, EndFacts DEF IInv, Recapacitates, Idle
  <2> QED
    BY <2>1, QuietStep DEF Others, IInv, TypeOK
<1>2. ASSUME NEW at, Goto(r, at), [call[r] EXCEPT !.at = at] \in Call PROVE Capacity'
  <2>1. GoesOn(r, at)
    BY <1>2, GotoFacts DEF IInv
  <2>2. Others(r) /\ (Recapacitates(call'[r]) => Recapacitates(call[r]))
    BY <2>1 DEF GoesOn, Recapacitates
  <2>3. r \in current => call'[r].open = call[r].open /\ call'[r].limit = call[r].limit
    BY <2>1 DEF GoesOn, IInv, Granted
  <2> QED
    BY <2>2, <2>3, QuietStep DEF Others, IInv, TypeOK
<1> QED
  BY <1>1, <1>2

(* The steps that leave the row alone. *)
LEMMA AssignReadFits == ASSUME IInv, Capacity, NEW r \in Request, AssignRead(r) PROVE Capacity'
<1>1. PICK m \in Mediator, n \in Grant, open \in BOOLEAN, price \in Price \cup {None} :
        LET limit == WithGrant(m, n, open) IN
        /\ open \/ Assigned(limit) <= campaign.total
        /\ Begin(r, [op |-> "assign", at |-> IF price = None THEN "write" ELSE "orders",
                     limit |-> limit, open |-> open, price |-> price,
                     status |-> IF campaign.status = "draft" THEN "active" ELSE None])
        /\ Untouched
  BY DEF AssignRead
<1> DEFINE limit == WithGrant(m, n, open)
           c == [op |-> "assign", at |-> IF price = None THEN "write" ELSE "orders",
                 limit |-> limit, open |-> open, price |-> price,
                 status |-> IF campaign.status = "draft" THEN "active" ELSE None]
<1>2. /\ c.op = "assign" /\ c.limit = limit /\ c.open = open
      /\ open \/ Assigned(limit) <= campaign.total
  BY <1>1
<1>3. Begin(r, c) /\ campaign' = campaign
  BY <1>1 DEF Untouched
<1> HIDE DEF limit, c
<1>4. Others(r) /\ call'[r] = c /\ call[r] = Idle /\ current' = current \cup {r}
  BY <1>2, <1>3 DEF Begin, Others, IInv, TypeOK
<1>5. Fitting'
  <2> SUFFICES ASSUME NEW q \in current', ~call'[q].open
               PROVE  Assigned(call'[q].limit) <= campaign.total
    BY <1>3 DEF Fitting
  <2>1. CASE q = r
    BY <1>2, <1>4, <2>1
  <2>2. CASE q # r
    BY <1>4, <2>2 DEF Capacity, Fitting, Others, IInv, TypeOK
  <2> QED
    BY <2>1, <2>2
<1>6. \A q \in Request : Recapacitates(call'[q]) => Recapacitates(call[q])
  BY <1>2, <1>4 DEF Others, Recapacitates
<1> QED
  BY <1>3, <1>5, <1>6 DEF Capacity, Unallocated, CapacityRespected

LEMMA Operations ==
    /\ [op |-> "delete", at |-> "orders"].op \notin {"assign", "edit"}
    /\ \A m : /\ [op |-> "publish", at |-> "find", m |-> m].op \notin {"assign", "edit"}
              /\ [op |-> "drop", at |-> "orders", m |-> m].op \notin {"assign", "edit"}
    /\ \A o : [op |-> "cancel", at |-> "write", o |-> o].op \notin {"assign", "edit"}
    /\ \A m, o : [op |-> "redirect", at |-> "campaign", m |-> m, o |-> o].op \notin {"assign", "edit"}
    /\ \A m, o, pre, cap :
         [op |-> "order", at |-> "sales", m |-> m, o |-> o, pre |-> pre, cap |-> cap].op
             \notin {"assign", "edit"}
  OBVIOUS

LEMMA ReadFits ==
    ASSUME IInv, Capacity, NEW r \in Request,
           \/ EditRead(r) \/ StatusRead(r) \/ DeclineRead(r) \/ DeleteRead(r)
           \/ PublishRead(r) \/ DropRead(r) \/ RedirectRead(r) \/ OrderRead(r) \/ CancelRead(r)
    PROVE  Capacity'
<1>1. PICK c : Begin(r, c) /\ c.op # "assign" /\ campaign' = campaign
                 /\ (Recapacitates(c) => ~campaign.deleted)
  <2>1. CASE EditRead(r)
    BY <2>1 DEF EditRead, Untouched
  <2>2. CASE StatusRead(r) \/ DeclineRead(r)
    BY <2>2 DEF StatusRead, DeclineRead, Untouched
  <2>3. CASE \/ DeleteRead(r) \/ PublishRead(r) \/ DropRead(r) \/ CancelRead(r)
             \/ RedirectRead(r) \/ OrderRead(r)
    <3>1. campaign' = campaign /\ \E c : Begin(r, c) /\ c.op \notin {"assign", "edit"}
      BY Zenon, <2>3, Operations DEF DeleteRead, PublishRead, DropRead, CancelRead, RedirectRead,
                                     OrderRead, Untouched
    <3> QED
      BY <3>1 DEF Recapacitates
  <2> QED
    BY <2>1, <2>2, <2>3
<1>2. /\ Others(r) /\ call'[r] = c /\ call[r] = Idle /\ current' = current /\ r \notin current
  BY <1>1 DEF IInv, TypeOK, Granted, Begin, Idle, Others
<1> QED
  BY <1>1, <1>2, QuietStep DEF Others, IInv, TypeOK

LEMMA GoingOnActions ==
    ASSUME IInv, Capacity, NEW r \in Request,
           \/ CheckOrders(r) \/ PublishFind(r) \/ DropCheck(r) \/ RedirectCheck(r)
           \/ OrderBegin(r) \/ Crash(r)
           \/ EditDeals(r) \/ DeleteDeals(r) \/ PublishWrite(r) \/ PublishFails(r) \/ DropWrite(r)
           \/ RedirectWrite(r)
    PROVE  Capacity'
<1>1. call[r] \in Call /\ (call[r].op # "assign" => r \notin current)
  BY DEF IInv, TypeOK, Granted
<1>2. CASE CheckOrders(r)
  <2>1. call[r] # Idle /\ call[r].op \in {"assign", "edit", "delete"} /\ call[r].at = "orders"
        /\ campaign' = campaign
    BY <1>2 DEF CheckOrders, At, Idle, Untouched
  <2>2. [call[r] EXCEPT !.at = "write"] \in Call
    BY <1>1, <2>1, GoOnTypes
  <2>3. HasOrders \/ ~End(r)
    BY <1>2, <2>1 DEF CheckOrders, Goto, End, IInv, TypeOK, Idle, Call
  <2> QED
    BY <1>2, <2>1, <2>2, <2>3, GoingOnFits DEF CheckOrders
<1>3. CASE PublishFind(r) \/ DropCheck(r) \/ RedirectCheck(r) \/ OrderBegin(r)
  <2>1. /\ call[r] # Idle /\ call[r].op # "assign" /\ campaign' = campaign /\ current' = current
        /\ \/ End(r)
           \/ call[r].op = "publish" /\ Goto(r, "update")
           \/ call[r].op = "publish" /\ Goto(r, "create")
           \/ call[r].op \in {"drop", "redirect"} /\ Goto(r, "write")
           \/ call[r].op = "order" /\ Goto(r, "claim")
    BY <1>3 DEF PublishFind, DropCheck, RedirectCheck, OrderBegin, At, Idle, Untouched
  <2>2. End(r) \/ \E at : Goto(r, at) /\ [call[r] EXCEPT !.at = at] \in Call
    BY <1>1, <2>1, GoOnTypes
  <2> QED
    BY <1>1, <2>1, <2>2, GoingOnFits
<1>4. CASE Crash(r)
  BY <1>4, GoingOnFits DEF Crash, Untouched
<1>5. CASE \/ EditDeals(r) \/ DeleteDeals(r) \/ PublishWrite(r) \/ PublishFails(r) \/ DropWrite(r)
           \/ RedirectWrite(r)
  <2>1. /\ call[r] # Idle /\ call[r].op # "assign" /\ campaign' = campaign /\ current' = current
        /\ End(r)
    BY <1>5 DEF EditDeals, DeleteDeals, PublishWrite, PublishFails, DropWrite, RedirectWrite, At,
                Idle, Untouched
  <2> QED
    BY <1>1, <2>1, GoingOnFits
<1> QED
  BY <1>2, <1>3, <1>4, <1>5

LEMMA OrderSalesFits == ASSUME IInv, Capacity, NEW r \in Request, OrderSales(r) PROVE Capacity'
<1>1. /\ call[r] \in Call /\ call[r] # Idle /\ call[r].op = "order" /\ r \notin current
      /\ campaign' = campaign /\ current' = current
  BY DEF OrderSales, At, IInv, TypeOK, Granted, Idle, Untouched
<1>2. CASE End(r)
  BY <1>1, <1>2, GoingOnFits
<1>3. CASE call' = [call EXCEPT ![r].at = "begin", ![r].cap = None]
  <2> DEFINE d == [[call[r] EXCEPT !.at = "begin"] EXCEPT !.cap = None]
  <2>1. d.op = "order"
    BY <1>1 DEF Call, Idle
  <2>2. Others(r) /\ call'[r] = d
    BY <1>3 DEF IInv, TypeOK, Others
  <2> HIDE DEF d
  <2> QED
    BY <1>1, <2>1, <2>2, QuietStep DEF Others, IInv, TypeOK, Recapacitates
<1> QED
  BY <1>2, <1>3 DEF OrderSales
-----------------------------------------------------------------------------
(* The writes of the row. *)
LEMMA AssignWriteFits == ASSUME IInv, Capacity, NEW r \in Request, AssignWrite(r) PROVE Capacity'
<1>1. call[r] \in Call /\ call[r] # Idle /\ call[r].op = "assign" /\ End(r) /\ campaign \in Campaign
  BY DEF AssignWrite, At, IInv, TypeOK, Idle
<1>2. Others(r) /\ call'[r] = Idle
  BY <1>1, EndFacts DEF IInv
<1>3. CASE ~Unmodified(r)
  BY <1>1, <1>3, GoingOnFits DEF AssignWrite, Unmodified
<1>4. CASE Unmodified(r)
  <2>1. /\ campaign'.locked /\ campaign'.limit = call[r].limit /\ campaign'.open = call[r].open
        /\ campaign'.total = campaign.total /\ campaign'.used = campaign.used
        /\ campaign'.deleted = campaign.deleted /\ current' = {}
    BY <1>1, <1>4 DEF AssignWrite, Saved, Campaign
  <2>2. TermsAlone => CapacityRespected'
    <3>1. ~call[r].open => Assigned(call[r].limit) <= campaign.total
      BY <1>4 DEF Capacity, Fitting, Unmodified
    <3> QED
      BY <2>1, <3>1 DEF Capacity, CapacityRespected
  <2>3. \A q \in Request : Recapacitates(call'[q]) => Recapacitates(call[q])
    BY <1>2 DEF Others, Recapacitates, Idle
  <2> QED
    BY <2>1, <2>2, <2>3 DEF Capacity, Unallocated, Fitting
<1> QED
  BY <1>3, <1>4

(* What an edit of the capacity finds: nothing is in use or allocated. *)
LEMMA EditWriteFits == ASSUME IInv, Capacity, NEW r \in Request, EditWrite(r) PROVE Capacity'
<1>1. /\ call[r] \in Call /\ call[r] # Idle /\ call[r].op = "edit" /\ call[r].at = "write"
      /\ current' = {} /\ campaign \in Campaign
      /\ campaign' = [campaign EXCEPT ![call[r].field] = call[r].value]
  BY DEF EditWrite, At, Saved, IInv, TypeOK, Idle
<1>2. Others(r) /\ ~Recapacitates(call'[r])
  <2>1. CASE End(r)
    BY <2>1, EndFacts DEF IInv, Idle, Recapacitates
  <2>2. CASE call[r].field = "status" /\ Goto(r, "deals")
    <3>1. call' \in [Request -> Call] /\ GoesOn(r, "deals")
      BY <1>1, <2>2, GoOnTypes, GotoFacts DEF IInv
    <3> QED
      BY <1>1, <2>2, <3>1 DEF GoesOn, Recapacitates
  <2> QED
    BY <2>1, <2>2 DEF EditWrite
<1>3. /\ campaign'.used = campaign.used /\ campaign'.deleted = campaign.deleted
      /\ campaign'.limit = campaign.limit /\ campaign'.locked = campaign.locked
      /\ campaign' \in Campaign
  BY EditedRow
<1>4. campaign'.open = campaign.open
  BY <1>1 DEF Campaign, Call, Idle
<1>5. TermsAlone => CapacityRespected'
  <2>1. CASE call[r].field = "total"
    <3> SUFFICES ASSUME TermsAlone PROVE CapacityRespected'
      OBVIOUS
    <3>1. ChangesTerms(call[r]) /\ Recapacitates(call[r])
      BY <1>1, <2>1 DEF ChangesTerms, Recapacitates
    <3>2. ~campaign.locked /\ ~HasOrders /\ ~campaign.deleted
      BY <1>1, <3>1 DEF IInv, Termed, Capacity
    <3>3. Live = {}
      BY <3>2 DEF HasOrders, Existing, Live
    <3>4. campaign.used <= 0 /\ campaign.used \in Nat
      BY <1>1, <3>2, <3>3, FS_EmptySet DEF IInv, SlotsNeverLeak, Campaign
    <3>5. Assigned(campaign'.limit) = 0
      BY <1>3, <3>2, NothingIsAssigned DEF Capacity, Unallocated
    <3>6. campaign'.total \in Nat
      BY <1>3, CampaignsAssumption DEF Campaign
    <3> QED
      BY <1>3, <3>4, <3>5, <3>6 DEF CapacityRespected
  <2>2. CASE call[r].field # "total"
    <3>1. campaign'.total = campaign.total
      BY <1>1, <2>2 DEF Campaign, Call, Idle
    <3> QED
      BY <1>3, <1>4, <3>1 DEF Capacity, CapacityRespected
  <2> QED
    BY <2>1, <2>2
<1>6. \A q \in Request : Recapacitates(call'[q]) => Recapacitates(call[q])
  BY <1>2 DEF Others
<1> QED
  BY <1>1, <1>3, <1>5, <1>6 DEF Capacity, Unallocated, Fitting

LEMMA DeleteWriteFits == ASSUME IInv, Capacity, NEW r \in Request, DeleteWrite(r) PROVE Capacity'
<1>1. /\ call[r] \in Call /\ call[r] # Idle /\ call[r].op = "delete" /\ Goto(r, "deals")
      /\ current' = {} /\ campaign \in Campaign
      /\ campaign' = [campaign EXCEPT !.deleted = TRUE]
  BY DEF DeleteWrite, At, Saved, IInv, TypeOK, Idle
<1>2. GoesOn(r, "deals")
  BY <1>1, GoOnTypes, GotoFacts DEF IInv
<1>3. \A q \in Request : Recapacitates(call'[q]) => q # r /\ Recapacitates(call[q])
  BY <1>1, <1>2 DEF GoesOn, Others, Recapacitates
<1>4. TermsAlone => \A q \in Request : ~Recapacitates(call'[q])
  BY <1>1, <1>3 DEF IInv, Termed, ChangesTerms, Recapacitates
<1>5. /\ campaign'.locked = campaign.locked /\ campaign'.limit = campaign.limit
      /\ campaign'.total = campaign.total /\ campaign'.used = campaign.used
      /\ campaign'.open = campaign.open
  BY <1>1 DEF Campaign
<1> QED
  BY <1>1, <1>4, <1>5 DEF Capacity, Unallocated, Fitting, CapacityRespected

LEMMA SlotsFit ==
    ASSUME IInv, Capacity, NEW r \in Request, OrderCommit(r) \/ CancelWrite(r)
    PROVE  Capacity'
<1>1. /\ call[r] # Idle /\ call[r].op \in {"order", "cancel"} /\ End(r) /\ campaign \in Campaign
      /\ current' = current
      /\ \/ campaign' = campaign
         \/ campaign' = [campaign EXCEPT !.used = @ + 1] /\ FreeSlot
         \/ campaign' = [campaign EXCEPT !.used = @ - 1] /\ campaign.used # 0
  BY DEF OrderCommit, CancelWrite, At, IInv, TypeOK, Idle
<1>2. Others(r) /\ ~Recapacitates(call'[r]) /\ r \notin current
  BY <1>1, EndFacts DEF IInv, Granted, Recapacitates, Idle
<1>3. /\ campaign'.locked = campaign.locked /\ campaign'.limit = campaign.limit
      /\ campaign'.total = campaign.total /\ campaign'.open = campaign.open
      /\ campaign'.deleted = campaign.deleted
  BY <1>1 DEF Campaign
<1>4. campaign.used <= campaign.total => campaign'.used <= campaign'.total
  BY <1>1, <1>3, CampaignsAssumption DEF Campaign, FreeSlot
<1>5. Fitting'
  BY <1>1, <1>2, <1>3 DEF Capacity, Fitting, Others, IInv, TypeOK
<1>6. \A q \in Request : Recapacitates(call'[q]) => Recapacitates(call[q])
  BY <1>2 DEF Others
<1> QED
  BY <1>3, <1>4, <1>5, <1>6 DEF Capacity, Unallocated, CapacityRespected

LEMMA SuspendFits ==
    ASSUME IInv, Capacity, SuspendBrand \/ \E m \in Mediator : SuspendMediator(m)
    PROVE  Capacity'
<1>1. CASE \E m \in Mediator : SuspendMediator(m)
  BY <1>1, QuietStep DEF SuspendMediator
<1>2. CASE SuspendBrand
  <2>1. /\ campaign'.locked = campaign.locked /\ campaign'.limit = campaign.limit
        /\ campaign'.total = campaign.total /\ campaign'.open = campaign.open
        /\ campaign'.deleted = campaign.deleted /\ campaign'.used = campaign.used
        /\ current' = {} /\ call' = call
    BY <1>2 DEF SuspendBrand, Saved, IInv, TypeOK, Campaign
  <2> QED
    BY <2>1 DEF Capacity, Unallocated, Fitting, CapacityRespected
<1> QED
  BY <1>1, <1>2

LEMMA InitCapacity == Init => Capacity
<1> SUFFICES ASSUME Init PROVE Capacity
  OBVIOUS
<1>1. /\ campaign.limit = Unassigned /\ campaign.used = 0 /\ campaign.total \in Nat /\ current = {}
      /\ \A r \in Request : call[r] = Idle
  BY CampaignsAssumption DEF Init
<1> QED
  BY <1>1, NothingIsAssigned DEF Capacity, Unallocated, Fitting, CapacityRespected, Recapacitates, Idle

LEMMA NextCapacity == IInv /\ Capacity /\ [Next]_vars => Capacity'
<1> SUFFICES ASSUME IInv, Capacity, [Next]_vars PROVE Capacity'
  OBVIOUS
<1>1. ASSUME NEW r \in Request, Step(r) PROVE Capacity'
  BY <1>1, AssignReadFits, ReadFits, GoingOnActions, OrderSalesFits, AssignWriteFits,
     EditWriteFits, DeleteWriteFits, SlotsFit DEF Step
<1>2. CASE UNCHANGED vars
  BY <1>2, QuietStep DEF vars
<1> QED
  BY <1>1, <1>2, SuspendFits DEF Next
-----------------------------------------------------------------------------
(* Only an allocation and an edit touch the allocations, the price or the  *)
(* capacity.                                                               *)
LEMMA RestOfStep ==
    ASSUME IInv, [Next]_vars,
           \A r \in Request : ~AssignWrite(r) /\ ~EditWrite(r)
    PROVE  /\ campaign'.limit = campaign.limit
           /\ campaign'.price = campaign.price /\ campaign'.total = campaign.total
<1>0. campaign \in Campaign
  BY DEF IInv, TypeOK
<1>1. CASE campaign' = campaign
  BY <1>1
<1>2. CASE \/ \E r \in Request : DeleteWrite(r) \/ OrderCommit(r) \/ CancelWrite(r)
           \/ SuspendBrand
  BY <1>0, <1>2 DEF DeleteWrite, OrderCommit, CancelWrite, SuspendBrand, Saved, Campaign
<1>3. \/ campaign' = campaign \/ SuspendBrand
      \/ \E r \in Request : DeleteWrite(r) \/ OrderCommit(r) \/ CancelWrite(r)
  BY DEF Next, Step, vars, Untouched, AssignRead, EditRead, StatusRead, DeclineRead, DeleteRead,
         PublishRead, DropRead, RedirectRead, OrderRead, CancelRead, CheckOrders, PublishFind,
         DropCheck, RedirectCheck, OrderSales, OrderBegin, Crash, EditDeals, DeleteDeals,
         PublishWrite, PublishFails, DropWrite, RedirectWrite, SuspendMediator
<1> QED
  BY <1>1, <1>2, <1>3
-----------------------------------------------------------------------------
(* What is known of a campaign in every state: the row, the deals and the  *)
(* requests are well formed, an allocation that may still be written       *)
(* grants no less than the row holds, a change of terms in flight still    *)
(* may be made, a request has the order it inserts to itself, and no slot  *)
(* is in use without a live order (the handlers of opsController.ts,       *)
(* brandController.ts and ordersController.ts).                            *)
THEOREM CampaignInvariant == Spec => []IInv
<1> QED
  BY InitInvariant, NextInvariant, PTL DEF Spec

(* For any number of requests and orders, a campaign that is not deleted   *)
(* has no more slots in use than live orders (ordersController.ts          *)
(* claimSlot, releaseSlot).                                                *)
THEOREM SlotsAreNotLeaked == Spec => []SlotsNeverLeak
<1>1. IInv => SlotsNeverLeak
  BY DEF IInv
<1> QED
  BY <1>1, CampaignInvariant, PTL

(* For any number of requests, no allocation shrinks but by opening the    *)
(* campaign to all mediators (opsController.ts assignSlots).               *)
THEOREM GrantsAreKept == Spec => AllocationsOnlyGrow
<1> DEFINE A == \A m \in Mediator : campaign'.limit[m] < campaign.limit[m] => campaign'.open
<1>1. ASSUME IInv, [Next]_vars PROVE A
  <2>0. /\ campaign \in Campaign /\ campaign.limit \in [Mediator -> Nat]
        /\ \A r \in Request : call[r] \in Call
    BY <1>1 DEF IInv, TypeOK, Campaign
  <2>1. ASSUME NEW r \in Request, AssignWrite(r) PROVE A
    <3>1. CASE ~Unmodified(r)
      BY <2>0, <2>1, <3>1 DEF AssignWrite, Unmodified
    <3>2. CASE Unmodified(r)
      <4>1. /\ call[r].limit \in [Mediator -> Nat]
            /\ ~call[r].open => \A m \in Mediator : campaign.limit[m] <= call[r].limit[m]
        BY <1>1, <2>0, <3>2, <2>1 DEF IInv, Granted, Unmodified, AssignWrite, At, Call, Idle
      <4>2. campaign'.limit = call[r].limit /\ campaign'.open = call[r].open
        BY <2>0, <2>1, <3>2 DEF AssignWrite, Saved, Campaign
      <4> QED
        BY <2>0, <4>1, <4>2
    <3> QED
      BY <3>1, <3>2
  <2>2. ASSUME NEW r \in Request, EditWrite(r) PROVE A
    BY <1>1, <2>0, <2>2, EditedRow
  <2> QED
    BY <1>1, <2>0, <2>1, <2>2, RestOfStep
<1> QED
  BY <1>1, CampaignInvariant, PTL DEF Spec, AllocationsOnlyGrow

(* When changes of terms run alone, the price and the capacity of a        *)
(* campaign stay once it is locked or has an order, whatever else happens  *)
(* to it (brandController.ts updateCampaign, opsController.ts assignSlots).*)
THEOREM LockedTermsStay == ASSUME TermsAlone PROVE Spec => TermsStayLocked
<1> DEFINE A == campaign.locked \/ (\E o \in Order : orders[o].state # "none") =>
                  campaign'.price = campaign.price /\ campaign'.total = campaign.total
<1>1. ASSUME IInv, [Next]_vars PROVE A
  <2>0. campaign \in Campaign /\ \A r \in Request : call[r] \in Call
    BY <1>1 DEF IInv, TypeOK
  <2>1. ASSUME NEW r \in Request, ChangesTerms(call[r]), call[r].at = "write" PROVE A
    BY <1>1, <2>1 DEF IInv, Termed, HasOrders, Existing
  <2>2. ASSUME NEW r \in Request, AssignWrite(r) PROVE A
    <3>1. CASE call[r].price = None
      BY <2>0, <2>2, <3>1 DEF AssignWrite, Saved, Or, Campaign
    <3>2. CASE call[r].price # None
      BY <2>1, <2>2, <3>2 DEF AssignWrite, At, ChangesTerms
    <3> QED
      BY <3>1, <3>2
  <2>3. ASSUME NEW r \in Request, EditWrite(r) PROVE A
    BY <1>1, <2>1, <2>3, EditedRow DEF EditWrite, At
  <2> QED
    BY <1>1, <2>2, <2>3, RestOfStep
<1> QED
  BY <1>1, CampaignInvariant, PTL DEF Spec, TermsStayLocked

(* When changes of terms run alone, neither the slots in use nor those     *)
(* allocated exceed the capacity, whatever requests overlap and however    *)
(* the capacity is edited (claimSlot of ordersController.ts, the sum that  *)
(* assignSlots of opsController.ts checks).                                *)
THEOREM CapacityIsRespected == ASSUME TermsAlone PROVE Spec => []CapacityRespected
<1>1. IInv /\ Capacity => CapacityRespected
  BY DEF Capacity
<1>2. Init => IInv /\ Capacity
  BY InitInvariant, InitCapacity
<1>3. (IInv /\ Capacity) /\ [Next]_vars => (IInv /\ Capacity)'
  BY NextInvariant, NextCapacity
<1> QED
  BY <1>1, <1>2, <1>3, PTL DEF Spec

(* No order is placed on a deleted campaign, however late the deletion     *)
(* came after the order was begun (ordersController.ts claimSlot).         *)
THEOREM DeletedIsClosed == Spec => DeletedTakesNoOrders
<1> DEFINE A == campaign.deleted => \A o \in Order :
                  orders'[o].state = "placed" => orders[o].state = "placed"
<1>1. ASSUME IInv, [Next]_vars PROVE A
  <2>1. orders \in [Order -> [state : {"none", "redirected", "placed"},
                              by : Mediator \cup {None}, cancelled : BOOLEAN]]
    BY <1>1 DEF IInv, TypeOK
  <2>2. CASE orders' = orders
    BY <2>2
  <2>3. ASSUME NEW r \in Request, OrderCommit(r), orders' # orders PROVE A
    BY <2>3 DEF OrderCommit, FreeSlot
  <2>4. ASSUME NEW r \in Request, RedirectWrite(r) PROVE A
    BY <2>1, <2>4 DEF RedirectWrite
  <2>5. ASSUME NEW r \in Request, CancelWrite(r) PROVE A
    <3> SUFFICES ASSUME NEW o \in Order PROVE orders'[o].state = orders[o].state
      OBVIOUS
    <3>1. orders'[o] \in {orders[o], [orders[o] EXCEPT !.cancelled = TRUE]}
      BY <2>1, <2>5 DEF CancelWrite
    <3>2. [orders[o] EXCEPT !.cancelled = TRUE].state = orders[o].state
      BY <2>1
    <3> QED
      BY <3>1, <3>2
  <2>6. \/ orders' = orders
        \/ \E r \in Request : OrderCommit(r) \/ RedirectWrite(r) \/ CancelWrite(r)
    BY ZenonT(30), <1>1 DEF Next, Step, vars, Untouched, AssignRead, AssignWrite, EditRead, StatusRead,
         EditWrite, DeclineRead, DeleteRead, DeleteWrite, PublishRead, DropRead, RedirectRead,
         OrderRead, CancelRead, CheckOrders, PublishFind, DropCheck, RedirectCheck, OrderSales,
         OrderBegin, Crash, EditDeals, DeleteDeals, PublishWrite, PublishFails, DropWrite,
         SuspendMediator, SuspendBrand
  <2> QED
    BY <2>2, <2>3, <2>4, <2>5, <2>6
<1> QED
  BY <1>1, CampaignInvariant, PTL DEF Spec, DeletedTakesNoOrders
=============================================================================

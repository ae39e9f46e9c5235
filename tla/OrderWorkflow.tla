---------------------------- MODULE OrderWorkflow ----------------------------
(***************************************************************************)
(* The order workflow engine: transitionOrderWorkflow, freezeOrders and    *)
(* reactivateOrder, and the handlers that only append to an order's        *)
(* events, as concurrent callers run them.                                 *)
(*                                                                         *)
(* transitionOrderWorkflow reads the order, checks it, and updates it in a *)
(* second statement that is conditional on the status and on the order not *)
(* being frozen; the events it writes are the ones it read.                *)
(*                                                                         *)
(* The names of the specification say whose it is, for it is extended      *)
(* together with Wallet.                                                   *)
(***************************************************************************)
EXTENDS Integers, Sequences, SequencesExt

CONSTANTS Order, Caller,
          MaxReproof,      \* MAX_REPROOF_ATTEMPTS
          InitialStatus    \* the statuses the orders may start in

VARIABLES order,    \* [Order -> [wf, frozen, events]]
          call      \* what each caller is doing

engineVars == <<order, call>>

Status == {"CREATED", "REDIRECTED", "ORDERED", "PROOF_SUBMITTED", "UNDER_REVIEW",
           "APPROVED", "REJECTED", "REWARD_PENDING", "COMPLETED", "FAILED"}

ASSUME OrderWorkflowAssumption == /\ InitialStatus \subseteq Status
                                  /\ MaxReproof \in Nat

TERMINAL == {"COMPLETED", "FAILED"}

ALLOWED == [s \in Status |->
    CASE s = "CREATED"         -> {"REDIRECTED"}
      [] s = "REDIRECTED"      -> {"ORDERED"}
      [] s = "ORDERED"         -> {"PROOF_SUBMITTED"}
      [] s = "PROOF_SUBMITTED" -> {"UNDER_REVIEW", "ORDERED"}
      [] s = "UNDER_REVIEW"    -> {"APPROVED", "REJECTED", "PROOF_SUBMITTED", "ORDERED"}
      [] s = "APPROVED"        -> {"REWARD_PENDING", "ORDERED"}
      [] s = "REJECTED"        -> {"FAILED", "PROOF_SUBMITTED"}
      [] s = "REWARD_PENDING"  -> {"COMPLETED", "FAILED"}
      [] OTHER                 -> {}]

(* assertTransition *)
Legal(from, to) == to \in ALLOWED[from]

(* The events of an order, as far as anything here tells them apart.        *)
Moved(from, to) == [type |-> "WORKFLOW_TRANSITION", from |-> from, to |-> to]
Reactivated     == [type |-> "WORKFLOW_REACTIVATED", from |-> "-", to |-> "-"]
Note            == [type |-> "MISSING_PROOF_REQUESTED", from |-> "-", to |-> "-"]
Rejection       == [type |-> "REJECTED", from |-> "-", to |-> "-"]
Event == {Moved(s, t) : s \in Status, t \in Status} \cup {Reactivated, Note, Rejection}

(* The cap on REJECTED -> PROOF_SUBMITTED, on the events that were read.    *)
ReproofAllowed(from, to, events) ==
    from = "REJECTED" /\ to = "PROOF_SUBMITTED" =>
        Len(SelectSeq(events, LAMBDA e : e.to = "REJECTED" \/ e.type = "REJECTED"))
            < MaxReproof

Idle == [pc |-> "idle"]
Call == [pc : {"idle", "done", "failed"}]
        \cup [pc : {"move"}, o : Order, from : Status, to : Status, seen : Seq(Event)]
        \cup [pc : {"reactivate"}, o : Order, seen : Seq(Event)]
        \cup [pc : {"note"}, o : Order, seen : Seq(Event), event : {Note, Rejection}]

EngineTypeOK == /\ order \in [Order -> [wf : Status, frozen : BOOLEAN, events : Seq(Event)]]
                /\ call \in [Caller -> Call]

EngineInit == /\ order \in [Order -> [wf : InitialStatus, frozen : {FALSE}, events : {<<>>}]]
              /\ call = [c \in Caller |-> Idle]
-----------------------------------------------------------------------------
Answer(c, pc) == call' = [call EXCEPT ![c] = [pc |-> pc]]

(* The checks of transitionOrderWorkflow on the order it has read.          *)
Movable(o, from, to) == /\ Legal(from, to)
                        /\ ~order[o].frozen
                        /\ order[o].wf = from
                        /\ ReproofAllowed(from, to, order[o].events)

TransitionRead(c, o, from, to) ==
    /\ call[c] = Idle
    /\ IF Movable(o, from, to)
       THEN call' = [call EXCEPT ![c] = [pc |-> "move", o |-> o, from |-> from, to |-> to,
                                         seen |-> order[o].events]]
       ELSE Answer(c, "failed")
    /\ UNCHANGED order

(* The WHERE clause of the update. *)
StillAtNoStatus(o, from) == ~order[o].frozen
StillAtNoFrozen(o, from) == order[o].wf = from
StillAt(o, from) == order[o].wf = from /\ ~order[o].frozen

TransitionWrite(c) ==
    /\ call[c].pc = "move"
    /\ LET k == call[c]
       IN  IF StillAt(k.o, k.from)
           THEN /\ order' = [order EXCEPT ![k.o] =
                      [@ EXCEPT !.wf = k.to, !.events = Append(k.seen, Moved(k.from, k.to))]]
                /\ Answer(c, "done")
           ELSE /\ Answer(c, "failed")
                /\ UNCHANGED order

(* freezeOrders: one statement over the orders of a suspended user. *)
FreezableAny(o) == ~order[o].frozen
Freezable(o) == ~order[o].frozen /\ order[o].wf \notin TERMINAL
Freeze(os) ==
    /\ \E o \in os : Freezable(o)
    /\ order' = [o \in Order |-> IF o \in os /\ Freezable(o)
                                 THEN [order[o] EXCEPT !.frozen = TRUE] ELSE order[o]]
    /\ UNCHANGED call

(* reactivateOrder: the read is conditional, the update is not. *)
ReactivateRead(c, o) ==
    /\ call[c] = Idle
    /\ IF order[o].frozen /\ order[o].wf \notin TERMINAL
       THEN call' = [call EXCEPT ![c] = [pc |-> "reactivate", o |-> o, seen |-> order[o].events]]
       ELSE Answer(c, "failed")
    /\ UNCHANGED order

ReactivateWrite(c) ==
    /\ call[c].pc = "reactivate"
    /\ order' = [order EXCEPT ![call[c].o] =
           [@ EXCEPT !.frozen = FALSE, !.events = Append(call[c].seen, Reactivated)]]
    /\ Answer(c, "done")

(* The handlers that write the events they read plus one, unconditionally:  *)
(* requestMissingProof, rejectOrderProof and cancelOrder.  All refuse an    *)
(* order that is frozen when they read it (assertOrderAccess), the last two *)
(* one that is rejected; the proofs and the affiliate status that they look *)
(* at are not kept here.  The transition that the last two end with is      *)
(* TransitionRead.                                                          *)
Refuses(o, event) == order[o].frozen \/ (event = Rejection /\ order[o].wf = "REJECTED")

NoteRead(c, o, event) ==
    /\ call[c] = Idle
    /\ IF Refuses(o, event)
       THEN Answer(c, "failed")
       ELSE call' = [call EXCEPT ![c] = [pc |-> "note", o |-> o, seen |-> order[o].events,
                                         event |-> event]]
    /\ UNCHANGED order

NoteWrite(c) ==
    /\ call[c].pc = "note"
    /\ order' = [order EXCEPT ![call[c].o].events = Append(call[c].seen, call[c].event)]
    /\ Answer(c, "done")

EngineNext == \/ \E c \in Caller :
                     \/ \E o \in Order : \/ \E from, to \in Status : TransitionRead(c, o, from, to)
                                         \/ ReactivateRead(c, o)
                                         \/ \E event \in {Note, Rejection} : NoteRead(c, o, event)
                     \/ TransitionWrite(c)
                     \/ ReactivateWrite(c)
                     \/ NoteWrite(c)
              \/ \E os \in SUBSET Order : Freeze(os)

EngineSpec == EngineInit /\ [][EngineNext]_engineVars
-----------------------------------------------------------------------------
(* The engine moves an order only along the ALLOWED table: ARCHITECTURE.md, *)
(* "atomic updateMany conditional on workflowStatus ... to prevent TOCTOU   *)
(* races".  This is said of the engine alone: unsettleOrderPayment writes   *)
(* APPROVED into an order by its id, outside of the table (opsController.ts *)
(* 2207-2211, UnsettleCommit of Settlement).                                *)
OnlyAllowedMoves ==
    [][\A o \in Order : order'[o].wf # order[o].wf => Legal(order[o].wf, order'[o].wf)]_engineVars

(* The engine does not move a frozen order, also when it was frozen between *)
(* the read and the update of a transition already under way.  Again of the *)
(* engine alone: the transaction of unsettleOrderPayment does not look at   *)
(* frozen again after the handler's read.                                   *)
FrozenOrdersStay ==
    [][\A o \in Order : order[o].frozen => order'[o].wf = order[o].wf]_engineVars

(* An order that has ended is never frozen: reactivation would refuse it    *)
(* and it would stay frozen for good.                                       *)
NoFrozenTerminal == \A o \in Order : order[o].frozen => order[o].wf \notin TERMINAL

(* What a caller is about to write was legal when it read it. *)
CallsAreLegal == \A c \in Caller : call[c].pc = "move" => Legal(call[c].from, call[c].to)

(* The inductive invariant. *)
EngineInv == EngineTypeOK /\ CallsAreLegal /\ NoFrozenTerminal

(* DOMAIN_MODEL.md: "events (JSONB): audit trail of state transitions".     *)
(* The transitions recorded on an order lead, one after the other, to the   *)
(* status it has.                                                           *)
Moves(o) == SelectSeq(order[o].events, LAMBDA e : e.type = "WORKFLOW_TRANSITION")
TrailLeadsToStatus ==
    \A o \in Order :
        LET m == Moves(o)
        IN  /\ \A i \in 1 .. Len(m) - 1 : m[i].to = m[i + 1].from
            /\ IF m = <<>> THEN order[o].wf \in InitialStatus
                           ELSE order[o].wf = Last(m).to
=============================================================================

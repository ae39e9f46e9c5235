----------------------------- MODULE ProofReview -----------------------------
(***************************************************************************)
(* From the purchase to the approval: createOrder and submitClaim of the   *)
(* buyer, the automatic verification they end with, the reviewer's         *)
(* handlers (verify a step or all, reject, cancel the proofs, force, cancel *)
(* the order), and the campaign slots the orders take.                     *)
(*                                                                         *)
(* Every handler decides on the order it read, writes it in a statement of *)
(* its own, and moves the workflow in further statements.  The update of   *)
(* the verification writes the whole object from what was read.  A refused *)
(* request changes nothing and is not an action.                           *)
(***************************************************************************)
EXTENDS Integers, Sequences, FiniteSets

CONSTANTS Order, Caller,
          Required,        \* the proofs the deal asks for besides the purchase
          TotalSlots,      \* total_slots of the campaign
          Confidence,      \* how sure the AI may be: "none" if it gives no answer,
                           \* "low", enough for "bulk" or for "auto"
          AdminForces,     \* whether forceApproveOrder is called by admin or ops
          MaxReproof,      \* MAX_REPROOF_ATTEMPTS
          MaxRejections,   \* bound on the rejections of one order
          Handlers,        \* the handlers that are called
          Overlap,         \* whether handlers interleave
          CanCrash         \* whether the process may die inside a handler

VARIABLES order,    \* [Order -> [wf, frozen, aff, proofs, sure, verified, rejections]]
          used,     \* used_slots of the campaign
          call

vars == <<order, used, call>>

W == INSTANCE OrderWorkflow WITH InitialStatus <- {"REDIRECTED"}

ASSUME ProofReviewAssumption == /\ TotalSlots \in Nat
                                /\ "order" \notin Required

Proof == Required \cup {"order"}
Idle == [pc |-> "idle"]

TypeOK ==
    /\ order \in [Order -> [wf : W!Status, frozen : BOOLEAN,
                            aff : {"Unchecked", "Pending_Cooling", "Rejected",
                                   "Approved_Settled"},
                            proofs : SUBSET Proof, sure : SUBSET Proof,
                            verified : SUBSET Proof, rejections : Nat]]
    /\ used \in 0 .. TotalSlots
    /\ \A c \in Caller : call[c] = Idle \/ call[c].o \in Order

(* A pre-order was tracked when the buyer followed the deal's link. *)
Init == /\ order = [o \in Order |->
                      [wf |-> "REDIRECTED", frozen |-> FALSE, aff |-> "Unchecked", proofs |-> {},
                       sure |-> {}, verified |-> {}, rejections |-> 0]]
        /\ used = 0
        /\ call = [c \in Caller |-> Idle]
-----------------------------------------------------------------------------
Goto(c, next) == call' = [call EXCEPT ![c] = next]
At(c, pc) == call[c].pc = pc
MayStart == Overlap \/ \A c \in Caller : call[c] = Idle
Start(c, o, h) == call[c] = Idle /\ MayStart /\ h \in Handlers /\ ~order[o].frozen
Read(c, pc, o, k) == Goto(c, [pc |-> pc, o |-> o, k |-> k]) /\ UNCHANGED <<order, used>>
Put(o, row) == order' = [order EXCEPT ![o] = row] /\ UNCHANGED used

(* The statuses still to go through, and what the handler does after them. *)
Follow(o, path, then) == [pc |-> "next", o |-> o, path |-> path, then |-> then]
AutoVerify(o, t, sure) == IF sure = "auto" THEN [pc |-> "auto", o |-> o, k |-> t] ELSE Idle

TransitionRead(c) ==
    /\ At(c, "next")
    /\ LET k == call[c]
       IN  Goto(c, IF W!Legal(k.path[1], k.path[2]) /\ W!StillAt(k.o, k.path[1])
                   THEN [k EXCEPT !.pc = "move"] ELSE Idle)
    /\ UNCHANGED <<order, used>>

TransitionWrite(c) ==
    /\ At(c, "move")
    /\ LET k == call[c]
       IN  IF W!StillAt(k.o, k.path[1])
           THEN /\ Put(k.o, [order[k.o] EXCEPT !.wf = k.path[2]])
                /\ Goto(c, IF Len(k.path) = 2 THEN k.then
                           ELSE Follow(k.o, Tail(k.path), k.then))
           ELSE Goto(c, Idle) /\ UNCHANGED <<order, used>>
-----------------------------------------------------------------------------
(* createOrder on a pre-order: one transaction takes a slot and moves the   *)
(* order to ORDERED.  The purchase proof always comes with it, other proofs *)
(* may; the AI's verdict on it is used once and not stored.                 *)
Create(c, o) ==
    /\ Start(c, o, "createOrder")
    /\ order[o].wf = "REDIRECTED"
    /\ used < TotalSlots
    /\ used' = used + 1
    /\ \E sure \in Confidence, others \in SUBSET Required :
          /\ order' = [order EXCEPT ![o] = [@ EXCEPT !.wf = "ORDERED", !.aff = "Unchecked",
                                                    !.proofs = {"order"} \cup others]]
          /\ Goto(c, Follow(o, <<"ORDERED", "PROOF_SUBMITTED", "UNDER_REVIEW">>,
                            IF sure = "none" THEN [pc |-> "mark", o |-> o]
                                             ELSE AutoVerify(o, "order", sure)))

(* The mark that the AI was not available goes into the verification, too.  *)
MarkRead(c) ==
    /\ At(c, "mark")
    /\ Goto(c, [pc |-> "late", o |-> call[c].o, k |-> order[call[c].o].verified])
    /\ UNCHANGED <<order, used>>

(* submitClaim.  The other proofs wait for the purchase to be verified, the *)
(* return window also for the review or rating.                             *)
Gate(row, t) == /\ t # "order" => "order" \in row.verified
                /\ t = "returnWindow" => Required \ {t} \subseteq row.proofs

SubmitReadAnyStatus(c, o) ==
    /\ Start(c, o, "submitClaim")
    /\ order[o].aff # "Approved_Settled"
    /\ \E t \in Proof : Gate(order[o], t) /\ Read(c, "submit", o, [t |-> t, row |-> order[o]])

SubmitRead(c, o) ==
    /\ Start(c, o, "submitClaim")
    /\ order[o].aff # "Approved_Settled"
    /\ order[o].wf \in {"ORDERED", "UNDER_REVIEW", "PROOF_SUBMITTED", "APPROVED"}
    /\ \E t \in Proof : Gate(order[o], t) /\ Read(c, "submit", o, [t |-> t, row |-> order[o]])

SubmitWrite(c) ==
    /\ At(c, "submit")
    /\ LET o == call[c].o  t == call[c].k.t  seen == call[c].k.row
       IN  \E sure \in Confidence :
             /\ Put(o, [order[o] EXCEPT
                    !.proofs = @ \cup {t},
                    !.sure = CASE sure = "none" -> @
                               [] sure = "low"  -> @ \ {t}
                               [] OTHER         -> @ \cup {t},
                    !.aff = IF seen.aff = "Rejected" THEN "Unchecked" ELSE @])
             /\ Goto(c, CASE seen.wf = "UNDER_REVIEW" -> AutoVerify(o, t, sure)
                          [] seen.wf = "APPROVED" ->
                                IF sure = "auto" /\ t \notin seen.verified
                                THEN [pc |-> "late", o |-> o, k |-> seen.verified \cup {t}]
                                ELSE Idle
                          [] OTHER -> Follow(o, <<seen.wf, "PROOF_SUBMITTED", "UNDER_REVIEW">>,
                                             AutoVerify(o, t, sure)))

(* A proof for an order that is approved already is verified on the spot.   *)
LateWrite(c) ==
    /\ At(c, "late")
    /\ Put(call[c].o, [order[call[c].o] EXCEPT !.verified = call[c].k])
    /\ Goto(c, Idle)

(* autoVerifyStep: read, write if still under review, read again, approve   *)
(* or try attemptBulkAutoVerify on what was read.                           *)
AutoRead(c) ==
    /\ At(c, "auto")
    /\ LET o == call[c].o  t == call[c].k  row == order[o]
       IN  Goto(c, IF row.wf = "UNDER_REVIEW" /\ t \notin row.verified
                   THEN [pc |-> "autowrite", o |-> o, k |-> row.verified \cup {t}, bulk |-> TRUE]
                   ELSE Idle)
    /\ UNCHANGED <<order, used>>

AutoWrite(c) ==
    /\ At(c, "autowrite")
    /\ LET o == call[c].o
       IN  IF order[o].wf = "UNDER_REVIEW"
           THEN /\ Put(o, [order[o] EXCEPT !.verified = call[c].k])
                /\ Goto(c, [call[c] EXCEPT !.pc = "refetch"])
           ELSE Goto(c, Idle) /\ UNCHANGED <<order, used>>

(* The checks of finalizeApprovalIfReady on the row it is given. *)
ReadyUnproven(row) == row.wf = "UNDER_REVIEW" /\ ~row.frozen /\ "order" \in row.verified
Ready(row) == /\ row.wf = "UNDER_REVIEW"
              /\ ~row.frozen
              /\ Required \subseteq row.proofs
              /\ Proof \subseteq row.verified
Finalize(o, row) == IF Ready(row) THEN [pc |-> "finalize", o |-> o] ELSE Idle

(* A review link counts as sure by itself. *)
BulkReady(row) == /\ row.wf = "UNDER_REVIEW"
                  /\ Required \subseteq row.proofs
                  /\ Proof \subseteq row.verified \cup row.sure \cup {"review"}
                  /\ ~(Proof \subseteq row.verified)
Refetch(c) ==
    /\ At(c, "refetch")
    /\ LET o == call[c].o
       IN  Goto(c, IF ~Ready(order[o]) /\ call[c].bulk /\ BulkReady(order[o])
                   THEN [pc |-> "autowrite", o |-> o, k |-> Proof, bulk |-> FALSE]
                   ELSE Finalize(o, order[o]))
    /\ UNCHANGED <<order, used>>

FinalizeWrite(c) ==
    /\ At(c, "finalize")
    /\ LET o == call[c].o
       IN  IF W!StillAt(o, "UNDER_REVIEW")
           THEN /\ Put(o, [order[o] EXCEPT !.aff = "Pending_Cooling"])
                /\ Goto(c, Follow(o, <<"UNDER_REVIEW", "APPROVED">>, Idle))
           ELSE Goto(c, Idle) /\ UNCHANGED <<order, used>>
-----------------------------------------------------------------------------
(* verifyOrderClaim, verifyOrderRequirement and verifyAllSteps: what they   *)
(* verify, and what they ask for first.  The row the update returns is the  *)
(* one finalizeApprovalIfReady looks at.                                    *)
Verifiable(row, ts) ==
    \/ ts = {"order"} /\ "order" \notin row.verified
    \/ \E t \in Required \cap row.proofs :
           ts = {t} /\ t \notin row.verified /\ "order" \in row.verified
    \/ ts = Proof /\ Required \subseteq row.proofs

VerifyRead(c, o) ==
    /\ Start(c, o, "verify")
    /\ order[o].wf = "UNDER_REVIEW"
    /\ \E ts \in SUBSET Proof : /\ Verifiable(order[o], ts)
                                /\ Read(c, "verify", o, order[o].verified \cup ts)

VerifyWrite(c) ==
    /\ At(c, "verify")
    /\ LET o == call[c].o  row == [order[o] EXCEPT !.verified = call[c].k]
       IN  Put(o, row) /\ Goto(c, Finalize(o, row))

(* rejectOrderProof and cancelOrderProofs clear everything and send the     *)
(* order back to ORDERED; the slot is kept.                                 *)
ResetRead(c, o) ==
    /\ Start(c, o, "reset")
    /\ \/ /\ order[o].wf \in {"UNDER_REVIEW", "APPROVED"}
          /\ order[o].proofs # {}
          /\ order[o].rejections < MaxRejections
          /\ Read(c, "reset", o, [from |-> order[o].wf, rejections |-> order[o].rejections + 1])
       \/ /\ order[o].wf \in {"UNDER_REVIEW", "PROOF_SUBMITTED", "APPROVED"}
          /\ Read(c, "reset", o, [from |-> order[o].wf, rejections |-> order[o].rejections])

ResetRowKeepsVerified(row, n) == [row EXCEPT !.proofs = {}, !.sure = {},
                                             !.aff = "Unchecked", !.rejections = n]
ResetRow(row, n) == [row EXCEPT !.proofs = {}, !.sure = {}, !.verified = {},
                                !.aff = "Unchecked", !.rejections = n]
ResetWriteStays(c) ==
    /\ At(c, "reset")
    /\ LET o == call[c].o  k == call[c].k
       IN  Put(o, ResetRow(order[o], k.rejections)) /\ Goto(c, Idle)

ResetWrite(c) ==
    /\ At(c, "reset")
    /\ LET o == call[c].o  k == call[c].k
       IN  /\ Put(o, ResetRow(order[o], k.rejections))
           /\ Goto(c, Follow(o, <<k.from, "ORDERED">>, Idle))

(* forceApproveOrder: an order in its cooling period is answered with       *)
(* success as it stands.                                                    *)
ForceRead(c, o) ==
    /\ Start(c, o, "forceApproveOrder")
    /\ order[o].wf \in {"UNDER_REVIEW", "PROOF_SUBMITTED", "APPROVED"}
    /\ AdminForces \/ Proof \subseteq order[o].proofs
    /\ Read(c, IF order[o].aff = "Pending_Cooling" THEN "forced" ELSE "force", o, order[o].wf)

ForceWrite(c) ==
    /\ At(c, "force")
    /\ LET o == call[c].o  forced == [pc |-> "forced", o |-> o]
       IN  /\ Put(o, [order[o] EXCEPT !.aff = "Pending_Cooling", !.verified = Proof])
           /\ Goto(c, IF call[c].k = "APPROVED" THEN forced
                      ELSE Follow(o, <<call[c].k, "APPROVED">>, forced))

ForceAnswer(c) == At(c, "forced") /\ Goto(c, Idle) /\ UNCHANGED <<order, used>>

(* cancelOrder releases the slot in the transaction of its update, and then *)
(* asks for a transition that only UNDER_REVIEW allows.                     *)
CancelRead(c, o) ==
    /\ Start(c, o, "cancelOrder")
    /\ order[o].aff \notin {"Approved_Settled", "Rejected"}
    /\ order[o].wf # "REJECTED"
    /\ Read(c, "cancel", o, order[o].wf)

CancelWriteAnySlots(c) ==
    /\ At(c, "cancel")
    /\ LET o == call[c].o
       IN  /\ order' = [order EXCEPT ![o].aff = "Rejected"]
           /\ used' = used - 1
           /\ Goto(c, Follow(o, <<call[c].k, "REJECTED">>, Idle))

CancelWrite(c) ==
    /\ At(c, "cancel")
    /\ LET o == call[c].o  wf == call[c].k
       IN  /\ order' = [order EXCEPT ![o].aff = "Rejected"]
           /\ used' = IF used > 0 THEN used - 1 ELSE 0
           /\ Goto(c, IF wf \in {"REJECTED", "FAILED", "COMPLETED"} THEN Idle
                      ELSE Follow(o, <<wf, "REJECTED">>, Idle))
-----------------------------------------------------------------------------
(* The settlement, in one step: the order leaves this module. *)
Settle(o) ==
    /\ MayStart
    /\ W!StillAt(o, "APPROVED")
    /\ Put(o, [order[o] EXCEPT !.wf = "COMPLETED", !.aff = "Approved_Settled"])
    /\ UNCHANGED call

(* freezeOrders and reactivateOrder, when a party is suspended. *)
Suspend(o) ==
    /\ MayStart
    /\ \/ W!Freezable(o) /\ Put(o, [order[o] EXCEPT !.frozen = TRUE])
       \/ order[o].frozen /\ Put(o, [order[o] EXCEPT !.frozen = FALSE])
    /\ UNCHANGED call

Crash(c) == CanCrash /\ call[c] # Idle /\ Goto(c, Idle) /\ UNCHANGED <<order, used>>

Start1(c, o) == \/ Create(c, o)
                \/ SubmitRead(c, o)
                \/ VerifyRead(c, o)
                \/ ResetRead(c, o)
                \/ ForceRead(c, o)
                \/ CancelRead(c, o)
Continue(c) == \/ TransitionRead(c)
               \/ TransitionWrite(c)
               \/ SubmitWrite(c)
               \/ MarkRead(c)
               \/ LateWrite(c)
               \/ AutoRead(c)
               \/ AutoWrite(c)
               \/ Refetch(c)
               \/ FinalizeWrite(c)
               \/ VerifyWrite(c)
               \/ ResetWrite(c)
               \/ ForceWrite(c)
               \/ ForceAnswer(c)
               \/ CancelWrite(c)

Next == \/ \E c \in Caller : (\E o \in Order : Start1(c, o)) \/ Continue(c) \/ Crash(c)
        \/ \E o \in Order : Settle(o) \/ Suspend(o)

Spec == Init /\ [][Next]_vars
-----------------------------------------------------------------------------
Quiet == \A c \in Caller : call[c] = Idle

(* Between handlers, an approved order carries the complete trail of        *)
(* verifications, whichever of the five ways approved it, and an order that *)
(* was sent back carries none.                                              *)
ApprovedIsVerified ==
    Quiet => \A o \in Order : /\ order[o].wf = "APPROVED" => Proof \subseteq order[o].verified
                              /\ order[o].wf = "ORDERED" => order[o].verified = {}

(* An order waits for its reviewer only with a proof to look at. *)
ReviewHasProof ==
    Quiet => \A o \in Order : order[o].wf \in {"PROOF_SUBMITTED", "UNDER_REVIEW"}
                              => order[o].proofs # {}

(* No submission, review or retry moves a cancelled order out of the        *)
(* workflow status REJECTED again, though the table of transitions would    *)
(* let it back to PROOF_SUBMITTED.                                          *)
CancelledIsFinal ==
    [][\A o \in Order : order[o].wf = "REJECTED" => order'[o].wf = "REJECTED"]_vars

(* verifyAllSteps: "Only succeeds when all required proofs have been        *)
(* uploaded by the buyer."  Without an admin's force, an approved order     *)
(* has them, also when verifications overwrite each other.                  *)
ApprovedHasProofs ==
    Quiet => \A o \in Order : order[o].wf = "APPROVED" => Required \subseteq order[o].proofs

(* DATABASE_DOCUMENTATION.md: total_slots, "Maximum orders allowed".        *)
Live == {o \in Order : /\ order[o].wf \notin {"REDIRECTED", "REJECTED"}
                       /\ order[o].aff # "Rejected"}
NoOverselling == Cardinality(Live) <= TotalSlots

(* ARCHITECTURE.md: re-proof submissions "are capped at                     *)
(* DEFAULT_MAX_REPROOF_ATTEMPTS (5) per order".                             *)
ReproofIsCapped ==
    \A o \in Order : order[o].rejections > MaxReproof =>
                         order[o].wf \notin {"PROOF_SUBMITTED", "UNDER_REVIEW"}

(* A reviewer told that the order was force-approved finds it approved.     *)
ForcedIsApproved ==
    \A c \in Caller : At(c, "forced") => order[call[c].o].wf = "APPROVED"
=============================================================================

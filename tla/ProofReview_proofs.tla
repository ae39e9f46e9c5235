------------------------- MODULE ProofReview_proofs -------------------------
(* The reviews of proofs, and the AI service under them.                    *)
(*                                                                          *)
(* However many handlers overlap and wherever they crash: a cancelled order *)
(* stays cancelled; and unless an admin forces an approval, or proofs are   *)
(* cleared, no order is approved without its proofs.  When no two handlers  *)
(* overlap and none crashes, an approved order has been verified and an     *)
(* order under review has its proofs.                                       *)
(*                                                                          *)
(* Then the AI service that reads the proofs: its breaker and workers.      *)
EXTENDS ProofReview, AiService, FiniteSetTheorems, WellFoundedInduction, TLAPS

Row == [wf : W!Status, frozen : BOOLEAN,
        aff : {"Unchecked", "Pending_Cooling", "Rejected", "Approved_Settled"},
        proofs : SUBSET Proof, sure : SUBSET Proof, verified : SUBSET Proof, rejections : Nat]

(* What a handler in flight carries.  None of them means to move a          *)
(* cancelled order, or to make an order a pre-order again.                  *)
From == W!Status \ {"REJECTED"}
Path == {<<s, t>> : s \in From, t \in W!Status \ {"REDIRECTED"}}
        \cup {<<s, "PROOF_SUBMITTED", "UNDER_REVIEW">> : s \in From}
Then == {Idle} \cup [pc : {"mark", "forced"}, o : Order]
               \cup [pc : {"auto"}, o : Order, k : Proof]
Call == Then \cup [pc : {"next", "move"}, o : Order, path : Path, then : Then]
             \cup [pc : {"finalize"}, o : Order]
             \cup [pc : {"late", "verify"}, o : Order, k : SUBSET Proof]
             \cup [pc : {"autowrite", "refetch"}, o : Order, k : SUBSET Proof, bulk : BOOLEAN]
             \cup [pc : {"submit"}, o : Order, k : [t : Proof, row : {r \in Row : r.wf \in From}]]
             \cup [pc : {"reset"}, o : Order, k : [from : From, rejections : Nat]]
             \cup [pc : {"force", "forced", "cancel"}, o : Order, k : From]

CInv == TypeOK /\ call \in [Caller -> Call]

(* Where proofs are not cleared and no approval is forced without them:     *)
(* whoever is about to approve an order has seen its proofs.  A pre-order   *)
(* has none to lose when it is placed.                                      *)
Approves(k) == \/ k.pc \in {"finalize", "force"}
               \/ k.pc \in {"next", "move"} /\ k.path[2] = "APPROVED"
Safe(k, row) == /\ k.pc # "reset"
                /\ k.pc = "submit" => row.wf # "REDIRECTED"
                /\ Approves(k) => Required \subseteq row.proofs
SafeRow(row) == /\ row.wf = "APPROVED" => Required \subseteq row.proofs
                /\ row.wf = "REDIRECTED" => row.proofs = {}
ApprovalsAreComplete ==
    /\ \A o \in Order : SafeRow(order[o])
    /\ \A c \in Caller : call[c] # Idle => Safe(call[c], order[call[c].o])

NoneIsForced == ~AdminForces /\ "reset" \notin Handlers

(* What every step keeps. *)
Kept == /\ CInv'
        /\ \A o \in Order : order[o].wf = "REJECTED" => order'[o].wf = "REJECTED"
        /\ NoneIsForced /\ ApprovalsAreComplete => ApprovalsAreComplete'
-----------------------------------------------------------------------------
(* What is known of a handler from where it stands. *)
LEMMA CallFields ==
    ASSUME NEW k \in Call, k # Idle
    PROVE  /\ k.o \in Order
           /\ k.pc \in {"next", "move"} =>
                  k \in [pc : {"next", "move"}, o : Order, path : Path, then : Then]
           /\ k.pc = "auto" => k.k \in Proof
           /\ k.pc \in {"late", "verify"} => k.k \subseteq Proof
           /\ k.pc \in {"autowrite", "refetch"} =>
                  k \in [pc : {"autowrite", "refetch"}, o : Order, k : SUBSET Proof,
                         bulk : BOOLEAN]
           /\ k.pc = "submit" => k.k \in [t : Proof, row : {r \in Row : r.wf \in From}]
           /\ k.pc = "reset" => k.k \in [from : From, rejections : Nat]
           /\ k.pc \in {"force", "cancel"} => k.k \in From
  BY DEF Call, Then, Idle

LEMMA Types == CInv => /\ order \in [Order -> Row] /\ used \in 0 .. TotalSlots
                       /\ call \in [Caller -> Call]
  BY DEF CInv, TypeOK, Row

(* What a handler still does after its transitions approves nothing by      *)
(* itself.                                                                  *)
LEMMA LeadsToNoApproval ==
    ASSUME NEW k \in Then, k # Idle, NEW row PROVE Safe(k, row)
  BY DEF Then, Safe, Approves, Idle

(* A step that reads: the handler goes on to d. *)
LEMMA Reads ==
    ASSUME CInv, NEW c \in Caller, NEW d \in Call, Goto(c, d), UNCHANGED <<order, used>>,
           NoneIsForced /\ ApprovalsAreComplete /\ d \notin Then => Safe(d, order[d.o])
    PROVE  Kept
<1>1. CInv'
  <2>1. call' \in [Caller -> Call] BY Types DEF Goto
  <2>2. (order \in [Order -> Row])' /\ (used \in 0 .. TotalSlots)' BY Types
  <2>3. \A e \in Caller : call'[e] = Idle \/ call'[e].o \in Order BY <2>1, CallFields
  <2> QED BY <2>1, <2>2, <2>3 DEF CInv, TypeOK, Row
<1>2. ASSUME NoneIsForced, ApprovalsAreComplete PROVE ApprovalsAreComplete'
  <2>1. ASSUME NEW e \in Caller, call'[e] # Idle PROVE Safe(call'[e], order[call'[e].o])
    <3>1. call \in [Caller -> Call] BY Types
    <3>2. CASE e = c
      <4>1. call'[e] = d BY <3>1, <3>2 DEF Goto
      <4> QED BY <4>1, <2>1, <1>2, LeadsToNoApproval
    <3>3. CASE e # c
      <4>1. call'[e] = call[e] BY <3>1, <3>3 DEF Goto
      <4> QED BY <4>1, <2>1, <1>2 DEF ApprovalsAreComplete
    <3> QED BY <3>2, <3>3
  <2> QED BY <2>1, <1>2 DEF ApprovalsAreComplete
<1> QED BY <1>1, <1>2 DEF Kept

(* A step that writes the row of an order. *)
LEMMA Writes ==
    ASSUME CInv, NEW c \in Caller, NEW d \in Call, Goto(c, d),
           NEW o \in Order, NEW row \in Row, order' = [order EXCEPT ![o] = row],
           used' \in 0 .. TotalSlots,
           order[o].wf = "REJECTED" => row.wf = "REJECTED",
           NoneIsForced /\ ApprovalsAreComplete =>
               /\ SafeRow(row)
               /\ order[o].wf # "REDIRECTED" => row.wf # "REDIRECTED"
               /\ Required \subseteq order[o].proofs => Required \subseteq row.proofs
               /\ d \notin Then => d.o = o /\ Safe(d, row)
    PROVE  Kept
<1>0. order \in [Order -> Row] /\ call \in [Caller -> Call] BY Types
<1>1. CInv'
  <2>1. call' \in [Caller -> Call] BY <1>0 DEF Goto
  <2>2. order' \in [Order -> Row] BY <1>0
  <2>3. \A e \in Caller : call'[e] = Idle \/ call'[e].o \in Order BY <2>1, CallFields
  <2> QED BY <2>1, <2>2, <2>3 DEF CInv, TypeOK, Row
<1>2. \A p \in Order : order'[p] = IF p = o THEN row ELSE order[p] BY <1>0
<1>3. ASSUME NoneIsForced, ApprovalsAreComplete PROVE ApprovalsAreComplete'
  <2>1. ASSUME NEW p \in Order PROVE SafeRow(order'[p])
    BY <1>2, <1>3 DEF ApprovalsAreComplete
  <2>2. ASSUME NEW e \in Caller, call'[e] # Idle PROVE Safe(call'[e], order'[call'[e].o])
    <3>1. CASE e = c
      <4>1. call'[e] = d BY <1>0, <3>1 DEF Goto
      <4>2. CASE d \in Then BY <4>1, <4>2, <2>2, LeadsToNoApproval
      <4>3. CASE d \notin Then BY <4>1, <4>3, <1>2, <1>3
      <4> QED BY <4>2, <4>3
    <3>2. CASE e # c
      <4>1. call'[e] = call[e] BY <1>0, <3>2 DEF Goto
      <4>2. Safe(call[e], order[call[e].o]) /\ call[e].o \in Order
        BY <4>1, <2>2, <1>0, <1>3, CallFields DEF ApprovalsAreComplete
      <4>3. CASE call[e].o = o
        <5>1. Safe(call[e], row) BY <4>2, <4>3, <1>3 DEF Safe
        <5> QED BY <5>1, <4>1, <4>3, <1>2
      <4>4. CASE call[e].o # o BY <4>1, <4>2, <4>4, <1>2
      <4> QED BY <4>3, <4>4
    <3> QED BY <3>1, <3>2
  <2>3. (\A p \in Order : SafeRow(order[p]))' BY <2>1
  <2>4. (\A e \in Caller : call[e] # Idle => Safe(call[e], order[call[e].o]))' BY <2>2
  <2> QED BY <2>3, <2>4 DEF ApprovalsAreComplete
<1>4. \A p \in Order : order[p].wf = "REJECTED" => order'[p].wf = "REJECTED" BY <1>2
<1> QED BY <1>1, <1>3, <1>4 DEF Kept
-----------------------------------------------------------------------------
(* Records in flight. *)
LEMMA Continuations == Then \subseteq Call /\ Idle \in Then
  BY DEF Call, Then

LEMMA FollowType ==
    ASSUME NEW o \in Order, NEW path \in Path, NEW then \in Then
    PROVE  /\ Follow(o, path, then) \in Call
           /\ Follow(o, path, then).o = o
           /\ Follow(o, path, then).pc = "next"
           /\ Follow(o, path, then).path = path
           /\ Follow(o, path, then) # Idle
  BY DEF Follow, Call, Idle

LEMMA AutoType ==
    ASSUME NEW o \in Order, NEW t \in Proof, NEW sure
    PROVE  /\ AutoVerify(o, t, sure) \in Then
           /\ AutoVerify(o, t, sure) # Idle => /\ AutoVerify(o, t, sure).o = o
                                               /\ AutoVerify(o, t, sure).pc = "auto"
  BY DEF AutoVerify, Then, Idle

LEMMA FinalizeType ==
    ASSUME NEW o \in Order, NEW row
    PROVE  /\ Finalize(o, row) \in Call
           /\ Finalize(o, row) # Idle => /\ Finalize(o, row).o = o
                                         /\ Finalize(o, row).pc = "finalize"
                                         /\ Ready(row)
  BY DEF Finalize, Call, Then, Idle

LEMMA PathFields ==
    ASSUME NEW path \in Path
    PROVE  /\ path[1] \in From
           /\ path[2] \in W!Status \ {"REDIRECTED"}
           /\ Len(path) # 2 => Tail(path) \in Path /\ Tail(path)[2] # "APPROVED"
<1>1. CASE path \in {<<s, t>> : s \in From, t \in W!Status \ {"REDIRECTED"}}
  BY <1>1 DEF From
<1>2. CASE path \in {<<s, "PROOF_SUBMITTED", "UNDER_REVIEW">> : s \in From}
  <2>1. PICK s \in From : path = <<s, "PROOF_SUBMITTED", "UNDER_REVIEW">> BY <1>2
  <2>2. Tail(path) = <<"PROOF_SUBMITTED", "UNDER_REVIEW">> BY <2>1
  <2>3. "PROOF_SUBMITTED" \in From /\ "PROOF_SUBMITTED" \in W!Status \ {"REDIRECTED"}
        /\ "UNDER_REVIEW" \in W!Status \ {"REDIRECTED"}
    BY DEF From, W!Status
  <2> QED BY <2>1, <2>2, <2>3 DEF Path
<1> QED BY <1>1, <1>2 DEF Path
-----------------------------------------------------------------------------
LEMMA TransitionReadStep ==
    ASSUME CInv, NEW c \in Caller, TransitionRead(c) PROVE Kept
<1> DEFINE k == call[c]
           d == [k EXCEPT !.pc = "move"]
<1>1. k \in Call /\ k # Idle BY Types DEF TransitionRead, At, Idle
<1>2. k \in [pc : {"next", "move"}, o : Order, path : Path, then : Then]
  BY <1>1, CallFields DEF TransitionRead, At
<1>3. d \in [pc : {"next", "move"}, o : Order, path : Path, then : Then]
      /\ d.o = k.o /\ d.path = k.path /\ d.pc = "move"
  BY <1>2
<1>4. CASE Goto(c, d)
  <2>1. d \in Call BY <1>3 DEF Call
  <2>2. NoneIsForced /\ ApprovalsAreComplete => Safe(d, order[d.o])
    BY <1>1, <1>2, <1>3 DEF ApprovalsAreComplete, Safe, Approves, TransitionRead, At
  <2> QED BY <1>4, <2>1, <2>2, Reads DEF TransitionRead
<1>5. CASE Goto(c, Idle) BY <1>5, Continuations, Reads DEF TransitionRead
<1> QED BY <1>4, <1>5 DEF TransitionRead

LEMMA TransitionWriteStep ==
    ASSUME CInv, NEW c \in Caller, TransitionWrite(c) PROVE Kept
<1> DEFINE k == call[c]
           row == [order[k.o] EXCEPT !.wf = k.path[2]]
           d == IF Len(k.path) = 2 THEN k.then ELSE Follow(k.o, Tail(k.path), k.then)
<1>1. k \in Call /\ k # Idle BY Types DEF TransitionWrite, At, Idle
<1>2. k \in [pc : {"next", "move"}, o : Order, path : Path, then : Then]
  BY <1>1, CallFields DEF TransitionWrite, At
<1>3. CASE W!StillAt(k.o, k.path[1])
  <2>1. row \in Row /\ row.proofs = order[k.o].proofs /\ row.wf = k.path[2]
    BY <1>2, Types, PathFields DEF Row
  <2>2. order[k.o].wf \in From BY <1>2, <1>3, PathFields DEF W!StillAt
  <2>3. d \in Call BY <1>2, PathFields, FollowType, Continuations
  <2>4. ASSUME NoneIsForced, ApprovalsAreComplete
        PROVE  SafeRow(row) /\ (d \notin Then => d.o = k.o /\ Safe(d, row))
    <3>1. k.path[2] = "APPROVED" => Required \subseteq order[k.o].proofs
      BY <1>1, <1>2, <2>4 DEF ApprovalsAreComplete, Safe, Approves
    <3>2. SafeRow(row) BY <3>1, <2>1, <1>2, PathFields DEF SafeRow
    <3>3. ASSUME d \notin Then PROVE d.o = k.o /\ Safe(d, row)
      <4>1. Len(k.path) # 2 BY <3>3, <1>2
      <4>2. d = Follow(k.o, Tail(k.path), k.then) BY <4>1
      <4>3. Tail(k.path) \in Path /\ Tail(k.path)[2] # "APPROVED" BY <4>1, <1>2, PathFields
      <4>4. d.o = k.o /\ d.pc = "next" /\ d.path = Tail(k.path)
        BY <4>2, <4>3, <1>2, FollowType
      <4> HIDE DEF d
      <4> QED BY <4>3, <4>4 DEF Safe, Approves
    <3> QED BY <3>2, <3>3
  <2>5. Goto(c, d) /\ order' = [order EXCEPT ![k.o] = row] /\ used' = used
    BY <1>3 DEF TransitionWrite, Put
  <2>6. used' \in 0 .. TotalSlots BY <2>5, Types
  <2>7. order[k.o].wf # "REDIRECTED" => row.wf # "REDIRECTED" BY <2>1, <1>2, PathFields
  <2>8. Required \subseteq order[k.o].proofs => Required \subseteq row.proofs BY <2>1
  <2>9. order[k.o].wf # "REJECTED" BY <2>2 DEF From
  <2> HIDE DEF d, row
  <2> QED BY <1>2, <2>1, <2>3, <2>4, <2>5, <2>6, <2>7, <2>8, <2>9, Writes
<1>4. CASE ~W!StillAt(k.o, k.path[1])
  BY <1>4, Continuations, Reads DEF TransitionWrite
<1> QED BY <1>3, <1>4
-----------------------------------------------------------------------------
(* A step that leaves the status alone and takes no proof away. *)
LEMMA WritesBeside ==
    ASSUME CInv, NEW c \in Caller, NEW d \in Call, Goto(c, d),
           NEW o \in Order, NEW row \in Row, order' = [order EXCEPT ![o] = row],
           used' \in 0 .. TotalSlots,
           row.wf = order[o].wf, order[o].proofs \subseteq row.proofs,
           NoneIsForced /\ ApprovalsAreComplete =>
               /\ row.proofs = order[o].proofs \/ order[o].wf # "REDIRECTED"
               /\ d \notin Then => d.o = o /\ Safe(d, row)
    PROVE  Kept
<1>1. ASSUME NoneIsForced, ApprovalsAreComplete PROVE SafeRow(row)
  BY <1>1 DEF ApprovalsAreComplete, SafeRow
<1> QED BY <1>1, Writes

LEMMA CreateStep ==
    ASSUME CInv, NEW c \in Caller, NEW o \in Order, Create(c, o) PROVE Kept
<1>1. PICK sure \in Confidence, others \in SUBSET Required :
          /\ order' = [order EXCEPT ![o] = [@ EXCEPT !.wf = "ORDERED", !.aff = "Unchecked",
                                                    !.proofs = {"order"} \cup others]]
          /\ Goto(c, Follow(o, <<"ORDERED", "PROOF_SUBMITTED", "UNDER_REVIEW">>,
                            IF sure = "none" THEN [pc |-> "mark", o |-> o]
                                             ELSE AutoVerify(o, "order", sure)))
  BY DEF Create
<1> DEFINE row == [order[o] EXCEPT !.wf = "ORDERED", !.aff = "Unchecked",
                                   !.proofs = {"order"} \cup others]
           path == <<"ORDERED", "PROOF_SUBMITTED", "UNDER_REVIEW">>
           then == IF sure = "none" THEN [pc |-> "mark", o |-> o]
                                    ELSE AutoVerify(o, "order", sure)
           d == Follow(o, path, then)
<1>2. path \in Path /\ path[2] # "APPROVED" BY DEF Path, From, W!Status
<1>3. then \in Then BY AutoType DEF Then, Proof
<1>4. /\ d \in Call /\ d.o = o /\ d.pc = "next" /\ d.path = path BY <1>2, <1>3, FollowType
<1>5. Safe(d, row) BY <1>2, <1>4 DEF Safe, Approves
<1>6. order[o] \in Row BY Types
<1>7. row \in Row /\ row.wf = "ORDERED" /\ row.proofs = {"order"} \cup others
  <2>1. "ORDERED" \in W!Status BY DEF W!Status
  <2> QED BY <1>6, <2>1 DEF Row, Proof
<1>8. ASSUME NoneIsForced, ApprovalsAreComplete, Required \subseteq order[o].proofs
      PROVE  Required \subseteq row.proofs
  BY <1>8 DEF ApprovalsAreComplete, SafeRow, Create
<1>9. used' \in 0 .. TotalSlots BY Types, ProofReviewAssumption DEF Create
<1>10. order[o].wf # "REJECTED" BY DEF Create
<1>11. SafeRow(row) BY <1>7 DEF SafeRow
<1>12. Goto(c, d) /\ order' = [order EXCEPT ![o] = row] BY <1>1
<1> HIDE DEF d, row
<1> QED BY <1>4, <1>5, <1>7, <1>8, <1>9, <1>10, <1>11, <1>12, Writes

LEMMA MarkReadStep ==
    ASSUME CInv, NEW c \in Caller, MarkRead(c) PROVE Kept
<1> DEFINE k == call[c]
           d == [pc |-> "late", o |-> k.o, k |-> order[k.o].verified]
<1>1. k \in Call /\ k # Idle BY Types DEF MarkRead, At, Idle
<1>2. k.o \in Order /\ order[k.o] \in Row BY <1>1, CallFields, Types
<1>3. d \in Call BY <1>2 DEF Call, Row
<1>4. Safe(d, order[d.o]) BY DEF Safe, Approves
<1> QED BY <1>3, <1>4, Reads DEF MarkRead

LEMMA SubmitReadStep ==
    ASSUME CInv, NEW c \in Caller, NEW o \in Order, SubmitRead(c, o) PROVE Kept
<1>1. PICK t \in Proof : Read(c, "submit", o, [t |-> t, row |-> order[o]]) BY DEF SubmitRead
<1> DEFINE d == [pc |-> "submit", o |-> o, k |-> [t |-> t, row |-> order[o]]]
<1>2. order[o] \in Row BY Types
<1>3. order[o].wf \in From
  BY DEF SubmitRead, From, W!Status
<1>4. d \in Call BY <1>2, <1>3 DEF Call
<1>5. Safe(d, order[d.o]) BY DEF Safe, Approves, SubmitRead
<1> QED BY <1>1, <1>4, <1>5, Reads DEF Read

LEMMA SubmitWriteStep ==
    ASSUME CInv, NEW c \in Caller, SubmitWrite(c) PROVE Kept
<1> DEFINE k == call[c]
           o == k.o
           t == k.k.t
           seen == k.k.row
<1>1. k \in Call /\ k # Idle BY Types DEF SubmitWrite, At, Idle
<1>2. o \in Order /\ order[o] \in Row /\ t \in Proof /\ seen \in Row /\ seen.wf \in From
  BY <1>1, CallFields, Types DEF SubmitWrite, At
<1>3. PICK sure \in Confidence :
             /\ Put(o, [order[o] EXCEPT
                    !.proofs = @ \cup {t},
                    !.sure = CASE sure = "none" -> @
                               [] sure = "low"  -> @ \ {t}
                               [] OTHER         -> @ \cup {t},
                    !.aff = IF seen.aff = "Rejected" THEN "Unchecked" ELSE @])
             /\ Goto(c, CASE seen.wf = "UNDER_REVIEW" -> AutoVerify(o, t, sure)
                          [] seen.wf = "APPROVED" ->
                                IF sure = "auto" /\ t \notin seen.verified
                                THEN [pc |-> "late", o |-> o, k |-> seen.verified \cup {t}]
                                ELSE Idle
                          [] OTHER -> Follow(o, <<seen.wf, "PROOF_SUBMITTED", "UNDER_REVIEW">>,
                                             AutoVerify(o, t, sure)))
  BY DEF SubmitWrite
<1> DEFINE sures == CASE sure = "none" -> order[o].sure
                      [] sure = "low"  -> order[o].sure \ {t}
                      [] OTHER         -> order[o].sure \cup {t}
           aff == IF seen.aff = "Rejected" THEN "Unchecked" ELSE order[o].aff
           row == [order[o] EXCEPT !.proofs = @ \cup {t}, !.sure = sures, !.aff = aff]
           late == [pc |-> "late", o |-> o, k |-> seen.verified \cup {t}]
           path == <<seen.wf, "PROOF_SUBMITTED", "UNDER_REVIEW">>
           d == CASE seen.wf = "UNDER_REVIEW" -> AutoVerify(o, t, sure)
                  [] seen.wf = "APPROVED" ->
                        IF sure = "auto" /\ t \notin seen.verified THEN late ELSE Idle
                  [] OTHER -> Follow(o, path, AutoVerify(o, t, sure))
<1>4. row \in Row /\ row.wf = order[o].wf /\ row.proofs = order[o].proofs \cup {t}
  <2>1. sures \in SUBSET Proof BY <1>2 DEF Row
  <2>2. aff \in {"Unchecked", "Pending_Cooling", "Rejected", "Approved_Settled"}
    BY <1>2 DEF Row
  <2> HIDE DEF sures, aff
  <2> QED BY <1>2, <2>1, <2>2 DEF Row
<1>5. d \in Call /\ (d \notin Then => d.o = o /\ Safe(d, row))
  <2>1. AutoVerify(o, t, sure) \in Then BY <1>2, AutoType
  <2>2. late \in Call /\ Safe(late, row) /\ late.o = o BY <1>2 DEF Call, Row, Safe, Approves
  <2>3. path \in Path /\ path[2] # "APPROVED" BY <1>2 DEF Path
  <2> DEFINE f == Follow(o, path, AutoVerify(o, t, sure))
  <2>4. f \in Call /\ f.o = o /\ f.pc = "next" /\ f.path = path
    BY <1>2, <2>1, <2>3, FollowType
  <2>5. Safe(f, row) BY <2>3, <2>4 DEF Safe, Approves
  <2>6. d \in {AutoVerify(o, t, sure), late, Idle, f} OBVIOUS
  <2> HIDE DEF d, f, late, path, row
  <2> QED BY <2>1, <2>2, <2>4, <2>5, <2>6, Continuations
<1>6. Goto(c, d) /\ order' = [order EXCEPT ![o] = row] /\ used' \in 0 .. TotalSlots
  BY <1>3, Types DEF Put
<1>7. NoneIsForced /\ ApprovalsAreComplete => order[o].wf # "REDIRECTED"
  BY <1>1 DEF ApprovalsAreComplete, Safe, SubmitWrite, At
<1> HIDE DEF d, row
<1> QED BY <1>2, <1>4, <1>5, <1>6, <1>7, WritesBeside

LEMMA LateWriteStep ==
    ASSUME CInv, NEW c \in Caller, LateWrite(c) PROVE Kept
<1> DEFINE k == call[c]
           row == [order[k.o] EXCEPT !.verified = k.k]
<1>1. k \in Call /\ k # Idle BY Types DEF LateWrite, At, Idle
<1>2. k.o \in Order /\ order[k.o] \in Row /\ k.k \subseteq Proof
  BY <1>1, CallFields, Types DEF LateWrite, At
<1>3. row \in Row /\ row.wf = order[k.o].wf /\ row.proofs = order[k.o].proofs
  BY <1>2 DEF Row
<1>4. Goto(c, Idle) /\ order' = [order EXCEPT ![k.o] = row] /\ used' \in 0 .. TotalSlots
  BY Types DEF LateWrite, Put
<1> HIDE DEF row
<1> QED BY <1>2, <1>3, <1>4, Continuations, WritesBeside
-----------------------------------------------------------------------------
LEMMA AutoReadStep ==
    ASSUME CInv, NEW c \in Caller, AutoRead(c) PROVE Kept
<1> DEFINE k == call[c]
           row == order[k.o]
           write == [pc |-> "autowrite", o |-> k.o, k |-> row.verified \cup {k.k},
                     bulk |-> TRUE]
           d == IF row.wf = "UNDER_REVIEW" /\ k.k \notin row.verified THEN write ELSE Idle
<1>1. k \in Call /\ k # Idle BY Types DEF AutoRead, At, Idle
<1>2. k.o \in Order /\ row \in Row /\ k.k \in Proof
  BY <1>1, CallFields, Types DEF AutoRead, At
<1>3. write \in Call /\ Safe(write, order[write.o]) BY <1>2 DEF Call, Row, Safe, Approves
<1>4. Goto(c, d) BY DEF AutoRead
<1>5. d \in {write, Idle} OBVIOUS
<1> HIDE DEF write, d
<1> QED BY <1>3, <1>4, <1>5, Continuations, Reads DEF AutoRead

LEMMA AutoWriteStep ==
    ASSUME CInv, NEW c \in Caller, AutoWrite(c) PROVE Kept
<1> DEFINE k == call[c]
           row == [order[k.o] EXCEPT !.verified = k.k]
           d == [k EXCEPT !.pc = "refetch"]
<1>1. k \in Call /\ k # Idle BY Types DEF AutoWrite, At, Idle
<1>2. /\ k \in [pc : {"autowrite", "refetch"}, o : Order, k : SUBSET Proof, bulk : BOOLEAN]
      /\ order[k.o] \in Row
  BY <1>1, CallFields, Types DEF AutoWrite, At
<1>3. CASE order[k.o].wf = "UNDER_REVIEW"
  <2>1. row \in Row /\ row.wf = order[k.o].wf /\ row.proofs = order[k.o].proofs
    BY <1>2 DEF Row
  <2>2. d \in [pc : {"autowrite", "refetch"}, o : Order, k : SUBSET Proof, bulk : BOOLEAN]
        /\ d.o = k.o /\ d.pc = "refetch"
    BY <1>2
  <2>3. d \in Call BY <2>2 DEF Call
  <2>4. Safe(d, row) BY <2>2 DEF Safe, Approves
  <2>5. Goto(c, d) /\ order' = [order EXCEPT ![k.o] = row] /\ used' \in 0 .. TotalSlots
    BY <1>3, Types DEF AutoWrite, Put
  <2> HIDE DEF row, d
  <2> QED BY <1>2, <2>1, <2>2, <2>3, <2>4, <2>5, WritesBeside
<1>4. CASE order[k.o].wf # "UNDER_REVIEW"
  BY <1>4, Continuations, Reads DEF AutoWrite
<1> QED BY <1>3, <1>4

(* The row on which an approval is decided has the proofs. *)
LEMMA ReadyIsComplete ==
    ASSUME NEW o \in Order, NEW row, Finalize(o, row) \notin Then
    PROVE  /\ Required \subseteq row.proofs
           /\ Safe(Finalize(o, row), row)
<1>1. Finalize(o, row) = [pc |-> "finalize", o |-> o] /\ Ready(row)
  BY Continuations DEF Finalize
<1> QED BY <1>1 DEF Ready, Safe

LEMMA RefetchStep ==
    ASSUME CInv, NEW c \in Caller, Refetch(c) PROVE Kept
<1> DEFINE k == call[c]
           o == k.o
           write == [pc |-> "autowrite", o |-> o, k |-> Proof, bulk |-> FALSE]
           d == IF ~Ready(order[o]) /\ k.bulk /\ BulkReady(order[o])
                THEN write ELSE Finalize(o, order[o])
<1>1. k \in Call /\ k # Idle BY Types DEF Refetch, At, Idle
<1>2. o \in Order BY <1>1, CallFields
<1>3. write \in Call /\ Safe(write, order[write.o]) BY <1>2 DEF Call, Safe, Approves
<1>4. Goto(c, d) BY DEF Refetch
<1>5. d \in {write, Finalize(o, order[o])} OBVIOUS
<1>6. Finalize(o, order[o]) \in Call BY <1>2, FinalizeType
<1>7. ASSUME Finalize(o, order[o]) \notin Then
      PROVE  Safe(Finalize(o, order[o]), order[Finalize(o, order[o]).o])
  <2>1. Finalize(o, order[o]).o = o BY <1>2, <1>7, FinalizeType, Continuations
  <2> QED BY <1>2, <1>7, <2>1, ReadyIsComplete
<1> HIDE DEF write, d
<1> QED BY <1>3, <1>4, <1>5, <1>6, <1>7, Reads DEF Refetch

LEMMA FinalizeWriteStep ==
    ASSUME CInv, NEW c \in Caller, FinalizeWrite(c) PROVE Kept
<1> DEFINE k == call[c]
           row == [order[k.o] EXCEPT !.aff = "Pending_Cooling"]
           path == <<"UNDER_REVIEW", "APPROVED">>
           d == Follow(k.o, path, Idle)
<1>1. k \in Call /\ k # Idle BY Types DEF FinalizeWrite, At, Idle
<1>2. k.o \in Order /\ order[k.o] \in Row BY <1>1, CallFields, Types
<1>3. CASE W!StillAt(k.o, "UNDER_REVIEW")
  <2>1. row \in Row /\ row.wf = order[k.o].wf /\ row.proofs = order[k.o].proofs
    BY <1>2 DEF Row
  <2>2. path \in Path BY DEF Path, From, W!Status
  <2>3. d \in Call /\ d.o = k.o /\ d.pc = "next" /\ d.path = path
    BY <1>2, <2>2, FollowType, Continuations
  <2>4. NoneIsForced /\ ApprovalsAreComplete => Required \subseteq order[k.o].proofs
    BY <1>1 DEF ApprovalsAreComplete, Safe, Approves, FinalizeWrite, At
  <2>5. Goto(c, d) /\ order' = [order EXCEPT ![k.o] = row] /\ used' \in 0 .. TotalSlots
    BY <1>3, Types DEF FinalizeWrite, Put
  <2>6. NoneIsForced /\ ApprovalsAreComplete => Safe(d, row)
    BY <2>1, <2>3, <2>4 DEF Safe
  <2> HIDE DEF row, d
  <2> QED BY <1>2, <2>1, <2>3, <2>5, <2>6, WritesBeside
<1>4. CASE ~W!StillAt(k.o, "UNDER_REVIEW")
  BY <1>4, Continuations, Reads DEF FinalizeWrite
<1> QED BY <1>3, <1>4
-----------------------------------------------------------------------------
LEMMA VerifyReadStep ==
    ASSUME CInv, NEW c \in Caller, NEW o \in Order, VerifyRead(c, o) PROVE Kept
<1>1. PICK ts \in SUBSET Proof : Read(c, "verify", o, order[o].verified \cup ts)
  BY DEF VerifyRead
<1> DEFINE d == [pc |-> "verify", o |-> o, k |-> order[o].verified \cup ts]
<1>2. order[o] \in Row BY Types
<1>3. d \in Call BY <1>2 DEF Call, Row
<1>4. Safe(d, order[d.o]) BY DEF Safe, Approves
<1> QED BY <1>1, <1>3, <1>4, Reads DEF Read

LEMMA VerifyWriteStep ==
    ASSUME CInv, NEW c \in Caller, VerifyWrite(c) PROVE Kept
<1> DEFINE k == call[c]
           row == [order[k.o] EXCEPT !.verified = k.k]
           d == Finalize(k.o, row)
<1>1. k \in Call /\ k # Idle BY Types DEF VerifyWrite, At, Idle
<1>2. k.o \in Order /\ order[k.o] \in Row /\ k.k \subseteq Proof
  BY <1>1, CallFields, Types DEF VerifyWrite, At
<1>3. row \in Row /\ row.wf = order[k.o].wf /\ row.proofs = order[k.o].proofs
  BY <1>2 DEF Row
<1>4. d \in Call BY <1>2, FinalizeType
<1>5. d \notin Then => d.o = k.o /\ Safe(d, row)
  BY <1>2, FinalizeType, ReadyIsComplete, Continuations
<1>6. Goto(c, d) /\ order' = [order EXCEPT ![k.o] = row] /\ used' \in 0 .. TotalSlots
  BY Types DEF VerifyWrite, Put
<1> HIDE DEF d, row
<1> QED BY <1>2, <1>3, <1>4, <1>5, <1>6, WritesBeside

LEMMA ResetReadStep ==
    ASSUME CInv, NEW c \in Caller, NEW o \in Order, ResetRead(c, o) PROVE Kept
<1>1. /\ order[o] \in Row
      /\ order[o].wf \in {"UNDER_REVIEW", "PROOF_SUBMITTED", "APPROVED"}
  BY Types DEF ResetRead
<1>2. PICK n \in Nat : Read(c, "reset", o, [from |-> order[o].wf, rejections |-> n])
  <2>1. order[o].rejections \in Nat /\ order[o].rejections + 1 \in Nat BY <1>1 DEF Row
  <2> QED BY <2>1 DEF ResetRead
<1> DEFINE d == [pc |-> "reset", o |-> o, k |-> [from |-> order[o].wf, rejections |-> n]]
<1>3. order[o].wf \in From BY <1>1 DEF From, W!Status
<1>4. d \in Call BY <1>3 DEF Call
<1>5. ~NoneIsForced BY DEF ResetRead, Start, NoneIsForced
<1> QED BY <1>2, <1>4, <1>5, Reads DEF Read

LEMMA ResetWriteStep ==
    ASSUME CInv, NEW c \in Caller, ResetWrite(c) PROVE Kept
<1> DEFINE k == call[c]
           row == ResetRow(order[k.o], k.k.rejections)
           path == <<k.k.from, "ORDERED">>
           d == Follow(k.o, path, Idle)
<1>1. k \in Call /\ k # Idle BY Types DEF ResetWrite, At, Idle
<1>2. k.o \in Order /\ order[k.o] \in Row /\ k.k.from \in From /\ k.k.rejections \in Nat
  BY <1>1, CallFields, Types DEF ResetWrite, At
<1>3. row \in Row /\ row.wf = order[k.o].wf BY <1>2 DEF Row, ResetRow
<1>4. path \in Path
  <2>1. "ORDERED" \in W!Status \ {"REDIRECTED"} BY DEF W!Status
  <2> QED BY <1>2, <2>1 DEF Path
<1>5. d \in Call BY <1>2, <1>4, FollowType, Continuations
<1>6. ~(NoneIsForced /\ ApprovalsAreComplete)
  BY <1>1 DEF ApprovalsAreComplete, Safe, ResetWrite, At
<1>7. Goto(c, d) /\ order' = [order EXCEPT ![k.o] = row] /\ used' \in 0 .. TotalSlots
  BY Types DEF ResetWrite, Put
<1> HIDE DEF d, row
<1> QED BY <1>2, <1>3, <1>5, <1>6, <1>7, Writes
-----------------------------------------------------------------------------
LEMMA ForceReadStep ==
    ASSUME CInv, NEW c \in Caller, NEW o \in Order, ForceRead(c, o) PROVE Kept
<1> DEFINE pc == IF order[o].aff = "Pending_Cooling" THEN "forced" ELSE "force"
           d == [pc |-> pc, o |-> o, k |-> order[o].wf]
<1>1. order[o].wf \in From BY DEF ForceRead, From, W!Status
<1>2. d \in Call BY <1>1 DEF Call
<1>3. NoneIsForced => Safe(d, order[d.o])
  BY DEF NoneIsForced, ForceRead, Safe, Approves, Proof
<1>4. Goto(c, d) /\ UNCHANGED <<order, used>> BY DEF ForceRead, Read
<1> HIDE DEF d
<1> QED BY <1>2, <1>3, <1>4, Reads

LEMMA ForceWriteStep ==
    ASSUME CInv, NEW c \in Caller, ForceWrite(c) PROVE Kept
<1> DEFINE k == call[c]
           row == [order[k.o] EXCEPT !.aff = "Pending_Cooling", !.verified = Proof]
           forced == [pc |-> "forced", o |-> k.o]
           path == <<k.k, "APPROVED">>
           d == IF k.k = "APPROVED" THEN forced ELSE Follow(k.o, path, forced)
<1>1. k \in Call /\ k # Idle BY Types DEF ForceWrite, At, Idle
<1>2. k.o \in Order /\ order[k.o] \in Row /\ k.k \in From
  BY <1>1, CallFields, Types DEF ForceWrite, At
<1>3. row \in Row /\ row.wf = order[k.o].wf /\ row.proofs = order[k.o].proofs
  BY <1>2 DEF Row
<1>4. forced \in Then BY <1>2 DEF Then
<1>5. path \in Path
  <2>1. "APPROVED" \in W!Status \ {"REDIRECTED"} BY DEF W!Status
  <2> QED BY <1>2, <2>1 DEF Path
<1>6. NoneIsForced /\ ApprovalsAreComplete => Required \subseteq row.proofs
  BY <1>1, <1>3 DEF ApprovalsAreComplete, Safe, Approves, ForceWrite, At
<1>7. d \in Call /\ (d \notin Then => d.o = k.o /\ d.pc = "next")
  <2> DEFINE f == Follow(k.o, path, forced)
  <2>1. f \in Call /\ f.o = k.o /\ f.pc = "next" BY <1>2, <1>4, <1>5, FollowType
  <2>2. d \in {forced, f} OBVIOUS
  <2> HIDE DEF d, f, forced
  <2> QED BY <1>4, <2>1, <2>2, Continuations
<1>8. Goto(c, d) /\ order' = [order EXCEPT ![k.o] = row] /\ used' \in 0 .. TotalSlots
  BY Types DEF ForceWrite, Put
<1> HIDE DEF d, row
<1>9. NoneIsForced /\ ApprovalsAreComplete /\ d \notin Then => Safe(d, row)
  BY <1>6, <1>7 DEF Safe
<1> QED BY <1>2, <1>3, <1>7, <1>8, <1>9, WritesBeside

LEMMA CancelReadStep ==
    ASSUME CInv, NEW c \in Caller, NEW o \in Order, CancelRead(c, o) PROVE Kept
<1> DEFINE d == [pc |-> "cancel", o |-> o, k |-> order[o].wf]
<1>1. order[o].wf \in From BY Types DEF CancelRead, Row, From
<1>2. d \in Call BY <1>1 DEF Call
<1>3. Safe(d, order[d.o]) BY DEF Safe, Approves
<1> QED BY <1>2, <1>3, Reads DEF CancelRead, Read

LEMMA CancelWriteStep ==
    ASSUME CInv, NEW c \in Caller, CancelWrite(c) PROVE Kept
<1> DEFINE k == call[c]
           row == [order[k.o] EXCEPT !.aff = "Rejected"]
           path == <<k.k, "REJECTED">>
           d == IF k.k \in {"REJECTED", "FAILED", "COMPLETED"} THEN Idle
                ELSE Follow(k.o, path, Idle)
<1>1. k \in Call /\ k # Idle BY Types DEF CancelWrite, At, Idle
<1>2. k.o \in Order /\ order[k.o] \in Row /\ k.k \in From
  BY <1>1, CallFields, Types DEF CancelWrite, At
<1>3. row \in Row /\ row.wf = order[k.o].wf /\ row.proofs = order[k.o].proofs
  BY <1>2 DEF Row
<1>4. path \in Path
  <2>1. "REJECTED" \in W!Status \ {"REDIRECTED"} BY DEF W!Status
  <2> QED BY <1>2, <2>1 DEF Path
<1>5. d \in Call /\ (d \notin Then => d.o = k.o /\ Safe(d, row))
  <2> DEFINE f == Follow(k.o, path, Idle)
  <2>1. f \in Call /\ f.o = k.o /\ f.pc = "next" /\ f.path = path
    BY <1>2, <1>4, FollowType, Continuations
  <2>2. Safe(f, row) BY <2>1 DEF Safe, Approves
  <2>3. d \in {Idle, f} OBVIOUS
  <2> HIDE DEF d, f, row
  <2> QED BY <2>1, <2>2, <2>3, Continuations
<1>6. used' \in 0 .. TotalSlots BY Types, ProofReviewAssumption DEF CancelWrite
<1>7. Goto(c, d) /\ order' = [order EXCEPT ![k.o] = row]
  BY <1>2, Types DEF CancelWrite
<1> HIDE DEF d, row
<1> QED BY <1>2, <1>3, <1>5, <1>6, <1>7, WritesBeside
-----------------------------------------------------------------------------
(* The settlement and the suspension write an order, no handler among the   *)
(* callers moves.                                                           *)
LEMMA OthersWrite ==
    ASSUME CInv, NEW o \in Order, NEW row \in Row, order' = [order EXCEPT ![o] = row],
           UNCHANGED <<used, call>>,
           row.wf = order[o].wf \/ (order[o].wf # "REJECTED" /\ row.wf = "COMPLETED"),
           row.proofs = order[o].proofs
    PROVE  Kept
<1>1. CInv' BY Types DEF CInv, TypeOK, Row
<1>2. \A p \in Order : order'[p] = IF p = o THEN row ELSE order[p] BY Types
<1>3. ASSUME NoneIsForced, ApprovalsAreComplete PROVE ApprovalsAreComplete'
  <2>1. ASSUME NEW p \in Order PROVE SafeRow(order'[p])
    BY <1>2, <1>3 DEF ApprovalsAreComplete, SafeRow
  <2>2. ASSUME NEW e \in Caller, call'[e] # Idle PROVE Safe(call'[e], order'[call'[e].o])
    <3>1. Safe(call[e], order[call[e].o]) /\ call[e].o \in Order
      BY <2>2, <1>3, Types, CallFields DEF ApprovalsAreComplete
    <3>2. Safe(call[e], order'[call[e].o])
      BY <3>1, <1>2 DEF Safe
    <3> QED BY <3>2
  <2>3. (\A p \in Order : SafeRow(order[p]))' BY <2>1
  <2>4. (\A e \in Caller : call[e] # Idle => Safe(call[e], order[call[e].o]))' BY <2>2
  <2> QED BY <2>3, <2>4 DEF ApprovalsAreComplete
<1>4. \A p \in Order : order[p].wf = "REJECTED" => order'[p].wf = "REJECTED" BY <1>2
<1> QED BY <1>1, <1>3, <1>4 DEF Kept

LEMMA SettleStep ==
    ASSUME CInv, NEW o \in Order, Settle(o) PROVE Kept
<1> DEFINE row == [order[o] EXCEPT !.wf = "COMPLETED", !.aff = "Approved_Settled"]
<1>1. order[o] \in Row /\ order[o].wf = "APPROVED" BY Types DEF Settle, W!StillAt
<1>2. "COMPLETED" \in W!Status BY DEF W!Status
<1>3. row \in Row /\ row.wf = "COMPLETED" /\ row.proofs = order[o].proofs
  BY <1>1, <1>2 DEF Row
<1>4. order' = [order EXCEPT ![o] = row] /\ UNCHANGED <<used, call>> BY DEF Settle, Put
<1> HIDE DEF row
<1> QED BY <1>1, <1>3, <1>4, OthersWrite

LEMMA SuspendStep ==
    ASSUME CInv, NEW o \in Order, Suspend(o) PROVE Kept
<1>1. PICK b \in BOOLEAN : Put(o, [order[o] EXCEPT !.frozen = b]) BY DEF Suspend
<1> DEFINE row == [order[o] EXCEPT !.frozen = b]
<1>2. order[o] \in Row BY Types
<1>3. row \in Row /\ row.wf = order[o].wf /\ row.proofs = order[o].proofs BY <1>2 DEF Row
<1>4. order' = [order EXCEPT ![o] = row] /\ UNCHANGED <<used, call>>
  BY <1>1 DEF Suspend, Put
<1> HIDE DEF row
<1> QED BY <1>3, <1>4, OthersWrite
-----------------------------------------------------------------------------
LEMMA InitKeeps == Init => CInv /\ ApprovalsAreComplete
<1> SUFFICES ASSUME Init PROVE CInv /\ ApprovalsAreComplete OBVIOUS
<1>1. Idle \in Call BY Continuations
<1>2. "REDIRECTED" \in W!Status BY DEF W!Status
<1>3. CInv BY <1>1, <1>2, ProofReviewAssumption DEF Init, CInv, TypeOK, Row
<1>4. ApprovalsAreComplete BY DEF Init, ApprovalsAreComplete, SafeRow
<1> QED BY <1>3, <1>4

LEMMA StepKeeps == CInv /\ [Next]_vars => Kept
<1> SUFFICES ASSUME CInv, [Next]_vars PROVE Kept OBVIOUS
<1>1. ASSUME NEW c \in Caller, NEW o \in Order, Start1(c, o) PROVE Kept
  BY <1>1, CreateStep, SubmitReadStep, VerifyReadStep, ResetReadStep, ForceReadStep,
     CancelReadStep DEF Start1
<1>2. ASSUME NEW c \in Caller, Continue(c) PROVE Kept
  <2>1. CASE TransitionRead(c) \/ TransitionWrite(c)
    BY <2>1, TransitionReadStep, TransitionWriteStep
  <2>2. CASE SubmitWrite(c) \/ MarkRead(c) \/ LateWrite(c)
    BY <2>2, SubmitWriteStep, MarkReadStep, LateWriteStep
  <2>3. CASE AutoRead(c) \/ AutoWrite(c) \/ Refetch(c) \/ FinalizeWrite(c)
    BY <2>3, AutoReadStep, AutoWriteStep, RefetchStep, FinalizeWriteStep
  <2>4. CASE VerifyWrite(c) \/ ResetWrite(c) \/ ForceWrite(c) \/ CancelWrite(c)
    BY <2>4, VerifyWriteStep, ResetWriteStep, ForceWriteStep, CancelWriteStep
  <2>5. CASE ForceAnswer(c) BY <2>5, Continuations, Reads DEF ForceAnswer
  <2> QED BY <1>2, <2>1, <2>2, <2>3, <2>4, <2>5 DEF Continue
<1>3. ASSUME NEW c \in Caller, Crash(c) PROVE Kept
  BY <1>3, Continuations, Reads DEF Crash
<1>4. ASSUME NEW o \in Order, Settle(o) \/ Suspend(o) PROVE Kept
  BY <1>4, SettleStep, SuspendStep
<1>5. CASE UNCHANGED vars
  <2>1. CInv' BY <1>5 DEF vars, CInv, TypeOK
  <2>2. ApprovalsAreComplete => ApprovalsAreComplete'
    BY <1>5 DEF vars, ApprovalsAreComplete
  <2> QED BY <2>1, <2>2, <1>5 DEF Kept, vars
<1> QED BY <1>1, <1>2, <1>3, <1>4, <1>5 DEF Next
-----------------------------------------------------------------------------
(* Orders, slots and handlers keep their types, and every handler in flight *)
(* carries what the rest of it needs.                                       *)
THEOREM ReviewTypes == Spec => []TypeOK
<1>1. Spec => []CInv BY InitKeeps, StepKeeps, PTL DEF Spec, Kept
<1> QED BY <1>1, PTL DEF CInv

(* A cancelled order is out of the workflow for good: whatever a handler    *)
(* read before the cancellation, no write of it moves the order again, for  *)
(* any number of orders and of overlapping handlers, with crashes.          *)
THEOREM CancelIsFinal == Spec => CancelledIsFinal
<1>1. Init => CInv BY InitKeeps
<1>2. CInv /\ [Next]_vars => CInv' BY StepKeeps DEF Kept
<1>3. CInv /\ [Next]_vars =>
          [\A o \in Order : order[o].wf = "REJECTED" => order'[o].wf = "REJECTED"]_vars
  BY StepKeeps DEF Kept
<1> QED BY <1>1, <1>2, <1>3, PTL DEF Spec, CancelledIsFinal

(* verifyAllSteps: "Only succeeds when all required proofs have been        *)
(* uploaded by the buyer."  Where no approval is forced by an admin and no  *)
(* proofs are cleared, an approved order has them, however the submissions, *)
(* verifications and cancellations of it overlap: each of the five ways to  *)
(* approve has seen the proofs, and they are still there when it writes.    *)
THEOREM ApprovalHasProofs ==
    ASSUME NoneIsForced PROVE Spec => []ApprovedHasProofs
<1>1. Init => CInv /\ ApprovalsAreComplete BY InitKeeps
<1>2. CInv /\ ApprovalsAreComplete /\ [Next]_vars => (CInv /\ ApprovalsAreComplete)'
  BY StepKeeps, NoneIsForced DEF Kept
<1>3. ApprovalsAreComplete => ApprovedHasProofs
  BY DEF ApprovalsAreComplete, ApprovedHasProofs, SafeRow
<1> QED BY <1>1, <1>2, <1>3, PTL DEF Spec
-----------------------------------------------------------------------------
(* One handler at a time.  Between handlers an order is at rest: approved   *)
(* with its whole trail, sent back or just placed without any, waiting for  *)
(* its reviewer with a proof.  Inside a handler that sends it back it is    *)
(* not, for the clearing and the move are two statements; the move must     *)
(* then succeed, so its row is still the one the handler has read.          *)
OneAtATime == ~Overlap /\ ~CanCrash

Rest(row) ==
    /\ row.wf = "APPROVED" => Proof \subseteq row.verified
    /\ row.wf \in {"REDIRECTED", "ORDERED"} => row.verified = {}
    /\ row.wf \in {"PROOF_SUBMITTED", "UNDER_REVIEW"} => row.proofs # {}

ResetFrom == {"UNDER_REVIEW", "PROOF_SUBMITTED", "APPROVED"}
Moves(k) == k.pc \in {"next", "move"}
SendsBack(k) == Moves(k) /\ k.path[2] = "ORDERED"
Fits(k, row) ==
    /\ ~SendsBack(k) => Rest(row)
    /\ SendsBack(k) => /\ row.verified = {} /\ ~row.frozen
                       /\ row.wf = k.path[1] /\ row.wf \in ResetFrom
    /\ Moves(k) => /\ k.then = Idle \/ k.then.o = k.o
                   /\ k.path[2] \in {"PROOF_SUBMITTED", "UNDER_REVIEW"} => row.proofs # {}
                   /\ k.path[2] = "APPROVED" => Proof \subseteq row.verified
    /\ k.pc = "finalize" => Proof \subseteq row.verified
    /\ k.pc = "verify" => row.wf = "UNDER_REVIEW"
    /\ k.pc = "late" => /\ row.verified \subseteq k.k
                        /\ row.wf \in {"REDIRECTED", "ORDERED"} => k.k = {}
    /\ k.pc = "submit" => /\ k.k.row = row
                          /\ row.wf \in ResetFrom \cup {"ORDERED"}
    /\ k.pc = "reset" => row.wf = k.k.from /\ row.wf \in ResetFrom /\ ~row.frozen
    /\ k.pc = "force" => row.wf = k.k /\ row.wf \in ResetFrom

Undisturbed ==
    /\ \A c, d \in Caller : call[c] # Idle /\ call[d] # Idle => c = d
    /\ \A o \in Order : (\A c \in Caller : call[c] = Idle \/ call[c].o # o) => Rest(order[o])
    /\ \A c \in Caller : call[c] # Idle => Fits(call[c], order[call[c].o])

(* The order is the one the caller works on, or the caller is about to      *)
(* start and nobody else works.                                             *)
Mine(c, o) == (\A e \in Caller : call[e] = Idle) \/ (call[c] # Idle /\ call[c].o = o)

(* A handler goes on to d and leaves its order with the given row. *)
LEMMA GoesOn ==
    ASSUME CInv, Undisturbed, NEW c \in Caller, NEW o \in Order, Mine(c, o),
           NEW d, Goto(c, d), NEW row, order' = [order EXCEPT ![o] = row],
           d = Idle => Rest(row), d # Idle => d.o = o /\ Fits(d, row)
    PROVE  Undisturbed'
<1>1. call \in [Caller -> Call] /\ order \in [Order -> Row] BY Types
<1>2. \A e \in Caller : e # c => call[e] = Idle BY DEF Undisturbed, Mine
<1>3. \A e \in Caller : call'[e] = IF e = c THEN d ELSE Idle BY <1>1, <1>2 DEF Goto
<1>4. \A p \in Order : order'[p] = IF p = o THEN row ELSE order[p] BY <1>1
<1>5. \A p \in Order : p # o => Rest(order[p]) BY DEF Undisturbed, Mine
<1>6. \A e \in Caller : call'[e] # Idle => e = c /\ call'[e] = d BY <1>3
<1>7. ASSUME NEW p \in Order, \A e \in Caller : call'[e] = Idle \/ call'[e].o # p
      PROVE  Rest(order'[p])
  <2>1. CASE p # o BY <1>4, <1>5, <2>1
  <2>2. CASE p = o
    <3>1. call'[c] = d BY <1>3
    <3>2. d = Idle BY <3>1, <1>7, <2>2
    <3> QED BY <1>4, <2>2, <3>2
  <2> QED BY <2>1, <2>2
<1>8. ASSUME NEW e \in Caller, call'[e] # Idle PROVE Fits(call'[e], order'[call'[e].o])
  BY <1>4, <1>6, <1>8
<1>9. \A e, f \in Caller : call'[e] # Idle /\ call'[f] # Idle => e = f BY <1>6
<1> QED BY <1>7, <1>8, <1>9 DEF Undisturbed

LEMMA GoesOnReading ==
    ASSUME CInv, Undisturbed, NEW c \in Caller, NEW o \in Order, Mine(c, o),
           NEW d, Goto(c, d), order' = order,
           d = Idle => Rest(order[o]), d # Idle => d.o = o /\ Fits(d, order[o])
    PROVE  Undisturbed'
<1>1. order' = [order EXCEPT ![o] = order[o]] BY Types
<1> QED BY <1>1, GoesOn

(* A handler that starts finds its order at rest. *)
LEMMA Starts1 ==
    ASSUME OneAtATime, CInv, Undisturbed, NEW c \in Caller, NEW o \in Order, NEW h,
           Start(c, o, h)
    PROVE  Mine(c, o) /\ Rest(order[o]) /\ ~order[o].frozen /\ order[o] \in Row
  BY Types DEF OneAtATime, Start, MayStart, Mine, Undisturbed

(* One in flight finds its order as it left it. *)
LEMMA InFlight ==
    ASSUME CInv, Undisturbed, NEW c \in Caller, call[c] # Idle
    PROVE  /\ call[c] \in Call /\ call[c].o \in Order /\ Mine(c, call[c].o)
           /\ order[call[c].o] \in Row
           /\ Fits(call[c], order[call[c].o])
<1>1. call[c] \in Call BY Types
<1> QED BY <1>1, Types, CallFields DEF Mine, Undisturbed

(* What comes after the transitions asks for an order at rest only. *)
LEMMA AtRestFits ==
    ASSUME NEW k, k.pc \in {"mark", "forced", "auto", "cancel", "autowrite", "refetch"},
           NEW row, Rest(row)
    PROVE  Fits(k, row)
  BY DEF Fits, SendsBack, Moves

LEMMA ThenPc ==
    ASSUME NEW k \in Then, k # Idle PROVE k.pc \in {"mark", "forced", "auto"}
  BY DEF Then

LEMMA FollowFields ==
    ASSUME NEW o, NEW path, NEW then
    PROVE  LET k == Follow(o, path, then)
           IN  k.pc = "next" /\ k.o = o /\ k.path = path /\ k.then = then /\ k # Idle
  BY DEF Follow, Idle

(* Transitions that lead on, not back. *)
LEMMA FollowFits ==
    ASSUME NEW o, NEW path, NEW then, then = Idle \/ then.o = o, NEW row, Rest(row),
           path[2] # "ORDERED",
           path[2] \in {"PROOF_SUBMITTED", "UNDER_REVIEW"} => row.proofs # {},
           path[2] = "APPROVED" => Proof \subseteq row.verified
    PROVE  Fits(Follow(o, path, then), row)
<1> DEFINE k == Follow(o, path, then)
<1>1. k.pc = "next" /\ k.o = o /\ k.path = path /\ k.then = then BY FollowFields
<1> HIDE DEF k
<1>2. Fits(k, row) BY <1>1 DEF Fits, SendsBack, Moves
<1> QED BY <1>2 DEF k
-----------------------------------------------------------------------------
LEMMA TransitionReadRests ==
    ASSUME CInv, Undisturbed, NEW c \in Caller, TransitionRead(c) PROVE Undisturbed'
<1> DEFINE k == call[c]
           row == order[k.o]
           d == IF W!Legal(k.path[1], k.path[2]) /\ W!StillAt(k.o, k.path[1])
                THEN [k EXCEPT !.pc = "move"] ELSE Idle
<1>1. k # Idle /\ k.pc = "next" BY DEF TransitionRead, At, Idle
<1>2. k \in [pc : {"next", "move"}, o : Order, path : Path, then : Then]
  BY <1>1, InFlight, CallFields
<1>3. Fits(k, row) /\ Mine(c, k.o) BY <1>1, InFlight
<1>4. CASE d = Idle
  <2>1. ~SendsBack(k)
    <3>1. CASE SendsBack(k)
      <4>1. ~row.frozen /\ row.wf = k.path[1] /\ row.wf \in ResetFrom /\ k.path[2] = "ORDERED"
        BY <1>3, <3>1 DEF Fits, SendsBack
      <4>2. W!StillAt(k.o, k.path[1]) BY <4>1 DEF W!StillAt
      <4>3. W!Legal(k.path[1], k.path[2])
        BY <4>1 DEF W!Legal, W!ALLOWED, W!Status, ResetFrom
      <4>4. d = [k EXCEPT !.pc = "move"] BY <4>2, <4>3
      <4>5. d.pc = "move" BY <4>4, <1>2
      <4> QED BY <4>5, <1>4 DEF Idle
    <3> QED BY <3>1
  <2>2. Rest(row) BY <1>3, <2>1 DEF Fits
  <2> QED BY <1>2, <1>3, <1>4, <2>2, GoesOnReading DEF TransitionRead
<1>5. CASE d # Idle
  <2>1. d = [k EXCEPT !.pc = "move"] BY <1>5
  <2>2. d.pc = "move" /\ d.o = k.o /\ d.path = k.path /\ d.then = k.then BY <2>1, <1>2
  <2>3. Goto(c, d) /\ order' = order BY DEF TransitionRead
  <2> HIDE DEF d
  <2>4. Fits(d, row) BY <1>1, <1>3, <2>2 DEF Fits, SendsBack, Moves
  <2> QED BY <1>2, <1>3, <1>5, <2>2, <2>3, <2>4, GoesOnReading
<1> QED BY <1>4, <1>5

LEMMA TransitionWriteRests ==
    ASSUME CInv, Undisturbed, NEW c \in Caller, TransitionWrite(c) PROVE Undisturbed'
<1> DEFINE k == call[c]
           old == order[k.o]
           row == [old EXCEPT !.wf = k.path[2]]
           d == IF Len(k.path) = 2 THEN k.then ELSE Follow(k.o, Tail(k.path), k.then)
<1>1. k # Idle /\ k.pc = "move" BY DEF TransitionWrite, At, Idle
<1>2. k \in [pc : {"next", "move"}, o : Order, path : Path, then : Then]
  BY <1>1, InFlight, CallFields
<1>3. Fits(k, old) /\ Mine(c, k.o) /\ old \in Row BY <1>1, InFlight
<1>4. CASE W!StillAt(k.o, k.path[1])
  <2>1. Goto(c, d) /\ order' = [order EXCEPT ![k.o] = row]
    BY <1>4 DEF TransitionWrite, Put
  <2>2. row.wf = k.path[2] /\ row.verified = old.verified /\ row.proofs = old.proofs
    BY <1>3 DEF Row
  <2>3. Rest(row)
    <3>1. k.path[2] # "REDIRECTED" BY <1>2, PathFields
    <3>2. k.path[2] = "ORDERED" => row.verified = {}
      BY <1>1, <1>3, <2>2 DEF Fits, SendsBack, Moves
    <3>3. k.path[2] = "APPROVED" => Proof \subseteq row.verified
      BY <1>1, <1>3, <2>2 DEF Fits, Moves
    <3>4. k.path[2] \in {"PROOF_SUBMITTED", "UNDER_REVIEW"} => row.proofs # {}
      BY <1>1, <1>3, <2>2 DEF Fits, Moves
    <3> QED BY <2>2, <3>1, <3>2, <3>3, <3>4 DEF Rest
  <2>4. k.then = Idle \/ k.then.o = k.o BY <1>1, <1>3 DEF Fits, Moves
  <2>5. CASE Len(k.path) = 2
    <3>1. d = k.then /\ k.then \in Then BY <1>2, <2>5
    <3>2. k.then # Idle => Fits(k.then, row) BY <2>3, <3>1, ThenPc, AtRestFits
    <3> HIDE DEF d, row
    <3> QED BY <1>2, <1>3, <2>1, <2>3, <2>4, <3>1, <3>2, GoesOn
  <2>6. CASE Len(k.path) # 2
    <3>1. d = Follow(k.o, Tail(k.path), k.then) BY <2>6
    <3>2. k.path[2] = "PROOF_SUBMITTED" /\ Tail(k.path)[2] = "UNDER_REVIEW"
      BY <1>2, <2>6 DEF Path
    <3>3. row.proofs # {} BY <1>1, <1>3, <2>2, <3>2 DEF Fits, Moves
    <3> HIDE DEF row
    <3>4. Fits(d, row) BY <2>3, <2>4, <3>1, <3>2, <3>3, FollowFits
    <3>5. d.o = k.o /\ d # Idle BY <3>1, FollowFields
    <3> HIDE DEF d
    <3>6. d # Idle => d.o = k.o /\ Fits(d, row) BY <3>4, <3>5
    <3> QED BY <1>2, <1>3, <2>1, <2>3, <3>6, GoesOn
  <2> QED BY <2>5, <2>6
<1>5. CASE ~W!StillAt(k.o, k.path[1])
  <2>1. Goto(c, Idle) /\ order' = order BY <1>5 DEF TransitionWrite
  <2>2. ~SendsBack(k) BY <1>3, <1>5 DEF Fits, W!StillAt
  <2>3. Rest(old) BY <1>3, <2>2 DEF Fits
  <2> QED BY <1>2, <1>3, <2>1, <2>3, GoesOnReading
<1> QED BY <1>4, <1>5
-----------------------------------------------------------------------------
LEMMA CreateRests ==
    ASSUME OneAtATime, CInv, Undisturbed, NEW c \in Caller, NEW o \in Order, Create(c, o)
    PROVE  Undisturbed'
<1>1. PICK sure \in Confidence, others \in SUBSET Required :
          /\ order' = [order EXCEPT ![o] = [@ EXCEPT !.wf = "ORDERED", !.aff = "Unchecked",
                                                    !.proofs = {"order"} \cup others]]
          /\ Goto(c, Follow(o, <<"ORDERED", "PROOF_SUBMITTED", "UNDER_REVIEW">>,
                            IF sure = "none" THEN [pc |-> "mark", o |-> o]
                                             ELSE AutoVerify(o, "order", sure)))
  BY DEF Create
<1> DEFINE row == [order[o] EXCEPT !.wf = "ORDERED", !.aff = "Unchecked",
                                   !.proofs = {"order"} \cup others]
           path == <<"ORDERED", "PROOF_SUBMITTED", "UNDER_REVIEW">>
           then == IF sure = "none" THEN [pc |-> "mark", o |-> o]
                                    ELSE AutoVerify(o, "order", sure)
           d == Follow(o, path, then)
<1>2. Mine(c, o) /\ Rest(order[o]) /\ order[o] \in Row BY Starts1 DEF Create
<1>3. then = Idle \/ then.o = o
  <2>1. "order" \in Proof BY DEF Proof
  <2> QED BY <2>1, AutoType
<1>4. row.wf = "ORDERED" /\ row.proofs # {} /\ row.verified = {}
  BY <1>2 DEF Row, Rest, Create
<1>5. Rest(row) BY <1>4 DEF Rest
<1>6. path[2] = "PROOF_SUBMITTED" OBVIOUS
<1> HIDE DEF row, path, then
<1>7. Fits(d, row) BY <1>3, <1>4, <1>5, <1>6, FollowFits
<1>8. d.o = o /\ d # Idle BY FollowFields
<1>9. Goto(c, d) /\ order' = [order EXCEPT ![o] = row] BY <1>1 DEF row, path, then
<1> HIDE DEF d
<1>10. d # Idle => d.o = o /\ Fits(d, row) BY <1>7, <1>8
<1> QED BY <1>2, <1>5, <1>9, <1>10, GoesOn

LEMMA MarkReadRests ==
    ASSUME CInv, Undisturbed, NEW c \in Caller, MarkRead(c) PROVE Undisturbed'
<1> DEFINE k == call[c]
           row == order[k.o]
           d == [pc |-> "late", o |-> k.o, k |-> row.verified]
<1>1. k # Idle /\ k.pc = "mark" BY DEF MarkRead, At, Idle
<1>2. k.o \in Order /\ Mine(c, k.o) /\ Fits(k, row) BY <1>1, InFlight
<1>3. Rest(row) BY <1>1, <1>2 DEF Fits, SendsBack, Moves
<1>4. Fits(d, row) BY <1>3 DEF Fits, SendsBack, Moves, Rest
<1>5. Goto(c, d) /\ order' = order /\ d # Idle /\ d.o = k.o BY DEF MarkRead, Idle
<1> HIDE DEF d
<1> QED BY <1>2, <1>4, <1>5, GoesOnReading

LEMMA SubmitReadRests ==
    ASSUME OneAtATime, CInv, Undisturbed, NEW c \in Caller, NEW o \in Order, SubmitRead(c, o)
    PROVE  Undisturbed'
<1>1. PICK t \in Proof : Read(c, "submit", o, [t |-> t, row |-> order[o]]) BY DEF SubmitRead
<1> DEFINE d == [pc |-> "submit", o |-> o, k |-> [t |-> t, row |-> order[o]]]
<1>2. Mine(c, o) /\ Rest(order[o]) BY Starts1 DEF SubmitRead
<1>3. Fits(d, order[o]) BY <1>2 DEF Fits, SendsBack, Moves, SubmitRead, ResetFrom
<1>4. Goto(c, d) /\ order' = order /\ d # Idle /\ d.o = o BY <1>1 DEF Read, Idle
<1> HIDE DEF d
<1> QED BY <1>2, <1>3, <1>4, GoesOnReading

LEMMA SubmitWriteRests ==
    ASSUME CInv, Undisturbed, NEW c \in Caller, SubmitWrite(c) PROVE Undisturbed'
<1> DEFINE k == call[c]
           o == k.o
           t == k.k.t
           seen == k.k.row
<1>1. k # Idle /\ k.pc = "submit" BY DEF SubmitWrite, At, Idle
<1>2. k \in Call /\ o \in Order /\ Mine(c, o) /\ Fits(k, order[o]) /\ order[o] \in Row
  BY <1>1, InFlight
<1>3. t \in Proof /\ seen = order[o] /\ Rest(order[o])
      /\ order[o].wf \in ResetFrom \cup {"ORDERED"}
  BY <1>1, <1>2, CallFields DEF Fits, SendsBack, Moves
<1>4. PICK sure \in Confidence :
             /\ Put(o, [order[o] EXCEPT
                    !.proofs = @ \cup {t},
                    !.sure = CASE sure = "none" -> @
                               [] sure = "low"  -> @ \ {t}
                               [] OTHER         -> @ \cup {t},
                    !.aff = IF seen.aff = "Rejected" THEN "Unchecked" ELSE @])
             /\ Goto(c, CASE seen.wf = "UNDER_REVIEW" -> AutoVerify(o, t, sure)
                          [] seen.wf = "APPROVED" ->
                                IF sure = "auto" /\ t \notin seen.verified
                                THEN [pc |-> "late", o |-> o, k |-> seen.verified \cup {t}]
                                ELSE Idle
                          [] OTHER -> Follow(o, <<seen.wf, "PROOF_SUBMITTED", "UNDER_REVIEW">>,
                                             AutoVerify(o, t, sure)))
  BY DEF SubmitWrite
<1> DEFINE sures == CASE sure = "none" -> order[o].sure
                      [] sure = "low"  -> order[o].sure \ {t}
                      [] OTHER         -> order[o].sure \cup {t}
           aff == IF seen.aff = "Rejected" THEN "Unchecked" ELSE order[o].aff
           row == [order[o] EXCEPT !.proofs = @ \cup {t}, !.sure = sures, !.aff = aff]
           auto == AutoVerify(o, t, sure)
           late == [pc |-> "late", o |-> o, k |-> seen.verified \cup {t}]
           path == <<seen.wf, "PROOF_SUBMITTED", "UNDER_REVIEW">>
           f == Follow(o, path, auto)
           d == CASE seen.wf = "UNDER_REVIEW" -> auto
                  [] seen.wf = "APPROVED" ->
                        IF sure = "auto" /\ t \notin seen.verified THEN late ELSE Idle
                  [] OTHER -> f
<1>5. Goto(c, d) /\ order' = [order EXCEPT ![o] = row] BY <1>4 DEF Put
<1>6. /\ row.wf = order[o].wf /\ row.verified = order[o].verified
      /\ row.proofs = order[o].proofs \cup {t}
  BY <1>2 DEF Row
<1> HIDE DEF row
<1>7. Rest(row) /\ row.proofs # {} BY <1>3, <1>6 DEF Rest
<1>8. auto \in Then /\ (auto # Idle => auto.o = o) BY <1>3, <1>2, AutoType
<1> HIDE DEF auto
<1>9. auto # Idle => auto.o = o /\ Fits(auto, row) BY <1>7, <1>8, ThenPc, AtRestFits
<1>10. seen.wf = "APPROVED" => late # Idle /\ late.o = o /\ Fits(late, row)
  BY <1>3, <1>6, <1>7 DEF Fits, SendsBack, Moves, Idle
<1>11. f # Idle /\ f.o = o /\ Fits(f, row)
  <2>1. path[2] = "PROOF_SUBMITTED" OBVIOUS
  <2> HIDE DEF path
  <2>2. Fits(f, row) BY <1>7, <1>8, <2>1, FollowFits
  <2> QED BY <2>2, FollowFields
<1>12. \/ d = auto
       \/ d = late /\ seen.wf = "APPROVED"
       \/ d = Idle
       \/ d = f
  OBVIOUS
<1> HIDE DEF d, f, late, path, sures, aff
<1>13. (d # Idle => d.o = o /\ Fits(d, row)) BY <1>9, <1>10, <1>11, <1>12
<1> QED BY <1>2, <1>5, <1>7, <1>13, GoesOn

LEMMA LateWriteRests ==
    ASSUME CInv, Undisturbed, NEW c \in Caller, LateWrite(c) PROVE Undisturbed'
<1> DEFINE k == call[c]
           old == order[k.o]
           row == [old EXCEPT !.verified = k.k]
<1>1. k # Idle /\ k.pc = "late" BY DEF LateWrite, At, Idle
<1>2. k.o \in Order /\ Mine(c, k.o) /\ Fits(k, old) /\ old \in Row BY <1>1, InFlight
<1>3. Rest(old) /\ old.verified \subseteq k.k
      /\ (old.wf \in {"REDIRECTED", "ORDERED"} => k.k = {})
  BY <1>1, <1>2 DEF Fits, SendsBack, Moves
<1>4. row.wf = old.wf /\ row.proofs = old.proofs /\ row.verified = k.k BY <1>2 DEF Row
<1>5. Rest(row) BY <1>3, <1>4 DEF Rest
<1>6. Goto(c, Idle) /\ order' = [order EXCEPT ![k.o] = row] BY DEF LateWrite, Put
<1> HIDE DEF row
<1> QED BY <1>2, <1>5, <1>6, GoesOn
-----------------------------------------------------------------------------
LEMMA AutoReadRests ==
    ASSUME CInv, Undisturbed, NEW c \in Caller, AutoRead(c) PROVE Undisturbed'
<1> DEFINE k == call[c]
           row == order[k.o]
           write == [pc |-> "autowrite", o |-> k.o, k |-> row.verified \cup {k.k},
                     bulk |-> TRUE]
           d == IF row.wf = "UNDER_REVIEW" /\ k.k \notin row.verified THEN write ELSE Idle
<1>1. k # Idle /\ k.pc = "auto" BY DEF AutoRead, At, Idle
<1>2. k.o \in Order /\ Mine(c, k.o) /\ Fits(k, row) BY <1>1, InFlight
<1>3. Rest(row) BY <1>1, <1>2 DEF Fits, SendsBack, Moves
<1>4. Goto(c, d) /\ order' = order BY DEF AutoRead
<1>5. write.o = k.o /\ Fits(write, row)
  <2>1. write.pc = "autowrite" OBVIOUS
  <2> HIDE DEF write
  <2>2. Fits(write, row) BY <1>3, <2>1, AtRestFits
  <2> QED BY <2>2 DEF write
<1>6. d \in {write, Idle} OBVIOUS
<1> HIDE DEF d, write
<1> QED BY <1>2, <1>3, <1>4, <1>5, <1>6, GoesOnReading

LEMMA AutoWriteRests ==
    ASSUME CInv, Undisturbed, NEW c \in Caller, AutoWrite(c) PROVE Undisturbed'
<1> DEFINE k == call[c]
           old == order[k.o]
           row == [old EXCEPT !.verified = k.k]
           d == [k EXCEPT !.pc = "refetch"]
<1>1. k # Idle /\ k.pc = "autowrite" BY DEF AutoWrite, At, Idle
<1>2. k \in Call /\ k.o \in Order /\ Mine(c, k.o) /\ Fits(k, old) /\ old \in Row
  BY <1>1, InFlight
<1>3. Rest(old) BY <1>1, <1>2 DEF Fits, SendsBack, Moves
<1>4. CASE old.wf = "UNDER_REVIEW"
  <2>1. Goto(c, d) /\ order' = [order EXCEPT ![k.o] = row] BY <1>4 DEF AutoWrite, Put
  <2>2. row.wf = "UNDER_REVIEW" /\ row.proofs = old.proofs BY <1>2, <1>4 DEF Row
  <2>3. Rest(row) BY <1>3, <1>4, <2>2 DEF Rest
  <2>4. d.pc = "refetch" /\ d.o = k.o BY <1>1, <1>2, CallFields
  <2>5. d # Idle BY <2>4 DEF Idle
  <2> HIDE DEF d, row
  <2>6. Fits(d, row) BY <2>3, <2>4, AtRestFits
  <2>7. d # Idle => d.o = k.o /\ Fits(d, row) BY <2>4, <2>6
  <2> QED BY <1>2, <2>1, <2>3, <2>7, GoesOn
<1>5. CASE old.wf # "UNDER_REVIEW"
  <2>1. Goto(c, Idle) /\ order' = order BY <1>5 DEF AutoWrite
  <2> QED BY <1>2, <1>3, <2>1, GoesOnReading
<1> QED BY <1>4, <1>5

(* The row on which an approval is decided has its trail. *)
LEMMA FinalizeFits ==
    ASSUME NEW o \in Order, NEW row, Rest(row), Finalize(o, row) # Idle
    PROVE  Finalize(o, row).o = o /\ Fits(Finalize(o, row), row)
<1> DEFINE k == Finalize(o, row)
<1>1. k.o = o /\ k.pc = "finalize" /\ Proof \subseteq row.verified
  BY FinalizeType DEF Ready
<1> HIDE DEF k
<1>2. Fits(k, row) BY <1>1 DEF Fits, SendsBack, Moves
<1> QED BY <1>1, <1>2 DEF k

LEMMA RefetchRests ==
    ASSUME CInv, Undisturbed, NEW c \in Caller, Refetch(c) PROVE Undisturbed'
<1> DEFINE k == call[c]
           row == order[k.o]
           write == [pc |-> "autowrite", o |-> k.o, k |-> Proof, bulk |-> FALSE]
           d == IF ~Ready(row) /\ k.bulk /\ BulkReady(row) THEN write ELSE Finalize(k.o, row)
<1>1. k # Idle /\ k.pc = "refetch" BY DEF Refetch, At, Idle
<1>2. k.o \in Order /\ Mine(c, k.o) /\ Fits(k, row) BY <1>1, InFlight
<1>3. Rest(row) BY <1>1, <1>2 DEF Fits, SendsBack, Moves
<1>4. Goto(c, d) /\ order' = order BY DEF Refetch
<1>5. write.o = k.o /\ Fits(write, row)
  <2>1. write.pc = "autowrite" OBVIOUS
  <2> HIDE DEF write
  <2>2. Fits(write, row) BY <1>3, <2>1, AtRestFits
  <2> QED BY <2>2 DEF write
<1>6. d \in {write, Finalize(k.o, row)} OBVIOUS
<1> HIDE DEF d, write
<1> QED BY <1>2, <1>3, <1>4, <1>5, <1>6, FinalizeFits, GoesOnReading

LEMMA FinalizeWriteRests ==
    ASSUME CInv, Undisturbed, NEW c \in Caller, FinalizeWrite(c) PROVE Undisturbed'
<1> DEFINE k == call[c]
           old == order[k.o]
           row == [old EXCEPT !.aff = "Pending_Cooling"]
           d == Follow(k.o, <<"UNDER_REVIEW", "APPROVED">>, Idle)
<1>1. k # Idle /\ k.pc = "finalize" BY DEF FinalizeWrite, At, Idle
<1>2. k.o \in Order /\ Mine(c, k.o) /\ Fits(k, old) /\ old \in Row BY <1>1, InFlight
<1>3. Rest(old) /\ Proof \subseteq old.verified BY <1>1, <1>2 DEF Fits, SendsBack, Moves
<1>4. CASE W!StillAt(k.o, "UNDER_REVIEW")
  <2>1. Goto(c, d) /\ order' = [order EXCEPT ![k.o] = row] BY <1>4 DEF FinalizeWrite, Put
  <2>2. row.wf = old.wf /\ row.proofs = old.proofs /\ row.verified = old.verified
    BY <1>2 DEF Row
  <2> HIDE DEF row
  <2>3. Rest(row) BY <1>3, <2>2 DEF Rest
  <2>4. d # Idle /\ d.o = k.o /\ Fits(d, row)
    BY <1>3, <2>2, <2>3, FollowFits, FollowFields
  <2> HIDE DEF d
  <2>5. d # Idle => d.o = k.o /\ Fits(d, row) BY <2>4
  <2> QED BY <1>2, <2>1, <2>3, <2>5, GoesOn
<1>5. CASE ~W!StillAt(k.o, "UNDER_REVIEW")
  <2>1. Goto(c, Idle) /\ order' = order BY <1>5 DEF FinalizeWrite
  <2> QED BY <1>2, <1>3, <2>1, GoesOnReading
<1> QED BY <1>4, <1>5
-----------------------------------------------------------------------------
LEMMA VerifyReadRests ==
    ASSUME OneAtATime, CInv, Undisturbed, NEW c \in Caller, NEW o \in Order, VerifyRead(c, o)
    PROVE  Undisturbed'
<1>1. PICK ts \in SUBSET Proof : Read(c, "verify", o, order[o].verified \cup ts)
  BY DEF VerifyRead
<1> DEFINE d == [pc |-> "verify", o |-> o, k |-> order[o].verified \cup ts]
<1>2. Mine(c, o) /\ Rest(order[o]) BY Starts1 DEF VerifyRead
<1>3. Fits(d, order[o]) BY <1>2 DEF Fits, SendsBack, Moves, VerifyRead
<1>4. Goto(c, d) /\ order' = order /\ d # Idle /\ d.o = o BY <1>1 DEF Read, Idle
<1> HIDE DEF d
<1> QED BY <1>2, <1>3, <1>4, GoesOnReading

LEMMA VerifyWriteRests ==
    ASSUME CInv, Undisturbed, NEW c \in Caller, VerifyWrite(c) PROVE Undisturbed'
<1> DEFINE k == call[c]
           old == order[k.o]
           row == [old EXCEPT !.verified = k.k]
           d == Finalize(k.o, row)
<1>1. k # Idle /\ k.pc = "verify" BY DEF VerifyWrite, At, Idle
<1>2. k.o \in Order /\ Mine(c, k.o) /\ Fits(k, old) /\ old \in Row BY <1>1, InFlight
<1>3. Rest(old) /\ old.wf = "UNDER_REVIEW" BY <1>1, <1>2 DEF Fits, SendsBack, Moves
<1>4. row.wf = "UNDER_REVIEW" /\ row.proofs = old.proofs BY <1>2, <1>3 DEF Row
<1>5. Rest(row) BY <1>3, <1>4 DEF Rest
<1>6. Goto(c, d) /\ order' = [order EXCEPT ![k.o] = row] BY DEF VerifyWrite, Put
<1> HIDE DEF row
<1>7. d # Idle => d.o = k.o /\ Fits(d, row) BY <1>2, <1>5, FinalizeFits
<1> HIDE DEF d
<1> QED BY <1>2, <1>5, <1>6, <1>7, GoesOn

LEMMA ResetReadRests ==
    ASSUME OneAtATime, CInv, Undisturbed, NEW c \in Caller, NEW o \in Order, ResetRead(c, o)
    PROVE  Undisturbed'
<1>1. PICK n : Read(c, "reset", o, [from |-> order[o].wf, rejections |-> n]) BY DEF ResetRead
<1> DEFINE d == [pc |-> "reset", o |-> o, k |-> [from |-> order[o].wf, rejections |-> n]]
<1>2. Mine(c, o) /\ Rest(order[o]) /\ ~order[o].frozen BY Starts1 DEF ResetRead
<1>3. order[o].wf \in ResetFrom BY DEF ResetRead, ResetFrom
<1>4. Fits(d, order[o]) BY <1>2, <1>3 DEF Fits, SendsBack, Moves
<1>5. Goto(c, d) /\ order' = order /\ d # Idle /\ d.o = o BY <1>1 DEF Read, Idle
<1> HIDE DEF d
<1> QED BY <1>2, <1>4, <1>5, GoesOnReading

LEMMA ResetWriteRests ==
    ASSUME CInv, Undisturbed, NEW c \in Caller, ResetWrite(c) PROVE Undisturbed'
<1> DEFINE k == call[c]
           old == order[k.o]
           row == ResetRow(old, k.k.rejections)
           path == <<k.k.from, "ORDERED">>
           d == Follow(k.o, path, Idle)
<1>1. k # Idle /\ k.pc = "reset" BY DEF ResetWrite, At, Idle
<1>2. k.o \in Order /\ Mine(c, k.o) /\ Fits(k, old) /\ old \in Row BY <1>1, InFlight
<1>3. old.wf = k.k.from /\ old.wf \in ResetFrom /\ ~old.frozen BY <1>1, <1>2 DEF Fits
<1>4. row.wf = old.wf /\ row.verified = {} /\ row.frozen = old.frozen
  BY <1>2 DEF Row, ResetRow
<1>5. Goto(c, d) /\ order' = [order EXCEPT ![k.o] = row] BY DEF ResetWrite, Put
<1>6. d.pc = "next" /\ d.o = k.o /\ d.path = path /\ d.then = Idle /\ d # Idle
  BY FollowFields
<1>7. path[1] = k.k.from /\ path[2] = "ORDERED" OBVIOUS
<1> HIDE DEF d, row, path
<1>8. Fits(d, row) BY <1>3, <1>4, <1>6, <1>7 DEF Fits, SendsBack, Moves
<1> QED BY <1>2, <1>5, <1>6, <1>8, GoesOn
-----------------------------------------------------------------------------
LEMMA ForceReadRests ==
    ASSUME OneAtATime, CInv, Undisturbed, NEW c \in Caller, NEW o \in Order, ForceRead(c, o)
    PROVE  Undisturbed'
<1> DEFINE pc == IF order[o].aff = "Pending_Cooling" THEN "forced" ELSE "force"
           d == [pc |-> pc, o |-> o, k |-> order[o].wf]
<1>1. Mine(c, o) /\ Rest(order[o]) BY Starts1 DEF ForceRead
<1>2. order[o].wf \in ResetFrom BY DEF ForceRead, ResetFrom
<1>3. pc \in {"forced", "force"} OBVIOUS
<1>4. Goto(c, d) /\ order' = order BY DEF ForceRead, Read
<1> HIDE DEF pc
<1>5. Fits(d, order[o]) BY <1>1, <1>2, <1>3 DEF Fits, SendsBack, Moves
<1>6. d # Idle /\ d.o = o BY <1>3 DEF Idle
<1> HIDE DEF d
<1> QED BY <1>1, <1>4, <1>5, <1>6, GoesOnReading

LEMMA ForceWriteRests ==
    ASSUME CInv, Undisturbed, NEW c \in Caller, ForceWrite(c) PROVE Undisturbed'
<1> DEFINE k == call[c]
           old == order[k.o]
           row == [old EXCEPT !.aff = "Pending_Cooling", !.verified = Proof]
           forced == [pc |-> "forced", o |-> k.o]
           path == <<k.k, "APPROVED">>
           f == Follow(k.o, path, forced)
           d == IF k.k = "APPROVED" THEN forced ELSE f
<1>1. k # Idle /\ k.pc = "force" BY DEF ForceWrite, At, Idle
<1>2. k.o \in Order /\ Mine(c, k.o) /\ Fits(k, old) /\ old \in Row BY <1>1, InFlight
<1>3. Rest(old) /\ old.wf \in ResetFrom BY <1>1, <1>2 DEF Fits, SendsBack, Moves
<1>4. row.wf = old.wf /\ row.proofs = old.proofs /\ row.verified = Proof BY <1>2 DEF Row
<1>5. Goto(c, d) /\ order' = [order EXCEPT ![k.o] = row] BY DEF ForceWrite, Put
<1>6. forced.pc = "forced" /\ forced.o = k.o /\ forced # Idle BY DEF Idle
<1>7. path[2] = "APPROVED" OBVIOUS
<1>8. d \in {forced, f} OBVIOUS
<1> HIDE DEF d, row, path, forced
<1>9. Rest(row) BY <1>3, <1>4 DEF Rest, ResetFrom
<1>10. Fits(forced, row) BY <1>6, <1>9, AtRestFits
<1>11. f # Idle /\ f.o = k.o /\ Fits(f, row)
  BY <1>4, <1>6, <1>7, <1>9, FollowFits, FollowFields
<1> HIDE DEF f
<1> QED BY <1>2, <1>5, <1>6, <1>8, <1>10, <1>11, GoesOn

LEMMA ForceAnswerRests ==
    ASSUME CInv, Undisturbed, NEW c \in Caller, ForceAnswer(c) PROVE Undisturbed'
<1> DEFINE k == call[c]
<1>1. k # Idle /\ k.pc = "forced" BY DEF ForceAnswer, At, Idle
<1>2. k.o \in Order /\ Mine(c, k.o) /\ Fits(k, order[k.o]) BY <1>1, InFlight
<1>3. Rest(order[k.o]) BY <1>1, <1>2 DEF Fits, SendsBack, Moves
<1> QED BY <1>2, <1>3, GoesOnReading DEF ForceAnswer

LEMMA CancelReadRests ==
    ASSUME OneAtATime, CInv, Undisturbed, NEW c \in Caller, NEW o \in Order, CancelRead(c, o)
    PROVE  Undisturbed'
<1> DEFINE d == [pc |-> "cancel", o |-> o, k |-> order[o].wf]
<1>1. Mine(c, o) /\ Rest(order[o]) BY Starts1 DEF CancelRead
<1>2. Goto(c, d) /\ order' = order BY DEF CancelRead, Read
<1>3. d.pc = "cancel" /\ d.o = o /\ d # Idle BY DEF Idle
<1> HIDE DEF d
<1>4. Fits(d, order[o]) BY <1>1, <1>3, AtRestFits
<1> QED BY <1>1, <1>2, <1>3, <1>4, GoesOnReading

LEMMA CancelWriteRests ==
    ASSUME CInv, Undisturbed, NEW c \in Caller, CancelWrite(c) PROVE Undisturbed'
<1> DEFINE k == call[c]
           old == order[k.o]
           row == [old EXCEPT !.aff = "Rejected"]
           path == <<k.k, "REJECTED">>
           f == Follow(k.o, path, Idle)
           d == IF k.k \in {"REJECTED", "FAILED", "COMPLETED"} THEN Idle ELSE f
<1>1. k # Idle /\ k.pc = "cancel" BY DEF CancelWrite, At, Idle
<1>2. k.o \in Order /\ Mine(c, k.o) /\ Fits(k, old) /\ old \in Row BY <1>1, InFlight
<1>3. Rest(old) BY <1>1, <1>2 DEF Fits, SendsBack, Moves
<1>4. row.wf = old.wf /\ row.proofs = old.proofs /\ row.verified = old.verified
  BY <1>2 DEF Row
<1>5. Goto(c, d) /\ order' = [order EXCEPT ![k.o] = row] BY <1>2, Types DEF CancelWrite
<1>6. path[2] = "REJECTED" OBVIOUS
<1>7. d \in {Idle, f} OBVIOUS
<1> HIDE DEF d, row, path
<1>8. Rest(row) BY <1>3, <1>4 DEF Rest
<1>9. f # Idle /\ f.o = k.o /\ Fits(f, row) BY <1>6, <1>8, FollowFits, FollowFields
<1> HIDE DEF f
<1> QED BY <1>2, <1>5, <1>7, <1>8, <1>9, GoesOn
-----------------------------------------------------------------------------
(* The settlement and a suspension come between handlers. *)
LEMMA OthersRest ==
    ASSUME OneAtATime, CInv, Undisturbed, NEW o \in Order, Settle(o) \/ Suspend(o)
    PROVE  Undisturbed'
<1>1. (\A c \in Caller : call[c] = Idle) /\ call' = call
  BY DEF Settle, Suspend, MayStart, OneAtATime
<1>2. PICK row : order' = [order EXCEPT ![o] = row] /\ Rest(row)
  <2>1. Rest(order[o]) /\ order[o] \in Row BY <1>1, Types DEF Undisturbed
  <2>2. CASE Settle(o)
    <3> DEFINE row == [order[o] EXCEPT !.wf = "COMPLETED", !.aff = "Approved_Settled"]
    <3>1. row.wf = "COMPLETED" BY <2>1 DEF Row
    <3>2. order' = [order EXCEPT ![o] = row] BY <2>2 DEF Settle, Put
    <3> HIDE DEF row
    <3>3. Rest(row) BY <3>1 DEF Rest
    <3> QED BY <3>2, <3>3
  <2>3. CASE Suspend(o)
    <3>1. PICK b \in BOOLEAN : Put(o, [order[o] EXCEPT !.frozen = b]) BY <2>3 DEF Suspend
    <3> DEFINE row == [order[o] EXCEPT !.frozen = b]
    <3>2. row.wf = order[o].wf /\ row.proofs = order[o].proofs
          /\ row.verified = order[o].verified
      BY <2>1 DEF Row
    <3>3. order' = [order EXCEPT ![o] = row] BY <3>1 DEF Put
    <3> HIDE DEF row
    <3>4. Rest(row) BY <2>1, <3>2 DEF Rest
    <3> QED BY <3>3, <3>4
  <2> QED BY <2>2, <2>3
<1>3. \A p \in Order : order'[p] = IF p = o THEN row ELSE order[p] BY <1>2, Types
<1>4. \A p \in Order : Rest(order'[p]) BY <1>1, <1>2, <1>3 DEF Undisturbed
<1> QED BY <1>1, <1>4 DEF Undisturbed

LEMMA InitRests == Init => Undisturbed
<1> SUFFICES ASSUME Init PROVE Undisturbed OBVIOUS
<1>1. \A c \in Caller : call[c] = Idle BY DEF Init
<1>2. \A o \in Order : Rest(order[o]) BY DEF Init, Rest
<1> QED BY <1>1, <1>2 DEF Undisturbed

LEMMA StepRests ==
    ASSUME OneAtATime PROVE CInv /\ Undisturbed /\ [Next]_vars => Undisturbed'
<1> SUFFICES ASSUME CInv, Undisturbed, [Next]_vars PROVE Undisturbed' OBVIOUS
<1>1. ASSUME NEW c \in Caller, NEW o \in Order, Start1(c, o) PROVE Undisturbed'
  BY <1>1, OneAtATime, CreateRests, SubmitReadRests, VerifyReadRests, ResetReadRests,
     ForceReadRests, CancelReadRests DEF Start1
<1>2. ASSUME NEW c \in Caller, Continue(c) PROVE Undisturbed'
  <2>1. CASE TransitionRead(c) \/ TransitionWrite(c)
    BY <2>1, TransitionReadRests, TransitionWriteRests
  <2>2. CASE SubmitWrite(c) \/ MarkRead(c) \/ LateWrite(c)
    BY <2>2, SubmitWriteRests, MarkReadRests, LateWriteRests
  <2>3. CASE AutoRead(c) \/ AutoWrite(c) \/ Refetch(c) \/ FinalizeWrite(c)
    BY <2>3, AutoReadRests, AutoWriteRests, RefetchRests, FinalizeWriteRests
  <2>4. CASE VerifyWrite(c) \/ ResetWrite(c) \/ ForceWrite(c) \/ CancelWrite(c)
    BY <2>4, VerifyWriteRests, ResetWriteRests, ForceWriteRests, CancelWriteRests
  <2>5. CASE ForceAnswer(c) BY <2>5, ForceAnswerRests
  <2> QED BY <1>2, <2>1, <2>2, <2>3, <2>4, <2>5 DEF Continue
<1>3. ASSUME NEW c \in Caller, Crash(c) PROVE FALSE BY <1>3, OneAtATime DEF Crash, OneAtATime
<1>4. ASSUME NEW o \in Order, Settle(o) \/ Suspend(o) PROVE Undisturbed'
  BY <1>4, OneAtATime, OthersRest
<1>5. CASE UNCHANGED vars BY <1>5 DEF vars, Undisturbed
<1> QED BY <1>1, <1>2, <1>3, <1>4, <1>5 DEF Next

LEMMA QuietIsAtRest ==
    Undisturbed => ApprovedIsVerified /\ ReviewHasProof
<1> SUFFICES ASSUME Undisturbed, Quiet PROVE \A o \in Order : Rest(order[o])
  BY DEF ApprovedIsVerified, ReviewHasProof, Rest
<1> QED BY DEF Quiet, Undisturbed

LEMMA AlwaysAtRest ==
    ASSUME OneAtATime PROVE Spec => [](ApprovedIsVerified /\ ReviewHasProof)
<1>1. Init => CInv /\ Undisturbed BY InitKeeps, InitRests
<1>2. CInv /\ Undisturbed /\ [Next]_vars => (CInv /\ Undisturbed)'
  BY OneAtATime, StepKeeps, StepRests DEF Kept
<1> QED BY <1>1, <1>2, QuietIsAtRest, PTL DEF Spec

(* Of handlers that run one after the other to their end, whichever of the  *)
(* five ways approved an order, it carries the verification of every proof, *)
(* and an order that was sent back carries none: a proof is not approved on *)
(* the strength of the one it replaced.                                     *)
THEOREM ApprovalIsVerified ==
    ASSUME OneAtATime PROVE Spec => []ApprovedIsVerified
<1> QED BY OneAtATime, AlwaysAtRest, PTL

(* Of handlers that run one after the other to their end, none leaves an    *)
(* order to its reviewer with the proofs cleared: the handlers that clear   *)
(* them send the order back, and their transition is never refused.         *)
THEOREM ReviewsHaveProofs ==
    ASSUME OneAtATime PROVE Spec => []ReviewHasProof
<1> QED BY OneAtATime, AlwaysAtRest, PTL
-----------------------------------------------------------------------------
(* The AI service that the reviews ask, for every number of requests and of *)
(* workers: its breaker closes only after the probes it asks for, and no    *)
(* worker serves two requests.                                              *)
Switch == [state : {"closed", "open", "half_open"}, fails : 0..Threshold, ok : 0..Probes - 1]

(* The breaker: successes are only counted half open, and no more of them   *)
(* than were recorded since the last failure.                               *)
Circuit ==
    /\ breaker \in Switch
    /\ hot \in BOOLEAN
    /\ streak \in 0..Probes
    /\ breaker.state # "half_open" => breaker.ok = 0
    /\ breaker.ok <= streak

(* What a step of the service does to the breaker.                          *)
CircuitStep == \/ UNCHANGED circuit
               \/ RecordSuccess
               \/ RecordFailure
               \/ breaker' = Checked /\ UNCHANGED <<hot, streak>>
               \/ hot' = FALSE /\ UNCHANGED <<breaker, streak>>

LEMMA StepsOfTheCircuit == [AiNext]_aiVars => CircuitStep
<1>1. ASSUME NEW r \in Request, Chat(r) \/ Verify(r) \/ Extract(r) PROVE CircuitStep
  BY <1>1, Zenon DEF Chat, Verify, Extract, Look, CircuitStep
<1>2. ASSUME NEW r \in Request, Step(r) PROVE CircuitStep
  <2>1. CASE Retry(r) \/ RunOcrPass(r)
    BY <2>1, Zenon DEF Retry, RunOcrPass, Look, CircuitStep
  <2>2. CASE Vision(r) BY <2>2, Zenon DEF Vision, CircuitStep
  <2>3. CASE Answer(r) BY <2>3, Zenon DEF Answer, CircuitStep
  <2>4. CASE Acquire(r) \/ Wait(r) BY <2>4, Zenon DEF Acquire, Wait, CircuitStep
  <2>5. CASE CreateWorker(r) \/ Recognize(r)
    BY <2>5, Zenon DEF CreateWorker, Recognize, CircuitStep
  <2>6. CASE Text(r) \/ Discard(r) BY <2>6, Zenon DEF Text, Discard, CircuitStep
  <2> QED BY <1>2, <2>1, <2>2, <2>3, <2>4, <2>5, <2>6, Zenon DEF Step
<1>3. ASSUME NEW g, GeminiChanges(g) PROVE CircuitStep
  BY <1>3, Zenon DEF GeminiChanges, CircuitStep
<1>4. CASE Cooldown BY <1>4, Zenon DEF Cooldown, CircuitStep
<1>5. CASE Refill BY <1>5, Zenon DEF Refill, CircuitStep
<1>6. CASE UNCHANGED aiVars BY <1>6 DEF aiVars, circuit, CircuitStep
<1> QED BY <1>1, <1>2, <1>3, <1>4, <1>5, <1>6, Zenon DEF AiNext

LEMMA CircuitHolds ==
    ASSUME Circuit, CircuitStep
    PROVE  /\ Circuit'
           /\ breaker.state # "closed" /\ breaker'.state = "closed" => streak' = Probes
<1> USE DEF Circuit, Switch
<1>0. Threshold \in Nat \ {0} /\ Probes \in Nat \ {0} BY AiAssumption
<1>1. CASE UNCHANGED circuit BY <1>1 DEF circuit
<1>2. CASE RecordSuccess
  <2>1. CASE breaker.state = "half_open" /\ breaker.ok + 1 >= Probes
    BY <1>0, <1>2, <2>1 DEF RecordSuccess, AtMost
  <2>2. CASE breaker.state = "half_open" /\ ~(breaker.ok + 1 >= Probes)
    <3>1. breaker' = [breaker EXCEPT !.fails = 0, !.ok = @ + 1] BY <1>2, <2>2 DEF RecordSuccess
    <3>2. breaker'.state = "half_open" /\ breaker'.ok = breaker.ok + 1 BY <2>2, <3>1
    <3>3. streak' = AtMost(streak + 1, Probes) BY <1>2 DEF RecordSuccess
    <3>4. breaker' \in Switch
      <4>1. breaker.ok \in Int /\ breaker.ok + 1 \in 0..Probes - 1 BY <1>0, <2>2
      <4>2. breaker' = [state |-> breaker.state, fails |-> 0, ok |-> breaker.ok + 1] BY <3>1
      <4> QED BY <1>0, <4>1, <4>2
    <3>5. streak' \in 0..Probes /\ breaker'.ok <= streak'
      BY <1>0, <2>2, <3>2, <3>3 DEF AtMost
    <3> QED BY <1>2, <3>2, <3>4, <3>5 DEF RecordSuccess
  <2>3. CASE breaker.state # "half_open"
    BY <1>0, <1>2, <2>3 DEF RecordSuccess, AtMost
  <2> QED BY <2>1, <2>2, <2>3
<1>3. CASE RecordFailure
  <2>1. breaker' = AfterFailure /\ hot' = TRUE /\ streak' = 0 BY <1>3 DEF RecordFailure
  <2>2. breaker'.ok = 0 BY <2>1 DEF AfterFailure, Reopened
  <2>3. breaker'.state # "half_open" BY <2>1 DEF AfterFailure, Reopened
  <2>4. breaker'.state = "closed" => breaker.state = "closed"
    BY <2>1 DEF AfterFailure, Reopened
  <2>5. breaker' \in Switch
    <3>1. AtMost(breaker.fails + 1, Threshold) \in 0..Threshold BY <1>0 DEF AtMost
    <3>2. CASE breaker.state = "half_open"
      BY <1>0, <2>1, <3>1, <3>2 DEF AfterFailure, Reopened
    <3>3. CASE breaker.state # "half_open" /\ breaker.fails + 1 >= Threshold
      <4>1. breaker' = [breaker EXCEPT !.state = "open", !.fails = Threshold]
        BY <2>1, <3>3 DEF AfterFailure
      <4>2. breaker' = [state |-> "open", fails |-> Threshold, ok |-> breaker.ok] BY <4>1
      <4> QED BY <1>0, <4>2
    <3>4. CASE breaker.state # "half_open" /\ ~(breaker.fails + 1 >= Threshold)
      <4>1. breaker' = [breaker EXCEPT !.fails = @ + 1] BY <2>1, <3>4 DEF AfterFailure
      <4>2. breaker.fails + 1 \in 0..Threshold BY <1>0, <3>4
      <4>3. breaker' = [state |-> breaker.state, fails |-> breaker.fails + 1, ok |-> breaker.ok]
        BY <4>1
      <4> QED BY <4>2, <4>3
    <3> QED BY <3>2, <3>3, <3>4
  <2> QED BY <1>0, <2>1, <2>2, <2>3, <2>4, <2>5
<1>4. CASE breaker' = Checked /\ UNCHANGED <<hot, streak>>
  BY <1>4 DEF Checked
<1>5. CASE hot' = FALSE /\ UNCHANGED <<breaker, streak>>
  BY <1>5
<1> QED BY <1>1, <1>2, <1>3, <1>4, <1>5 DEF CircuitStep

LEMMA CircuitStarts == ASSUME AiInit PROVE Circuit
<1>1. Threshold \in Nat \ {0} /\ Probes \in Nat \ {0} BY AiAssumption
<1>2. breaker = [state |-> "closed", fails |-> 0, ok |-> 0] /\ hot = FALSE /\ streak = 0
  BY DEF AiInit
<1>3. 0 \in 0..Threshold /\ 0 \in 0..Probes - 1 /\ 0 \in 0..Probes BY <1>1
<1>4. breaker \in Switch BY <1>2, <1>3 DEF Switch
<1>5. breaker.ok <= streak BY <1>2
<1> QED BY <1>2, <1>3, <1>4, <1>5 DEF Circuit

(* The circuit closes only after Probes successes in a row, whatever is     *)
(* answered late: only the half-open breaker counts, from zero.             *)
THEOREM ProbesCloseTheCircuit == AiSpec => ClosesAfterProbes
<1>1. AiInit => Circuit BY CircuitStarts
<1>2. Circuit /\ [AiNext]_aiVars => Circuit' BY StepsOfTheCircuit, CircuitHolds
<1>3. Circuit /\ [AiNext]_aiVars
      => [breaker.state # "closed" /\ breaker'.state = "closed" => streak' = Probes]_(aiVars)
  BY StepsOfTheCircuit, CircuitHolds
<1> QED BY <1>1, <1>2, <1>3, PTL DEF AiSpec, ClosesAfterProbes
-----------------------------------------------------------------------------
(* The workers: an idle worker is in the pool once, is held by no request   *)
(* and is in no recognition; no two requests hold the same.                 *)
Entry == [pc : {"idle", "gemini", "fast", "retry", "pass", "acquire", "wait",
                "create", "recognize", "text", "discard"},
          kind : {"chat", "verify", "extract"},
          worker : Worker \cup {None}, pass : 0..Passes]

Holding(e) == e.pc \in {"recognize", "discard"} => e.worker # None

Disjoint ==
    /\ \A i, j \in DOMAIN pool : pool[i] = pool[j] => i = j
    /\ \A i \in DOMAIN pool : pool[i] \notin busy
    /\ \A i \in DOMAIN pool : \A r \in Request : pool[i] # req[r].worker
    /\ \A r, s \in Request : req[r].worker = req[s].worker /\ req[r].worker # None => r = s
    /\ \A r \in Request : Holding(req[r])

Hands ==
    /\ pool \in Seq(Worker)
    /\ busy \subseteq Worker
    /\ active \in Nat
    /\ refills \in 0..MaxRefills
    /\ req \in [Request -> Entry]
    /\ Disjoint

LEMMA WorkersOfThePool ==
    ASSUME Hands PROVE \A i \in DOMAIN pool : pool[i] \in Worker /\ pool[i] # None
<1>1. \A i \in DOMAIN pool : pool[i] \in Worker BY DEF Hands
<1>2. \A w \in Worker : w # None BY DEF Worker, None
<1> QED BY <1>1, <1>2

(* Two fields of one entry are set.                                         *)
LEMMA TwoFields ==
    ASSUME NEW q \in [Request -> Entry], NEW r \in Request, NEW a, NEW b
    PROVE  [q EXCEPT ![r].pc = a, ![r].worker = b]
           = [q EXCEPT ![r] = [q[r] EXCEPT !.pc = a, !.worker = b]]
  OBVIOUS

(* One request moves on, with the worker it has or with none.               *)
Lets(r) == /\ \E e \in Entry : /\ req' = [req EXCEPT ![r] = e]
                               /\ e.worker \in {req[r].worker, None}
                               /\ Holding(e)
           /\ busy' \subseteq busy
           /\ pool' = pool

LEMMA LetsKeep ==
    ASSUME Hands, NEW r \in Request, Lets(r)
    PROVE  Disjoint' /\ req' \in [Request -> Entry]
<1>1. PICK e \in Entry : /\ req' = [req EXCEPT ![r] = e]
                         /\ e.worker \in {req[r].worker, None}
                         /\ Holding(e)
  BY DEF Lets
<1>2. req' \in [Request -> Entry] BY <1>1 DEF Hands
<1>3. req'[r] = e /\ \A s \in Request : s # r => req'[s] = req[s] BY <1>1 DEF Hands
<1>4. \A s \in Request : req'[s].worker \in {req[s].worker, None} BY <1>1, <1>3
<1>5. \A s \in Request : Holding(req'[s]) BY <1>1, <1>3 DEF Hands, Disjoint
<1>6. \A i \in DOMAIN pool : pool[i] \in Worker /\ pool[i] # None BY WorkersOfThePool
<1>7. \A s, t \in Request : req'[s].worker = req'[t].worker /\ req'[s].worker # None => s = t
  BY <1>4 DEF Hands, Disjoint
<1>8. \A i \in DOMAIN pool' : \A s \in Request : pool'[i] # req'[s].worker
  BY <1>4, <1>6 DEF Hands, Disjoint, Lets
<1>9. \A i \in DOMAIN pool' : pool'[i] \notin busy' BY DEF Hands, Disjoint, Lets
<1>10. \A i, j \in DOMAIN pool' : pool'[i] = pool'[j] => i = j BY DEF Hands, Disjoint, Lets
<1> QED BY <1>2, <1>5, <1>7, <1>8, <1>9, <1>10 DEF Disjoint

(* One request takes a worker that nobody holds.                            *)
Takes(r) == /\ \E w \in Worker : /\ \A s \in Request : req[s].worker # w
                                 /\ \A i \in DOMAIN pool' : pool'[i] # w
                                 /\ Hold(r, w)
            /\ \A i \in DOMAIN pool' : i \in DOMAIN pool /\ pool'[i] = pool[i]

LEMMA TakesKeep ==
    ASSUME Hands, NEW r \in Request, Takes(r)
    PROVE  Disjoint' /\ req' \in [Request -> Entry] /\ busy' \subseteq Worker
<1>1. PICK w \in Worker : /\ \A s \in Request : req[s].worker # w
                          /\ \A i \in DOMAIN pool' : pool'[i] # w
                          /\ Hold(r, w)
  BY DEF Takes
<1>2. \A i \in DOMAIN pool' : i \in DOMAIN pool /\ pool'[i] = pool[i] BY DEF Takes
<1>3. busy' = busy \cup {w} BY <1>1, Zenon DEF Hold
<1>4. PICK e : e = [req[r] EXCEPT !.pc = "recognize", !.worker = w] OBVIOUS
<1>5. req' = [req EXCEPT ![r] = e]
  <2>1. req' = [req EXCEPT ![r].pc = "recognize", ![r].worker = w] BY <1>1, Zenon DEF Hold
  <2>2. req \in [Request -> Entry] BY DEF Hands
  <2> QED BY <2>1, <2>2, <1>4, TwoFields
<1>6. req[r] \in Entry BY DEF Hands
<1>7. e \in Entry /\ e.worker = w BY <1>4, <1>6 DEF Entry
<1>8. req' \in [Request -> Entry] BY <1>5, <1>7 DEF Hands
<1>9. req'[r] = e /\ \A s \in Request : s # r => req'[s] = req[s] BY <1>5 DEF Hands
<1>10. w # None BY DEF Worker, None
<1>11. Holding(e) BY <1>7, <1>10 DEF Holding
<1>12. \A s \in Request : Holding(req'[s]) BY <1>9, <1>11 DEF Hands, Disjoint
<1>13. \A s, t \in Request : req'[s].worker = req'[t].worker /\ req'[s].worker # None => s = t
  BY <1>1, <1>7, <1>9 DEF Hands, Disjoint
<1>14. \A i \in DOMAIN pool' : \A s \in Request : pool'[i] # req'[s].worker
  BY <1>1, <1>2, <1>7, <1>9 DEF Hands, Disjoint
<1>15. \A i \in DOMAIN pool' : pool'[i] \notin busy' BY <1>1, <1>2, <1>3 DEF Hands, Disjoint
<1>16. \A i, j \in DOMAIN pool' : pool'[i] = pool'[j] => i = j BY <1>2 DEF Hands, Disjoint
<1> QED BY <1>3, <1>8, <1>12, <1>13, <1>14, <1>15, <1>16 DEF Disjoint, Hands

(* The worker added to the pool, if any, is free.                           *)
Gains == \/ UNCHANGED pool
         \/ \E w \in Worker : /\ pool' = Append(pool, w)
                              /\ w \notin busy'
                              /\ \A i \in DOMAIN pool : pool[i] # w
                              /\ \A s \in Request : req'[s].worker # w

LEMMA GainsKeep ==
    ASSUME Hands, Gains, busy' \subseteq busy,
           \A s \in Request : req'[s].worker \in {req[s].worker, None} /\ Holding(req'[s])
    PROVE  Disjoint' /\ pool' \in Seq(Worker)
<1>1. \A i \in DOMAIN pool : pool[i] \in Worker /\ pool[i] # None BY WorkersOfThePool
<1>2. \A s, t \in Request : req'[s].worker = req'[t].worker /\ req'[s].worker # None => s = t
  BY DEF Hands, Disjoint
<1>3. \A i \in DOMAIN pool : pool[i] \notin busy' BY DEF Hands, Disjoint
<1>4. \A i \in DOMAIN pool : \A s \in Request : pool[i] # req'[s].worker
  BY <1>1 DEF Hands, Disjoint
<1>5. CASE UNCHANGED pool BY <1>2, <1>3, <1>4, <1>5 DEF Hands, Disjoint
<1>6. ASSUME NEW w \in Worker, pool' = Append(pool, w), w \notin busy',
             \A i \in DOMAIN pool : pool[i] # w, \A s \in Request : req'[s].worker # w
      PROVE  Disjoint' /\ pool' \in Seq(Worker)
  <2>1. pool \in Seq(Worker) BY DEF Hands
  <2>2. pool' \in Seq(Worker) BY <1>6, <2>1
  <2>3. \A i \in DOMAIN pool' : \/ (i \in DOMAIN pool /\ pool'[i] = pool[i])
                                \/ (i = Len(pool) + 1 /\ pool'[i] = w)
    BY <1>6, <2>1
  <2>4. \A i \in DOMAIN pool' : pool'[i] \notin busy' BY <1>3, <1>6, <2>3
  <2>5. \A i \in DOMAIN pool' : \A s \in Request : pool'[i] # req'[s].worker
    BY <1>4, <1>6, <2>3
  <2>6. \A i, j \in DOMAIN pool : pool[i] = pool[j] => i = j BY DEF Hands, Disjoint
  <2>7. \A i, j \in DOMAIN pool' : pool'[i] = pool'[j] => i = j BY <1>6, <2>3, <2>6
  <2> QED BY <1>2, <2>2, <2>4, <2>5, <2>7 DEF Disjoint
<1> QED BY <1>5, <1>6, Zenon DEF Gains

(* A new worker is one that exists nowhere.                                 *)
LEMMA NewIsFree == ASSUME Workers \in Nat, Free # {} PROVE NewWorker \in Free
<1>1. Free \subseteq Nat BY DEF Free, Worker
<1> DEFINE Below == {ss \in Nat \X Nat : ss[1] < ss[2]}
<1>2. IsWellFoundedOn(Below, Nat) BY NatLessThanWellFounded DEF OpToRel
<1> HIDE DEF Below
<1>3. PICK w \in Free : \A v \in Free : <<v, w>> \notin Below BY <1>1, <1>2, WFMin
<1>4. \A v \in Free : ~(v < w) BY <1>1, <1>3 DEF Below
<1>5. \A v \in Free : w <= v BY <1>1, <1>4
<1> QED BY <1>5 DEF NewWorker

LEMMA LetsHands ==
    ASSUME Hands, NEW r \in Request, Lets(r), active' \in Nat, refills' \in 0..MaxRefills
    PROVE  Hands'
<1>1. Disjoint' /\ req' \in [Request -> Entry] BY LetsKeep
<1>2. pool' \in Seq(Worker) /\ busy' \subseteq Worker BY DEF Lets, Hands
<1> QED BY <1>1, <1>2 DEF Hands

LEMMA SizesAreNumbers ==
    /\ {Workers, PoolSize, Passes, MaxRefills} \subseteq Nat
           /\ PoolSize <= Workers /\ Passes > 1
  BY AiAssumption

LEMMA IdleIsEntry ==
    NoRequest \in Entry /\ NoRequest.worker = None /\ Holding(NoRequest)
<1>1. 0 \in 0..Passes BY SizesAreNumbers
<1> QED BY <1>1 DEF NoRequest, Entry, Holding, None

(* The entries that the steps write.                                        *)
LEMMA DoneWrites ==
    ASSUME Hands, NEW r \in Request, Done(r)
    PROVE  \E e \in Entry : req' = [req EXCEPT ![r] = e] /\ e.worker = None /\ Holding(e)
  BY IdleIsEntry DEF Done

LEMMA OnwardWrites ==
    ASSUME Hands, NEW r \in Request, Onward(r)
    PROVE  \E e \in Entry : req' = [req EXCEPT ![r] = e] /\ e.worker = None /\ Holding(e)
<1>1. CASE Done(r) BY <1>1, DoneWrites
<1>2. ASSUME req[r].pass < Passes,
             req' = [req EXCEPT ![r].pc = IF req[r].kind = "extract" THEN "pass" ELSE "acquire",
                                ![r].pass = @ + 1, ![r].worker = None]
      PROVE  \E e \in Entry : req' = [req EXCEPT ![r] = e] /\ e.worker = None /\ Holding(e)
  <2>1. req[r] \in Entry BY DEF Hands
  <2>2. PICK to : to = IF req[r].kind = "extract" THEN "pass" ELSE "acquire" OBVIOUS
  <2>3. PICK n : n = req[r].pass + 1 OBVIOUS
  <2>4. n \in 0..Passes BY <1>2, <2>1, <2>3, SizesAreNumbers DEF Entry
  <2>5. to \in {"idle", "gemini", "fast", "retry", "pass", "acquire", "wait",
                "create", "recognize", "text", "discard"}
    BY <2>2
  <2>6. None \in Worker \cup {None} OBVIOUS
  <2> DEFINE e1 == [req[r] EXCEPT !.pc = to]
             e2 == [e1 EXCEPT !.pass = n]
             e == [e2 EXCEPT !.worker = None]
  <2>7. req' = [req EXCEPT ![r].pc = to, ![r].pass = n, ![r].worker = None]
    BY <1>2, <2>1, <2>2, <2>3 DEF Hands, Entry
  <2>8. req' = [req EXCEPT ![r] = e] BY <2>7 DEF Hands
  <2>9. e1 \in Entry /\ e1.pc = to BY <2>1, <2>5 DEF Entry
  <2> HIDE DEF e1
  <2>10. e2 \in Entry /\ e2.pc = to BY <2>4, <2>9 DEF Entry
  <2> HIDE DEF e2
  <2>11. e \in Entry /\ e.pc = to /\ e.worker = None BY <2>6, <2>10 DEF Entry
  <2> HIDE DEF e
  <2>12. Holding(e) BY <2>2, <2>11 DEF Holding
  <2> QED BY <2>8, <2>11, <2>12
<1> QED BY <1>1, <1>2, Zenon DEF Onward

LEMMA GotoWrites ==
    ASSUME Hands, NEW r \in Request,
           NEW to \in {"idle", "gemini", "fast", "retry", "pass", "acquire", "wait",
                       "create", "text", "discard"},
           to = "discard" => req[r].worker # None, Enter(r, to)
    PROVE  \E e \in Entry : req' = [req EXCEPT ![r] = e] /\ e.worker = req[r].worker /\ Holding(e)
<1>1. req[r] \in Entry BY DEF Hands
<1>2. PICK e : e = [req[r] EXCEPT !.pc = to] OBVIOUS
<1>3. e \in Entry /\ e.worker = req[r].worker /\ e.pc = to BY <1>1, <1>2 DEF Entry
<1>4. Holding(e) BY <1>3 DEF Holding
<1>5. req' = [req EXCEPT ![r] = e] BY <1>2 DEF Enter, Hands
<1> QED BY <1>3, <1>4, <1>5

LEMMA LookLets ==
    ASSUME Hands, NEW r \in Request, NEW kind \in {"chat", "verify", "extract"},
           NEW through \in {"gemini", "fast"}, NEW around \in {"acquire", "pass"},
           Look(r, kind, through, around)
    PROVE  Lets(r) /\ UNCHANGED <<active, refills>>
<1>1. req[r] \in Entry BY DEF Hands
<1>2. PICK to : to = IF Skipped THEN around ELSE through OBVIOUS
<1>3. PICK n : n = IF req[r].pass = 0 THEN 1 ELSE req[r].pass OBVIOUS
<1>4. to \in {"gemini", "fast", "acquire", "pass"} BY <1>2
<1>5. n \in 0..Passes BY <1>1, <1>3, SizesAreNumbers DEF Entry
<1>6. to \in {"idle", "gemini", "fast", "retry", "pass", "acquire", "wait",
              "create", "recognize", "text", "discard"}
  BY <1>4
<1> DEFINE e1 == [req[r] EXCEPT !.pc = to]
           e2 == [e1 EXCEPT !.kind = kind]
           e == [e2 EXCEPT !.pass = n]
<1>7. req' = [req EXCEPT ![r].pc = to, ![r].kind = kind, ![r].pass = n]
  <2>1. req' = [req EXCEPT ![r].pc = to, ![r].kind = kind, ![r].pass = IF @ = 0 THEN 1 ELSE @]
    BY <1>2, Zenon DEF Look
  <2> QED BY <2>1, <1>1, <1>3 DEF Hands, Entry
<1>8. req' = [req EXCEPT ![r] = e] BY <1>7 DEF Hands
<1>9. e1 \in Entry /\ e1.pc = to /\ e1.worker = req[r].worker BY <1>1, <1>6 DEF Entry
<1> HIDE DEF e1
<1>10. e2 \in Entry /\ e2.pc = to /\ e2.worker = req[r].worker BY <1>9 DEF Entry
<1> HIDE DEF e2
<1>11. e \in Entry /\ e.pc = to /\ e.worker = req[r].worker BY <1>5, <1>10 DEF Entry
<1> HIDE DEF e
<1>12. Holding(e) BY <1>4, <1>11 DEF Holding
<1>13. UNCHANGED ocr BY Zenon DEF Look
<1> QED BY <1>8, <1>11, <1>12, <1>13 DEF Lets, ocr

LEMMA ChatLets ==
    ASSUME Hands, NEW r \in Request, Chat(r) PROVE Lets(r) /\ UNCHANGED <<active, refills>>
<1>1. req[r] \in Entry BY DEF Hands
<1>2. PICK e : e = [[req[r] EXCEPT !.pc = "gemini"] EXCEPT !.kind = "chat"] OBVIOUS
<1>3. e \in Entry /\ e.worker = req[r].worker /\ e.pc = "gemini" BY <1>1, <1>2 DEF Entry
<1>4. req' = [req EXCEPT ![r] = e] BY <1>2 DEF Chat, Hands
<1>5. UNCHANGED ocr BY DEF Chat
<1> QED BY <1>3, <1>4, <1>5 DEF Lets, ocr, Holding

LEMMA VisionLets ==
    ASSUME Hands, NEW r \in Request, Vision(r)
    PROVE  Lets(r) /\ UNCHANGED <<active, refills>>
<1>1. UNCHANGED ocr BY Zenon DEF Vision
<1>2. CASE Done(r) BY <1>1, <1>2, DoneWrites DEF Lets, ocr
<1>3. CASE Enter(r, "pass")
  <2>1. \E e \in Entry : req' = [req EXCEPT ![r] = e] /\ e.worker = req[r].worker /\ Holding(e)
    BY <1>3, GotoWrites
  <2> QED BY <1>1, <2>1 DEF Lets, ocr
<1>4. CASE req' = [req EXCEPT ![r].pc = "retry", ![r].pass = 2]
  <2>1. req[r] \in Entry BY DEF Hands
  <2>2. PICK e : e = [[req[r] EXCEPT !.pc = "retry"] EXCEPT !.pass = 2] OBVIOUS
  <2>3. 2 \in 0..Passes BY SizesAreNumbers
  <2>4. e \in Entry /\ e.worker = req[r].worker /\ e.pc = "retry" BY <2>1, <2>2, <2>3 DEF Entry
  <2>5. req' = [req EXCEPT ![r] = e] BY <1>4, <2>2 DEF Hands
  <2> QED BY <1>1, <2>4, <2>5 DEF Lets, ocr, Holding
<1> QED BY <1>2, <1>3, <1>4, Zenon DEF Vision

LEMMA AnswerLets ==
    ASSUME Hands, NEW r \in Request, Answer(r)
    PROVE  Lets(r) /\ UNCHANGED <<active, refills>>
<1>1. UNCHANGED ocr BY Zenon DEF Answer
<1>2. CASE Done(r) BY <1>1, <1>2, DoneWrites DEF Lets, ocr
<1>3. CASE Onward(r) BY <1>1, <1>3, OnwardWrites DEF Lets, ocr
<1>4. CASE Enter(r, "acquire")
  <2>1. \E e \in Entry : req' = [req EXCEPT ![r] = e] /\ e.worker = req[r].worker /\ Holding(e)
    BY <1>4, GotoWrites
  <2> QED BY <1>1, <2>1 DEF Lets, ocr
<1> QED BY <1>2, <1>3, <1>4, Zenon DEF Answer

(* A worker is taken from the end of the pool.                              *)
LEMMA PopHands == ASSUME Hands, NEW r \in Request, Pop(r) PROVE Hands'
<1> DEFINE w == pool[Len(pool)]
<1>1. pool \in Seq(Worker) /\ pool # <<>> BY DEF Hands, Pop
<1>2. Len(pool) \in DOMAIN pool BY <1>1
<1>3. w \in Worker BY <1>1, <1>2
<1>4. pool' = SubSeq(pool, 1, Len(pool) - 1) BY DEF Pop
<1>5. pool' \in Seq(Worker) BY <1>1, <1>4
<1>6. \A i \in DOMAIN pool' : i \in DOMAIN pool /\ i # Len(pool) /\ pool'[i] = pool[i]
  BY <1>1, <1>4
<1>7. \A i \in DOMAIN pool' : pool'[i] # w BY <1>2, <1>6 DEF Hands, Disjoint
<1>8. \A s \in Request : req[s].worker # w BY <1>2 DEF Hands, Disjoint
<1>9. Hold(r, w) BY DEF Pop
<1> HIDE DEF w
<1>10. Takes(r) BY <1>3, <1>6, <1>7, <1>8, <1>9 DEF Takes
<1>11. active' \in Nat /\ refills' \in 0..MaxRefills BY DEF Pop, Hands
<1> QED BY <1>5, <1>10, <1>11, TakesKeep DEF Hands

LEMMA AcquireHands == ASSUME Hands, NEW r \in Request, Acquire(r) PROVE Hands'
<1>1. CASE Pop(r) BY <1>1, PopHands
<1>2. CASE /\ UNCHANGED <<pool, busy, refills>>
           /\ \/ Enter(r, "wait") /\ UNCHANGED active
              \/ Enter(r, "create") /\ active' = active + 1
  <2>1. \E e \in Entry : req' = [req EXCEPT ![r] = e] /\ e.worker = req[r].worker /\ Holding(e)
    BY <1>2, GotoWrites
  <2>2. Lets(r) BY <1>2, <2>1 DEF Lets
  <2>3. active' \in Nat /\ refills' \in 0..MaxRefills BY <1>2 DEF Hands
  <2> QED BY <2>2, <2>3, LetsHands
<1> QED BY <1>1, <1>2, Zenon DEF Acquire

LEMMA WaitHands == ASSUME Hands, NEW r \in Request, Wait(r) PROVE Hands'
<1>1. CASE Pop(r) BY <1>1, PopHands
<1>2. CASE Onward(r) /\ UNCHANGED ocr
  <2>1. Lets(r) BY <1>2, OnwardWrites DEF Lets, ocr
  <2>2. active' \in Nat /\ refills' \in 0..MaxRefills BY <1>2 DEF Hands, ocr
  <2> QED BY <2>1, <2>2, LetsHands
<1> QED BY <1>1, <1>2, Zenon DEF Wait

LEMMA CreateHands == ASSUME Hands, NEW r \in Request, CreateWorker(r) PROVE Hands'
<1>1. UNCHANGED <<pool, active, refills>> BY Zenon DEF CreateWorker
<1>2. CASE Free # {} /\ Hold(r, NewWorker)
  <2>1. NewWorker \in Free BY <1>2, NewIsFree, SizesAreNumbers
  <2>2. PICK w : w = NewWorker OBVIOUS
  <2>3. w \in Worker /\ w \notin Pooled /\ w \notin busy
       /\ \A s \in Request : req[s].worker # w
    BY <2>1, <2>2 DEF Free
  <2>4. \A i \in DOMAIN pool : pool[i] # w BY <2>3 DEF Pooled
  <2>5. Hold(r, w) BY <1>2, <2>2
  <2>6. Takes(r) BY <1>1, <2>3, <2>4, <2>5 DEF Takes
  <2> QED BY <1>1, <2>6, TakesKeep DEF Hands
<1>3. CASE Onward(r) /\ UNCHANGED busy
  <2>1. Lets(r) BY <1>1, <1>3, OnwardWrites DEF Lets
  <2>2. active' \in Nat /\ refills' \in 0..MaxRefills BY <1>1 DEF Hands
  <2> QED BY <2>1, <2>2, LetsHands
<1> QED BY <1>2, <1>3, Zenon DEF CreateWorker

LEMMA OneLessIsNumber == ASSUME Hands PROVE OneLess \in Nat
  BY DEF Hands, OneLess

LEMMA ReturnHands ==
    ASSUME Hands, NEW r \in Request, InStage(r, "recognize"), Return(r), UNCHANGED refills
    PROVE  Hands'
<1> DEFINE w == req[r].worker
           e1 == [req[r] EXCEPT !.pc = "text"]
           e == [e1 EXCEPT !.worker = None]
<1>1. req[r] \in Entry BY DEF Hands
<1>2. w \in Worker /\ w # None BY <1>1 DEF Hands, Disjoint, Holding, InStage, Entry
<1>3. req' = [req EXCEPT ![r] = e] BY DEF Return, Hands
<1>4. e1 \in Entry /\ e1.pc = "text" BY <1>1 DEF Entry
<1> HIDE DEF e1
<1>5. e \in Entry /\ e.pc = "text" /\ e.worker = None BY <1>4 DEF Entry
<1> HIDE DEF e
<1>6. Holding(e) BY <1>5 DEF Holding
<1>7. req' \in [Request -> Entry] BY <1>3, <1>5 DEF Hands
<1>8. req'[r] = e /\ \A s \in Request : s # r => req'[s] = req[s] BY <1>3 DEF Hands
<1>9. \A s \in Request : req'[s].worker \in {req[s].worker, None} /\ Holding(req'[s])
  BY <1>5, <1>6, <1>8 DEF Hands, Disjoint
<1>10. \A s \in Request : req'[s].worker # w BY <1>2, <1>5, <1>8 DEF Hands, Disjoint
<1>11. \A i \in DOMAIN pool : pool[i] # w BY DEF Hands, Disjoint
<1>12. busy' = busy \ {w} BY Zenon DEF Return
<1>13. pool' = pool \/ pool' = Append(pool, w) BY Zenon DEF Return
<1> HIDE DEF w
<1>14. Gains BY <1>2, <1>10, <1>11, <1>12, <1>13 DEF Gains
<1>15. Disjoint' /\ pool' \in Seq(Worker) BY <1>9, <1>12, <1>14, GainsKeep
<1>16. active' \in Nat BY OneLessIsNumber, Zenon DEF Return
<1> QED BY <1>7, <1>12, <1>15, <1>16 DEF Hands

LEMMA DiscardingHands ==
    ASSUME Hands, NEW r \in Request, req[r].worker # None, Enter(r, "discard"),
           active' = OneLess, UNCHANGED <<pool, busy, refills>>
    PROVE  Hands'
<1>1. \E e \in Entry : req' = [req EXCEPT ![r] = e] /\ e.worker = req[r].worker /\ Holding(e)
  BY GotoWrites
<1>2. Lets(r) BY <1>1 DEF Lets
<1>3. active' \in Nat /\ refills' \in 0..MaxRefills BY OneLessIsNumber DEF Hands
<1> QED BY <1>2, <1>3, LetsHands

LEMMA RecognizeHands == ASSUME Hands, NEW r \in Request, Recognize(r) PROVE Hands'
<1>1. InStage(r, "recognize") /\ UNCHANGED refills BY Zenon DEF Recognize
<1>2. CASE Return(r) BY <1>1, <1>2, ReturnHands
<1>3. CASE Enter(r, "discard") /\ active' = OneLess /\ UNCHANGED <<pool, busy>>
  <2>1. req[r].worker # None BY <1>1 DEF Hands, Disjoint, Holding, InStage
  <2> QED BY <1>1, <1>3, <2>1, DiscardingHands
<1> QED BY <1>2, <1>3, Zenon DEF Recognize

LEMMA TextHands == ASSUME Hands, NEW r \in Request, Text(r) PROVE Hands'
<1>1. UNCHANGED <<pool, busy, refills>> BY Zenon DEF Text
<1>2. CASE (Onward(r) \/ Done(r)) /\ UNCHANGED active
  <2>1. Lets(r) BY <1>1, <1>2, OnwardWrites, DoneWrites DEF Lets
  <2>2. active' \in Nat /\ refills' \in 0..MaxRefills BY <1>1, <1>2 DEF Hands
  <2> QED BY <2>1, <2>2, LetsHands
<1>3. CASE req[r].worker # None /\ Enter(r, "discard") /\ active' = OneLess
  BY <1>1, <1>3, DiscardingHands
<1> QED BY <1>2, <1>3, Zenon DEF Text

LEMMA DiscardHands == ASSUME Hands, NEW r \in Request, Discard(r) PROVE Hands'
<1>1. Onward(r) /\ UNCHANGED <<pool, active>> /\ busy' = busy \ {req[r].worker}
  BY Zenon DEF Discard
<1>2. Lets(r) BY <1>1, OnwardWrites DEF Lets
<1>3. refills < MaxRefills /\ (refills' = refills + 1 \/ refills' = refills)
  BY Zenon DEF Discard
<1>4. active' \in Nat /\ refills' \in 0..MaxRefills BY <1>1, <1>3, SizesAreNumbers DEF Hands
<1> QED BY <1>2, <1>4, LetsHands

LEMMA RefillHands == ASSUME Hands, Refill PROVE Hands'
<1>1. UNCHANGED <<busy, active, req>> BY Zenon DEF Refill
<1>2. refills > 0 /\ refills' = refills - 1 BY DEF Refill
<1>3. Gains
  <2>1. CASE Len(pool) < PoolSize /\ Free # {}
    <3>1. NewWorker \in Free BY <2>1, NewIsFree, SizesAreNumbers
    <3>2. PICK w : w = NewWorker OBVIOUS
    <3>3. w \in Worker /\ w \notin Pooled /\ w \notin busy
         /\ \A s \in Request : req[s].worker # w
      BY <3>1, <3>2 DEF Free
    <3>4. \A i \in DOMAIN pool : pool[i] # w BY <3>3 DEF Pooled
    <3>5. pool' = pool \/ pool' = Append(pool, w) BY <2>1, <3>2 DEF Refill
    <3> QED BY <1>1, <3>3, <3>4, <3>5 DEF Gains
  <2>2. CASE ~(Len(pool) < PoolSize /\ Free # {}) BY <2>2 DEF Refill, Gains
  <2> QED BY <2>1, <2>2
<1>4. \A s \in Request : req'[s].worker \in {req[s].worker, None} /\ Holding(req'[s])
  BY <1>1 DEF Hands, Disjoint
<1>5. Disjoint' /\ pool' \in Seq(Worker) BY <1>1, <1>3, <1>4, GainsKeep
<1>6. refills' \in 0..MaxRefills BY <1>2, SizesAreNumbers DEF Hands
<1> QED BY <1>1, <1>5, <1>6 DEF Hands

LEMMA HandsHold == ASSUME Hands, [AiNext]_aiVars PROVE Hands'
<1>1. ASSUME NEW r \in Request, Lets(r), UNCHANGED <<active, refills>> PROVE Hands'
  <2>1. active' \in Nat /\ refills' \in 0..MaxRefills BY <1>1 DEF Hands
  <2> QED BY <1>1, <2>1, LetsHands
<1>2. ASSUME NEW r \in Request, Chat(r) PROVE Hands' BY <1>1, <1>2, ChatLets
<1>3. ASSUME NEW r \in Request, Verify(r) PROVE Hands'
  BY <1>1, <1>3, LookLets DEF Verify
<1>4. ASSUME NEW r \in Request, Extract(r) PROVE Hands'
  BY <1>1, <1>4, LookLets DEF Extract
<1>5. ASSUME NEW r \in Request, Retry(r) \/ RunOcrPass(r) PROVE Hands'
  BY <1>1, <1>5, LookLets DEF Retry, RunOcrPass
<1>6. ASSUME NEW r \in Request, Step(r) PROVE Hands'
  <2>1. CASE Vision(r) BY <1>1, <2>1, VisionLets
  <2>2. CASE Answer(r) BY <1>1, <2>2, AnswerLets
  <2> QED BY <1>5, <1>6, <2>1, <2>2, AcquireHands, WaitHands, CreateHands, RecognizeHands,
             TextHands, DiscardHands, Zenon DEF Step
<1>7. CASE UNCHANGED <<ocr, req>> BY <1>7 DEF Hands, Disjoint, ocr
<1>8. ASSUME NEW g, GeminiChanges(g) PROVE Hands' BY <1>7, <1>8 DEF GeminiChanges
<1>9. CASE Cooldown BY <1>7, <1>9 DEF Cooldown
<1>10. CASE Refill BY <1>10, RefillHands
<1>11. CASE UNCHANGED aiVars BY <1>7, <1>11 DEF aiVars, ocr
<1> QED BY <1>2, <1>3, <1>4, <1>6, <1>8, <1>9, <1>10, <1>11, Zenon DEF AiNext

LEMMA HandsStart == ASSUME AiInit PROVE Hands
<1>1. NoRequest \in Entry /\ NoRequest.worker = None /\ Holding(NoRequest) BY IdleIsEntry
<1>2. req = [r \in Request |-> NoRequest] /\ busy = {} /\ active = 0 /\ refills = 0 BY DEF AiInit
<1>3. PICK n \in 0..PoolSize : pool = [i \in 1..n |-> i] BY DEF AiInit
<1>4. n \in Nat /\ \A i \in 1..n : i \in Worker BY SizesAreNumbers DEF Worker
<1>5. pool \in Seq(Worker) /\ DOMAIN pool = 1..n BY <1>3, <1>4
<1>6. req \in [Request -> Entry] /\ \A r \in Request : req[r] = NoRequest BY <1>1, <1>2
<1>7. \A i \in DOMAIN pool : pool[i] # None BY <1>3, <1>4, <1>5 DEF None
<1>8. \A i, j \in DOMAIN pool : pool[i] = pool[j] => i = j BY <1>3, <1>5
<1>9. Disjoint BY <1>1, <1>2, <1>6, <1>7, <1>8 DEF Disjoint
<1>10. 0 \in 0..MaxRefills BY SizesAreNumbers
<1> QED BY <1>2, <1>5, <1>6, <1>9, <1>10 DEF Hands

LEMMA HandsAreExclusive == ASSUME Hands PROVE WorkersAreExclusive
<1>1. ASSUME NEW w \in Worker PROVE Cardinality(Holders(w)) <= 1
  <2>1. w # None BY DEF Worker, None
  <2>2. \A r, s \in Holders(w) : r = s BY <2>1 DEF Holders, Hands, Disjoint
  <2> DEFINE H == Holders(w)
  <2> HIDE DEF H
  <2>3. CASE H = {} BY <2>3, FS_EmptySet DEF H
  <2>4. CASE H # {}
    <3>1. PICK r \in H : TRUE BY <2>4
    <3>2. H = {} \cup {r} BY <2>2, <3>1 DEF H
    <3>3. IsFiniteSet({}) /\ Cardinality({}) = 0 BY FS_EmptySet
    <3>4. Cardinality({} \cup {r}) = 1 BY <3>3, FS_AddElement
    <3> QED BY <3>2, <3>4 DEF H
  <2> QED BY <2>3, <2>4
<1>2. ASSUME NEW w \in Pooled PROVE Holders(w) = {} /\ w \notin busy
  <2>1. PICK i \in DOMAIN pool : w = pool[i] BY DEF Pooled
  <2> QED BY <2>1 DEF Holders, Hands, Disjoint
<1>3. \A i, j \in DOMAIN pool : pool[i] = pool[j] => i = j BY DEF Hands, Disjoint
<1>4. \A w \in Worker : Cardinality(Holders(w)) <= 1
  BY <1>1
<1> QED BY <1>2, <1>3, <1>4, Zenon DEF WorkersAreExclusive

(* However the requests interleave, time out and are replaced, no worker is *)
(* with two of them, or idle in the pool while one holds it.                *)
THEOREM WorkersServeOne == AiSpec => []WorkersAreExclusive
<1>1. AiInit => Hands BY HandsStart
<1>2. Hands /\ [AiNext]_aiVars => Hands' BY HandsHold
<1>3. Hands => WorkersAreExclusive BY HandsAreExclusive
<1> QED BY <1>1, <1>2, <1>3, PTL DEF AiSpec

(* The service keeps its types: the counts of the breaker and of the passes *)
(* stay in their bounds.                                                    *)
THEOREM AiTypes == AiSpec => []AiTypeOK
<1> DEFINE Known == gemini \in {"up", "blank", "down"}
<1>1. AiInit => Circuit /\ Hands /\ Known
  <2>1. AiInit => Known BY DEF AiInit
  <2> HIDE DEF Known
  <2> QED BY <2>1, CircuitStarts, HandsStart
<1>2. Circuit /\ Hands /\ Known /\ [AiNext]_aiVars => (Circuit /\ Hands /\ Known)'
  <2>1. ASSUME Known, [AiNext]_aiVars PROVE Known'
    <3>1. CASE UNCHANGED gemini BY <2>1, <3>1
    <3>2. ASSUME NEW r \in Request, Chat(r) \/ Verify(r) \/ Extract(r)
          PROVE UNCHANGED gemini
      BY <3>2, Zenon DEF Chat, Verify, Extract, Look
    <3>3. ASSUME NEW r \in Request, Step(r) PROVE UNCHANGED gemini
      <4>1. CASE Retry(r) \/ RunOcrPass(r) \/ Vision(r) \/ Answer(r)
        BY <4>1, Zenon DEF Retry, RunOcrPass, Look, Vision, Answer
      <4>2. CASE Acquire(r) \/ Wait(r) \/ CreateWorker(r)
        BY <4>2, Zenon DEF Acquire, Wait, CreateWorker
      <4>3. CASE Recognize(r) \/ Text(r) \/ Discard(r)
        BY <4>3, Zenon DEF Recognize, Text, Discard
      <4> QED BY <3>3, <4>1, <4>2, <4>3, Zenon DEF Step
    <3>4. ASSUME NEW g \in {"up", "blank", "down"}, GeminiChanges(g) PROVE Known'
      BY <3>4 DEF GeminiChanges
    <3>5. CASE Cooldown BY <3>1, <3>5 DEF Cooldown
    <3>6. CASE Refill BY <3>1, <3>6 DEF Refill
    <3>7. CASE UNCHANGED aiVars BY <3>1, <3>7 DEF aiVars
    <3> QED BY <2>1, <3>1, <3>2, <3>3, <3>4, <3>5, <3>6, <3>7, Zenon DEF AiNext
  <2> HIDE DEF Known
  <2> QED BY <2>1, StepsOfTheCircuit, CircuitHolds, HandsHold
<1>3. Circuit /\ Hands /\ Known => AiTypeOK
  <2>1. Hands => \A r \in Request :
          /\ req[r].pc \in {"idle", "gemini", "fast", "retry", "pass", "acquire", "wait",
                            "create", "recognize", "text", "discard"}
          /\ req[r].kind \in {"chat", "verify", "extract"}
          /\ req[r].worker \in Worker \cup {None} /\ req[r].pass \in 0..Passes
    BY DEF Hands, Entry
  <2> QED BY <2>1, Zenon DEF AiTypeOK, Circuit, Hands, Switch
<1> HIDE DEF Known
<1> QED BY <1>1, <1>2, <1>3, PTL DEF AiSpec
=============================================================================

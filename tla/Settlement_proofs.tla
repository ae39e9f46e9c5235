-------------------------- MODULE Settlement_proofs --------------------------
(* Settlements, reversals and crashes, however they overlap: what an order  *)
(* was charged is what its buyer and its mediator were credited.  With      *)
(* handlers that do not overlap, an order paid from the wallets is covered  *)
(* by a debit that was not refunded, also when the process dies, and        *)
(* settling is what SettlementBook says.                                    *)
EXTENDS Settlement, Sums, SequenceTheorems, TLAPS

(* The fold of a batch of at most three mutations is their composition. *)
Step(st, m) == L!ApplyMutation(st, m)
Top(s) == L!Max(s)

LEMMA TopExists ==
    ASSUME NEW s, NEW x \in s, \A y \in s : x >= y PROVE Top(s) \in s
  BY Zenon DEF Top, L!Max

LEMMA TopIs ==
    ASSUME NEW i \in Nat \ {0} PROVE Top(1 .. i) = i
<1>1. i \in 1 .. i /\ \A y \in 1 .. i : i >= y OBVIOUS
<1>2. Top(1 .. i) \in 1 .. i BY <1>1, TopExists
<1>3. \A y \in 1 .. i : Top(1 .. i) >= y BY <1>1, Zenon DEF Top, L!Max
<1> QED BY <1>1, <1>2, <1>3

LEMMA TopOf ==
    ASSUME NEW s \in SUBSET {1, 2, 3}, s # {} PROVE Top(s) \in s
<1>1. CASE 3 \in s
  <2>1. \A y \in s : 3 >= y OBVIOUS
  <2> QED BY <1>1, <2>1, TopExists
<1>2. CASE 3 \notin s /\ 2 \in s
  <2>1. \A y \in s : 2 >= y BY <1>2
  <2> QED BY <1>2, <2>1, TopExists
<1>3. CASE 3 \notin s /\ 2 \notin s
  <2>1. \A y \in s : y = 1 BY <1>3
  <2>2. 1 \in s BY <2>1
  <2>3. \A y \in s : 1 >= y BY <2>1
  <2> QED BY <2>2, <2>3, TopExists
<1> QED BY <1>1, <1>2, <1>3

LEMMA FoldOfThree ==
    ASSUME NEW wal, NEW led, NEW b, NEW n \in 0 .. 3, DOMAIN b = 1 .. n,
           NEW s0, s0 = [ok |-> TRUE, wallet |-> wal, ledger |-> led]
    PROVE  LET res == L!ApplyBatch(wal, led, b)
           IN  /\ n = 0 => res = s0
               /\ n = 1 => res = Step(s0, b[1])
               /\ n = 2 => res = Step(Step(s0, b[1]), b[2])
               /\ n = 3 => res = Step(Step(Step(s0, b[1]), b[2]), b[3])
<1> DEFINE P == SUBSET (1 .. n)
           T(s) == s \ {Top(s)}
           F(g) == [s \in P |-> IF s = {} THEN s0 ELSE Step(g[T(s)], b[Top(s)])]
           it == CHOOSE g : g = F(g)
           h == [s \in P |->
                   IF s = {} THEN s0
                   ELSE IF T(s) = {} THEN Step(s0, b[Top(s)])
                   ELSE IF T(T(s)) = {} THEN Step(Step(s0, b[Top(T(s))]), b[Top(s)])
                   ELSE Step(Step(Step(s0, b[Top(T(T(s)))]), b[Top(T(s))]), b[Top(s)])]
<1>1. L!ApplyBatch(wal, led, b) = it[DOMAIN b]
  BY DEF L!ApplyBatch, L!FoldLeft, L!MapThenFoldSet, Step, Top
<1>2. h = F(h)
  <2>1. ASSUME NEW s \in P, s # {} PROVE h[s] = Step(h[T(s)], b[Top(s)])
    <3>1. T(s) \in P /\ T(T(s)) \in P OBVIOUS
    <3>2. T(T(T(s))) = {}
      <4>1. s \in SUBSET {1, 2, 3}
        <5>1. 1 .. n \subseteq {1, 2, 3} OBVIOUS
        <5> QED BY <5>1
      <4>2. Top(s) \in s BY <4>1, <2>1, TopOf
      <4>3. T(s) = {} \/ Top(T(s)) \in T(s) BY <4>1, TopOf
      <4>4. T(T(s)) = {} \/ Top(T(T(s))) \in T(T(s)) BY <4>1, TopOf
      <4>5. T(s) \in SUBSET {1, 2, 3} /\ T(T(s)) \in SUBSET {1, 2, 3} BY <4>1
      <4> QED BY <4>1, <4>2, <4>3, <4>4, <4>5
    <3> HIDE DEF T
    <3> QED BY <2>1, <3>1, <3>2
  <2>2. h[{}] = s0 OBVIOUS
  <2>3. h = [s \in P |-> h[s]] OBVIOUS
  <2>4. \A s \in P : h[s] = IF s = {} THEN s0 ELSE Step(h[T(s)], b[Top(s)])
    <3> HIDE DEF h, T
    <3> QED BY <2>1, <2>2
  <2> HIDE DEF h, T
  <2> QED BY <2>3, <2>4, Zenon
<1>3. it = F(it) BY <1>2
<1> HIDE DEF it, h
<1>4. \A s \in P : it[s] = IF s = {} THEN s0 ELSE Step(it[T(s)], b[Top(s)]) 
  <2> HIDE DEF T
  <2>1. it = [s \in P |-> IF s = {} THEN s0 ELSE Step(it[T(s)], b[Top(s)])] BY <1>3
  <2> QED BY <2>1
<1>5. ASSUME NEW i \in 1 .. n PROVE it[1 .. i] = Step(it[1 .. (i - 1)], b[i])
  <2>1. Top(1 .. i) = i  BY TopIs
  <2>2. 1 .. i \in P /\ 1 .. i # {} /\ T(1 .. i) = 1 .. (i - 1) BY <2>1
  <2> HIDE DEF T
  <2> QED BY <1>4, <2>1, <2>2
<1> HIDE DEF T, P
<1>6. it[1 .. 0] = s0
  <2>1. {} \in P /\ 1 .. 0 = {} BY DEF P
  <2> QED BY <1>4, <2>1
<1>7. ASSUME n >= 1 PROVE it[1 .. 1] = Step(s0, b[1])
  <2>1. 1 \in 1 .. n /\ 1 .. (1 - 1) = 1 .. 0 BY <1>7
  <2>2. it[1 .. 1] = Step(it[1 .. (1 - 1)], b[1]) BY <1>5, <2>1
  <2> QED BY <2>1, <2>2, <1>6
<1>8. ASSUME n >= 2 PROVE it[1 .. 2] = Step(Step(s0, b[1]), b[2])
  <2>1. 2 \in 1 .. n /\ 1 .. (2 - 1) = 1 .. 1 /\ n >= 1 BY <1>8
  <2>2. it[1 .. 2] = Step(it[1 .. (2 - 1)], b[2]) BY <1>5, <2>1
  <2> QED BY <2>1, <2>2, <1>7
<1>9. ASSUME n = 3 PROVE it[1 .. 3] = Step(Step(Step(s0, b[1]), b[2]), b[3])
  <2>1. 3 \in 1 .. n /\ 1 .. (3 - 1) = 1 .. 2 /\ n >= 2 BY <1>9
  <2>2. it[1 .. 3] = Step(it[1 .. (3 - 1)], b[3]) BY <1>5, <2>1
  <2> QED BY <2>1, <2>2, <1>8
<1>10. n \in {0, 1, 2, 3} OBVIOUS
<1>11. CASE n = 0 BY <1>1, <1>6, <1>11
<1>12. CASE n = 1 BY <1>1, <1>7, <1>12
<1>13. CASE n = 2 BY <1>1, <1>8, <1>13
<1>14. CASE n = 3 BY <1>1, <1>9, <1>14
<1> QED BY <1>10, <1>11, <1>12, <1>13, <1>14
-----------------------------------------------------------------------------
Wallets == [Owner -> [status : L!WalletStatus, available : 0 .. MaxBalance]]
Ledgers == [Key -> L!Mutation \cup {NoEntry}]
State == [ok : BOOLEAN, wallet : Wallets, ledger : Ledgers]

(* One mutation. *)
WalletAfter(wal, m) ==
    [wal EXCEPT ![m.owner] =
        [status |-> "live", available |-> wal[m.owner].available + L!Signed(m)]]

LEMMA StepApplies ==
    ASSUME NEW st \in State, NEW m \in L!Mutation, NEW r, r = Step(st, m), r.ok
    PROVE  /\ r \in State /\ st.ok /\ m.amount > 0
           /\ st.ledger[m.key] # NoEntry =>
                  /\ r.ledger = st.ledger /\ r.wallet = st.wallet
                  /\ st.ledger[m.key].amount = m.amount
           /\ st.ledger[m.key] = NoEntry =>
                  /\ r.ledger = [st.ledger EXCEPT ![m.key] = m]
                  /\ r.wallet = WalletAfter(st.wallet, m)
<1> DEFINE row == st.wallet[m.owner]
           new == [ok |-> TRUE,
                   wallet |-> [st.wallet EXCEPT ![m.owner] =
                        [status |-> "live", available |-> row.available + L!Signed(m)]],
                   ledger |-> [st.ledger EXCEPT ![m.key] = m]]
<1>1. /\ st.ok \in BOOLEAN /\ st.wallet \in Wallets /\ st.ledger \in Ledgers
      /\ m.op \in {"credit", "debit"} /\ m.key \in Key /\ m.owner \in Owner /\ m.amount \in Int
  BY DEF State, L!Mutation
<1>2. st.ok /\ m.amount > 0
  <2>1. CASE ~st.ok \/ ~L!ValidInput(m)
    <3>1. r = [st EXCEPT !.ok = FALSE] BY <2>1 DEF Step, L!ApplyMutation
    <3>2. ~r.ok BY <3>1 DEF State
    <3> QED BY <3>2
  <2>2. CASE st.ok /\ L!ValidInput(m) BY <2>2 DEF L!ValidInput
  <2> QED BY <2>1, <2>2
<1>3. CASE st.ledger[m.key] # NoEntry
  <2>1. r = [st EXCEPT !.ok = L!SameOperation(st.ledger[m.key], m)]
    BY <1>2, <1>3 DEF Step, L!ApplyMutation, L!ValidInput
  <2>2. r.wallet = st.wallet /\ r.ledger = st.ledger
        /\ r.ok = L!SameOperation(st.ledger[m.key], m)
    BY <2>1 DEF State
  <2>3. st.ledger[m.key].amount = m.amount BY <2>2 DEF L!SameOperation
  <2>4. r \in State BY <2>1, <2>2 DEF State, L!SameOperation
  <2> QED BY <1>2, <1>3, <2>2, <2>3, <2>4
<1>4. CASE st.ledger[m.key] = NoEntry
  <2>1. L!MayApply(row, m)
    <3>1. CASE ~L!MayApply(row, m)
      <4>1. r = [st EXCEPT !.ok = FALSE]
        BY <1>2, <1>4, <3>1 DEF Step, L!ApplyMutation, L!ValidInput
      <4>2. ~r.ok BY <4>1 DEF State
      <4> QED BY <4>2
    <3> QED BY <3>1
  <2>2. r = new BY <1>2, <1>4, <2>1 DEF Step, L!ApplyMutation, L!ValidInput
  <2>3. row \in [status : L!WalletStatus, available : 0 .. MaxBalance] BY <1>1 DEF Wallets
  <2>4. row.available + L!Signed(m) \in 0 .. MaxBalance
    BY <1>1, <1>2, <2>1, <2>3, SettlementAssumption
    DEF L!MayApply, L!MayCredit, L!MayDebit, L!Signed
  <2>5. new.wallet \in Wallets
    <3>1. [status |-> "live", available |-> row.available + L!Signed(m)]
              \in [status : L!WalletStatus, available : 0 .. MaxBalance]
      BY <2>4 DEF L!WalletStatus
    <3> QED BY <1>1, <3>1 DEF Wallets
  <2>6. new.ledger \in Ledgers BY <1>1 DEF Ledgers
  <2>7. new \in State BY <2>5, <2>6 DEF State
  <2> QED BY <1>2, <1>4, <2>2, <2>7 DEF WalletAfter
<1> QED BY <1>3, <1>4

(* What a batch has written is there, and what was there is not touched. *)
Keeps(s, t) == \A k \in Key : s.ledger[k] # NoEntry => t.ledger[k] = s.ledger[k]
Holds(t, m) == t.ledger[m.key] # NoEntry /\ t.ledger[m.key].amount = m.amount

LEMMA StepWrites ==
    ASSUME NEW st \in State, NEW m \in L!Mutation, NEW r, r = Step(st, m), r.ok
    PROVE  /\ r \in State /\ st.ok
           /\ Keeps(st, r) /\ Holds(r, m)
           /\ \A k \in Key : k # m.key => r.ledger[k] = st.ledger[k]
<1>1. st.ledger \in Ledgers /\ m.key \in Key BY DEF State, L!Mutation
<1>2. CASE st.ledger[m.key] # NoEntry
  <2>1. r.ledger = st.ledger /\ st.ledger[m.key].amount = m.amount BY ZenonT(30), <1>2, StepApplies
  <2> QED BY <1>1, <1>2, <2>1, StepApplies DEF Keeps, Holds
<1>3. CASE st.ledger[m.key] = NoEntry
  <2>1. r.ledger = [st.ledger EXCEPT ![m.key] = m]
    <3>1. st.ledger[m.key] = NoEntry => r.ledger = [st.ledger EXCEPT ![m.key] = m]
      BY StepApplies, ZenonT(30)
    <3> QED BY <1>3, <3>1
  <2>2. m # NoEntry BY SettlementAssumption
  <2>3. r.ledger[m.key] = m /\ \A k \in Key : k # m.key => r.ledger[k] = st.ledger[k]
    BY <1>1, <2>1 DEF Ledgers
  <2>4. r \in State /\ st.ok BY StepApplies
  <2> QED BY <1>1, <1>3, <2>2, <2>3, <2>4 DEF Keeps, Holds
<1> QED BY <1>2, <1>3

(* The batch of a transaction, when all of it succeeds. *)
LEMMA StepType ==
    ASSUME NEW st \in State, NEW m \in L!Mutation PROVE Step(st, m) \in State
<1> DEFINE r == Step(st, m)
<1>1. CASE r.ok BY <1>1, StepApplies
<1>2. CASE ~r.ok
  <2>1. r = [st EXCEPT !.ok = FALSE] \/ r = [st EXCEPT !.ok = L!SameOperation(st.ledger[m.key], m)]
    BY <1>2 DEF Step, L!ApplyMutation
  <2>2. L!SameOperation(st.ledger[m.key], m) \in BOOLEAN BY DEF L!SameOperation
  <2> QED BY <2>1, <2>2 DEF State
<1> QED BY <1>1, <1>2

(* The batch of a transaction, when all of it succeeds. *)
Small(b, n) == n \in 0 .. 3 /\ DOMAIN b = 1 .. n /\ \A i \in 1 .. n : b[i] \in L!Mutation
Grows(led, new) == \A k \in Key : led[k] # NoEntry => new[k] = led[k]
Written(led, b, n, res) ==
    /\ res.wallet \in Wallets /\ res.ledger \in Ledgers
    /\ Grows(led, res.ledger)
    /\ \A i \in 1 .. n : Holds(res, b[i])
    /\ \A k \in Key : (\A i \in 1 .. n : k # b[i].key) => res.ledger[k] = led[k]

LEMMA BatchWrites ==
    ASSUME NEW wal \in Wallets, NEW led \in Ledgers, NEW b, NEW n, Small(b, n),
           NEW res, res = L!ApplyBatch(wal, led, b), res.ok
    PROVE  Written(led, b, n, res)
<1>0. n \in 0 .. 3 /\ DOMAIN b = 1 .. n /\ \A i \in 1 .. n : b[i] \in L!Mutation BY DEF Small
<1> USE <1>0
<1> SUFFICES /\ res.wallet \in Wallets /\ res.ledger \in Ledgers
             /\ \A k \in Key : led[k] # NoEntry => res.ledger[k] = led[k]
             /\ \A i \in 1 .. n : Holds(res, b[i])
             /\ \A k \in Key : (\A i \in 1 .. n : k # b[i].key) => res.ledger[k] = led[k]
  BY DEF Written, Grows
<1>1. PICK s0 \in State : s0 = [ok |-> TRUE, wallet |-> wal, ledger |-> led] BY DEF State
<1>2. s0.ledger = led BY <1>1
<1>3. \A i \in 1 .. n : b[i].key \in Key BY DEF L!Mutation
<1>4. ASSUME NEW t, t \in State PROVE t.wallet \in Wallets /\ t.ledger \in Ledgers
  BY <1>4 DEF State
<1>5. CASE n = 0
  <2>1. res = s0 BY <1>1, <1>5, FoldOfThree
  <2> QED BY <2>1, <1>2, <1>4, <1>5
<1>6. CASE n = 1
  <2>1. res = Step(s0, b[1]) /\ b[1] \in L!Mutation BY <1>1, <1>6, FoldOfThree
  <2>2. /\ res \in State /\ Keeps(s0, res) /\ Holds(res, b[1])
        /\ \A k \in Key : k # b[1].key => res.ledger[k] = s0.ledger[k]
    BY <2>1, StepWrites
  <2> QED BY <2>2, <1>2, <1>4, <1>6 DEF Keeps
<1>7. CASE n = 2
  <2>1. b[1] \in L!Mutation /\ b[2] \in L!Mutation BY <1>7
  <2>2. PICK s1 \in State : s1 = Step(s0, b[1]) BY <2>1, StepType
  <2>3. res = Step(s1, b[2]) BY <1>1, <1>7, <2>2, FoldOfThree
  <2>4. /\ res \in State /\ s1.ok /\ Keeps(s1, res) /\ Holds(res, b[2])
        /\ \A k \in Key : k # b[2].key => res.ledger[k] = s1.ledger[k]
    BY <2>1, <2>3, StepWrites
  <2>5. /\ Keeps(s0, s1) /\ Holds(s1, b[1])
        /\ \A k \in Key : k # b[1].key => s1.ledger[k] = s0.ledger[k]
    BY <2>1, <2>2, <2>4, StepWrites
  <2>6. Keeps(s0, res) /\ Holds(res, b[1]) BY <2>4, <2>5, <1>3, <1>7 DEF Keeps, Holds
  <2>7. \A i \in 1 .. n : i = 1 \/ i = 2 BY <1>7
  <2> QED BY <2>4, <2>5, <2>6, <2>7, <1>2, <1>4, <1>7 DEF Keeps
<1>8. CASE n = 3
  <2>1. b[1] \in L!Mutation /\ b[2] \in L!Mutation /\ b[3] \in L!Mutation BY <1>8
  <2>2. PICK s1 \in State : s1 = Step(s0, b[1]) BY <2>1, StepType
  <2>3. PICK s2 \in State : s2 = Step(s1, b[2]) BY <2>1, StepType
  <2>4. res = Step(s2, b[3]) BY <1>1, <1>8, <2>2, <2>3, FoldOfThree
  <2>5. /\ res \in State /\ s2.ok /\ Keeps(s2, res) /\ Holds(res, b[3])
        /\ \A k \in Key : k # b[3].key => res.ledger[k] = s2.ledger[k]
    BY <2>1, <2>4, StepWrites
  <2>6. /\ s1.ok /\ Keeps(s1, s2) /\ Holds(s2, b[2])
        /\ \A k \in Key : k # b[2].key => s2.ledger[k] = s1.ledger[k]
    BY <2>1, <2>3, <2>5, StepWrites
  <2>7. /\ Keeps(s0, s1) /\ Holds(s1, b[1])
        /\ \A k \in Key : k # b[1].key => s1.ledger[k] = s0.ledger[k]
    BY <2>1, <2>2, <2>6, StepWrites
  <2>8. Keeps(s0, res) /\ Holds(res, b[1]) /\ Holds(res, b[2])
    BY <2>5, <2>6, <2>7, <1>3, <1>8 DEF Keeps, Holds
  <2>9. \A i \in 1 .. n : i = 1 \/ i = 2 \/ i = 3 BY <1>8
  <2>10. \A k \in Key : k # b[1].key /\ k # b[2].key /\ k # b[3].key
                        => res.ledger[k] = s0.ledger[k]
    BY <2>5, <2>6, <2>7
  <2> QED BY <2>5, <2>8, <2>9, <2>10, <1>2, <1>4, <1>8 DEF Keeps
<1> QED BY <1>5, <1>6, <1>7, <1>8
-----------------------------------------------------------------------------
(* The batches of the two transactions. *)
SettleKeys(o, p, n) ==
    {<<"order-settlement-debit", o, n>>}
    \cup (IF Cashback(o) > 0 THEN {<<"order-commission", o, n>>} ELSE {})
    \cup (IF HasMargin(o, p) THEN {<<"order-margin", o, n>>} ELSE {})
UnsettleKind == {"order-unsettle-credit-brand", "order-unsettle-debit-buyer",
                 "order-unsettle-debit-mediator"}
UnsettleKeys == UnsettleKind \X Order \X Cycles
ReversalKeys(o, n) == UnsettleKind \X {o} \X {n}

LEMMA EntryType ==
    ASSUME NEW op \in {"credit", "debit"}, NEW kind \in Kind, NEW o \in Order,
           NEW n \in Cycles, NEW type \in L!TransactionType, NEW w \in Owner, NEW a \in Int
    PROVE  /\ Entry(op, kind, o, n, type, w, a) \in L!Mutation
           /\ Entry(op, kind, o, n, type, w, a).key = <<kind, o, n>>
           /\ Entry(op, kind, o, n, type, w, a).amount = a
  BY DEF Entry, L!Mutation, Key, Cycles

LEMMA Concatenations ==
    ASSUME NEW x, NEW y, NEW z
    PROVE  /\ <<x>> \o <<>> = <<x>> /\ <<x>> \o <<y>> = <<x, y>>
           /\ <<x, y>> \o <<>> = <<x, y>> /\ <<x, y>> \o <<z>> = <<x, y, z>>
<1> DEFINE S == {x, y, z}
<1>1. <<x>> \in Seq(S) /\ <<y>> \in Seq(S) /\ <<z>> \in Seq(S) /\ <<x, y>> \in Seq(S)
  OBVIOUS
<1>2. <<x>> \o <<y>> = <<x, y>>
  <2> DEFINE s == <<x>> \o <<y>>
  <2>1. s \in Seq(S) /\ Len(s) = 2 BY <1>1, ConcatProperties
  <2>2. s[1] = x /\ s[2] = y BY <1>1, ConcatProperties
  <2> HIDE DEF s
  <2>3. s = <<x, y>> BY <2>1, <2>2
  <2> QED BY <2>3 DEF s
<1>3. <<x, y>> \o <<z>> = <<x, y, z>>
  <2> DEFINE s == <<x, y>> \o <<z>>
  <2>1. s \in Seq(S) /\ Len(s) = 3 BY <1>1, ConcatProperties
  <2>2. s[1] = x /\ s[2] = y /\ s[3] = z BY <1>1, ConcatProperties
  <2> HIDE DEF s
  <2>3. s = <<x, y, z>> BY <2>1, <2>2
  <2> QED BY <2>3 DEF s
<1>4. <<x>> \o <<>> = <<x>> /\ <<x, y>> \o <<>> = <<x, y>> BY <1>1
<1> QED BY <1>2, <1>3, <1>4

LEMMA Names ==
    /\ "order-settlement-debit" \in Kind /\ "order-commission" \in Kind
    /\ "order-margin" \in Kind /\ UnsettleKind \subseteq Kind
    /\ "order-unsettle-credit-brand" \in UnsettleKind
    /\ "order-unsettle-debit-buyer" \in UnsettleKind
    /\ "order-unsettle-debit-mediator" \in UnsettleKind
    /\ "order_settlement_debit" \in L!TransactionType
    /\ "commission_settle" \in L!TransactionType /\ "refund" \in L!TransactionType
    /\ "commission_reversal" \in L!TransactionType /\ "margin_reversal" \in L!TransactionType
  BY DEF Kind, UnsettleKind, L!TransactionType

LEMMA Parties ==
    ASSUME NEW o \in Order
    PROVE  /\ Brand[o] \in Owner /\ Buyer[o] \in Owner
           /\ Cashback(o) \in Nat
           /\ \A p : HasMargin(o, p) => Mediator[o] \in Owner
  BY SettlementAssumption DEF Cashback, HasMargin

LEMMA SettleBatchShape ==
    ASSUME NEW o \in Order, NEW p \in Nat, NEW n \in Cycles
    PROVE  \E size \in 1 .. 3 :
              LET b == SettleBatch(o, p, n)
              IN  /\ Small(b, size)
                  /\ \A i \in 1 .. size : b[i].key \in SettleKeys(o, p, n)
                  /\ b[1].key = <<"order-settlement-debit", o, n>> /\ b[1].amount = p
                  /\ Cashback(o) > 0 =>
                        \E i \in 1 .. size : /\ b[i].key = <<"order-commission", o, n>>
                                             /\ b[i].amount = Cashback(o)
                  /\ HasMargin(o, p) =>
                        \E i \in 1 .. size : /\ b[i].key = <<"order-margin", o, n>>
                                             /\ b[i].amount = p - Cashback(o)
<1> DEFINE D == Entry("debit", "order-settlement-debit", o, n, "order_settlement_debit",
                      Brand[o], p)
           C == Entry("credit", "order-commission", o, n, "commission_settle", Buyer[o],
                      Cashback(o))
           M == Entry("credit", "order-margin", o, n, "commission_settle", Mediator[o],
                      p - Cashback(o))
           b == SettleBatch(o, p, n)
<1>1. D \in L!Mutation /\ D.key = <<"order-settlement-debit", o, n>> /\ D.amount = p
  BY SMTT(30), Parties, EntryType, Names
<1>2. C \in L!Mutation /\ C.key = <<"order-commission", o, n>> /\ C.amount = Cashback(o)
  BY SMTT(30), Parties, EntryType, Names
<1>3. HasMargin(o, p) => /\ M \in L!Mutation /\ M.key = <<"order-margin", o, n>>
                         /\ M.amount = p - Cashback(o)
  <2>1. p - Cashback(o) \in Int BY Parties
  <2> QED BY SMTT(30), <2>1, Parties, EntryType, Names
<1>4. b = <<D>> \o (IF Cashback(o) > 0 THEN <<C>> ELSE <<>>)
               \o (IF HasMargin(o, p) THEN <<M>> ELSE <<>>)
  BY DEF SettleBatch, If
<1> HIDE DEF D, C, M, b
<1>5. CASE Cashback(o) > 0 /\ HasMargin(o, p)
  <2>1. b = <<D, C, M>> BY <1>4, <1>5, Concatenations
  <2>2. Small(b, 3) BY <1>1, <1>2, <1>3, <1>5, <2>1 DEF Small
  <2>3. \A i \in 1 .. 3 : b[i].key \in SettleKeys(o, p, n)
    BY <1>1, <1>2, <1>3, <1>5, <2>1 DEF SettleKeys
  <2>4. /\ 1 \in 1 .. 3 /\ 2 \in 1 .. 3 /\ 3 \in 1 .. 3
        /\ b[1] = D /\ b[2] = C /\ b[3] = M
    BY <2>1
  <2> QED BY <1>1, <1>2, <1>3, <1>5, <2>2, <2>3, <2>4 DEF b
<1>6. CASE Cashback(o) > 0 /\ ~HasMargin(o, p)
  <2>1. b = <<D, C>> BY <1>4, <1>6, Concatenations
  <2>2. Small(b, 2) BY <1>1, <1>2, <2>1 DEF Small
  <2>3. \A i \in 1 .. 2 : b[i].key \in SettleKeys(o, p, n)
    BY <1>1, <1>2, <1>6, <2>1 DEF SettleKeys
  <2>4. 1 \in 1 .. 2 /\ 2 \in 1 .. 2 /\ 2 \in 1 .. 3 /\ b[1] = D /\ b[2] = C BY <2>1
  <2> QED BY <1>1, <1>2, <1>6, <2>2, <2>3, <2>4 DEF b
<1>7. CASE ~(Cashback(o) > 0) /\ HasMargin(o, p)
  <2>1. b = <<D, M>> BY <1>4, <1>7, Concatenations
  <2>2. Small(b, 2) BY <1>1, <1>3, <1>7, <2>1 DEF Small
  <2>3. \A i \in 1 .. 2 : b[i].key \in SettleKeys(o, p, n)
    BY <1>1, <1>3, <1>7, <2>1 DEF SettleKeys
  <2>4. 1 \in 1 .. 2 /\ 2 \in 1 .. 2 /\ 2 \in 1 .. 3 /\ b[1] = D /\ b[2] = M BY <2>1
  <2> QED BY <1>1, <1>3, <1>7, <2>2, <2>3, <2>4 DEF b
<1>8. CASE ~(Cashback(o) > 0) /\ ~HasMargin(o, p)
  <2>1. b = <<D>> BY <1>4, <1>8, Concatenations
  <2>2. Small(b, 1) BY <1>1, <2>1 DEF Small
  <2>3. 1 \in 1 .. 3 /\ b[1].key \in SettleKeys(o, p, n) BY <1>1, <2>1 DEF SettleKeys
  <2> QED BY <1>1, <1>8, <2>1, <2>2, <2>3 DEF b
<1> QED BY <1>5, <1>6, <1>7, <1>8

LEMMA UnsettleBatchShape ==
    ASSUME NEW o \in Order, NEW p \in Nat, NEW n \in Cycles
    PROVE  \E size \in 0 .. 3 :
              LET b == UnsettleBatch(o, p, n)
              IN  Small(b, size) /\ \A i \in 1 .. size : b[i].key \in ReversalKeys(o, n)
<1> DEFINE D == Entry("credit", "order-unsettle-credit-brand", o, n, "refund", Brand[o], p)
           C == Entry("debit", "order-unsettle-debit-buyer", o, n, "commission_reversal",
                      Buyer[o], Cashback(o))
           M == Entry("debit", "order-unsettle-debit-mediator", o, n, "margin_reversal",
                      Mediator[o], p - Cashback(o))
           b == UnsettleBatch(o, p, n)
<1>0. \A kind \in UnsettleKind : <<kind, o, n>> \in ReversalKeys(o, n) /\ kind \in Kind
  BY Names DEF ReversalKeys
<1>1. D \in L!Mutation /\ D.key \in ReversalKeys(o, n)
  <2>1. D \in L!Mutation /\ D.key = <<"order-unsettle-credit-brand", o, n>>
    BY SMTT(30), <1>0, Parties, EntryType, Names
  <2> QED BY <2>1, <1>0, Names
<1>2. C \in L!Mutation /\ C.key \in ReversalKeys(o, n)
  <2>1. C \in L!Mutation /\ C.key = <<"order-unsettle-debit-buyer", o, n>>
    BY SMTT(30), <1>0, Parties, EntryType, Names
  <2> QED BY <2>1, <1>0, Names
<1>3. HasMargin(o, p) => M \in L!Mutation /\ M.key \in ReversalKeys(o, n)
  <2>1. p - Cashback(o) \in Int BY Parties
  <2>2. HasMargin(o, p) => /\ M \in L!Mutation
                           /\ M.key = <<"order-unsettle-debit-mediator", o, n>>
    BY <2>1, <1>0, Parties, EntryType, Names
  <2> QED BY <2>2, <1>0, Names
<1>4. b = <<D>> \o (IF Cashback(o) > 0 THEN <<C>> ELSE <<>>)
               \o (IF HasMargin(o, p) THEN <<M>> ELSE <<>>)
  BY DEF UnsettleBatch, If
<1> HIDE DEF D, C, M, b
<1>5. CASE Cashback(o) > 0 /\ HasMargin(o, p)
  <2>1. b = <<D, C, M>> BY <1>4, <1>5, Concatenations
  <2> QED BY <1>1, <1>2, <1>3, <1>5, <2>1 DEF b, Small
<1>6. CASE Cashback(o) > 0 /\ ~HasMargin(o, p)
  <2>1. b = <<D, C>> BY <1>4, <1>6, Concatenations
  <2> QED BY <1>1, <1>2, <1>6, <2>1 DEF b, Small
<1>7. CASE ~(Cashback(o) > 0) /\ HasMargin(o, p)
  <2>1. b = <<D, M>> BY <1>4, <1>7, Concatenations
  <2> QED BY <1>1, <1>3, <1>7, <2>1 DEF b, Small
<1>8. CASE ~(Cashback(o) > 0) /\ ~HasMargin(o, p)
  <2>1. b = <<D>> BY <1>4, <1>8, Concatenations
  <2> QED BY <1>1, <1>8, <2>1 DEF b, Small
<1> QED BY <1>5, <1>6, <1>7, <1>8
-----------------------------------------------------------------------------
(* The three rows of a settlement are posted together, and the credits of   *)
(* the buyer and the mediator share out the debit.                          *)
MatchedAt(led, o, n) ==
    LET d == led[<<"order-settlement-debit", o, n>>]
        c == led[<<"order-commission", o, n>>]
        m == led[<<"order-margin", o, n>>]
    IN  /\ d = NoEntry => c = NoEntry /\ m = NoEntry
        /\ d # NoEntry =>
              /\ IF Cashback(o) > 0 THEN c # NoEntry /\ c.amount = Cashback(o) ELSE c = NoEntry
              /\ IF d.amount > Cashback(o)
                 THEN m # NoEntry /\ m.amount = d.amount - Cashback(o)
                 ELSE m = NoEntry /\ d.amount = Cashback(o)
Matched(led) == \A o \in Order, n \in Cycles : MatchedAt(led, o, n)

MediatorsExist == \A o \in Order : Mediator[o] # NoMediator

LEMMA Keys ==
    ASSUME NEW o \in Order, NEW n \in Cycles
    PROVE  /\ <<"order-settlement-debit", o, n>> \in Key
           /\ <<"order-commission", o, n>> \in Key
           /\ <<"order-margin", o, n>> \in Key
  BY Names DEF Key, Cycles

LEMMA SettlePosts ==
    ASSUME NEW wal \in Wallets, NEW led \in Ledgers,
           NEW o \in Order, NEW p \in Nat, NEW n \in Cycles, Cashback(o) <= p,
           NEW res, res = L!ApplyBatch(wal, led, SettleBatch(o, p, n)), res.ok
    PROVE  /\ res.wallet \in Wallets /\ res.ledger \in Ledgers
           /\ Grows(led, res.ledger)
           /\ res.ledger[<<"order-settlement-debit", o, n>>] # NoEntry
           /\ MediatorsExist /\ Matched(led) => Matched(res.ledger)
<1> DEFINE b == SettleBatch(o, p, n)
           new == res.ledger
           dk == <<"order-settlement-debit", o, n>>
           ck == <<"order-commission", o, n>>
           mk == <<"order-margin", o, n>>
<1>1. PICK size \in 1 .. 3 :
          /\ Small(b, size)
          /\ \A i \in 1 .. size : b[i].key \in SettleKeys(o, p, n)
          /\ b[1].key = dk /\ b[1].amount = p
          /\ Cashback(o) > 0 => \E i \in 1 .. size : b[i].key = ck /\ b[i].amount = Cashback(o)
          /\ HasMargin(o, p) =>
                \E i \in 1 .. size : b[i].key = mk /\ b[i].amount = p - Cashback(o)
  BY SettleBatchShape, Zenon
<1> HIDE DEF b
<1>2. /\ res.wallet \in Wallets /\ new \in Ledgers
      /\ Grows(led, new)
      /\ \A i \in 1 .. size : Holds(res, b[i])
      /\ \A k \in Key : (\A i \in 1 .. size : k # b[i].key) => new[k] = led[k]
  <2>1. res = L!ApplyBatch(wal, led, b) BY DEF b
  <2>2. Written(led, b, size, res) BY <1>1, <2>1, BatchWrites, Zenon
  <2> QED BY <2>2 DEF Written
<1>3. new[dk] # NoEntry /\ new[dk].amount = p BY <1>1, <1>2 DEF Holds
<1>4. ASSUME MediatorsExist, Matched(led), NEW q \in Order, NEW i \in Cycles
      PROVE  MatchedAt(new, q, i)
  <2>1. CASE q = o /\ i = n
    <3>0. MatchedAt(led, o, n) BY <1>4 DEF Matched
    <3>1. Cashback(o) > 0 => new[ck] # NoEntry /\ new[ck].amount = Cashback(o)
      BY <1>1, <1>2 DEF Holds
    <3>2. p > Cashback(o) => new[mk] # NoEntry /\ new[mk].amount = p - Cashback(o)
      BY <1>1, <1>2, <1>4 DEF Holds, HasMargin, MediatorsExist
    <3>3. led[dk] # NoEntry => led[dk].amount = p BY <1>2, <1>3, Keys DEF Grows
    <3>4. dk # ck /\ dk # mk /\ ck # mk OBVIOUS
    <3>5. Cashback(o) = 0 => new[ck] = NoEntry
      <4>1. led[ck] = NoEntry \/ Cashback(o) > 0 BY <3>0 DEF MatchedAt
      <4>2. Cashback(o) = 0 => ck \notin SettleKeys(o, p, n) BY DEF SettleKeys
      <4>3. Cashback(o) = 0 => new[ck] = led[ck] BY <1>1, <1>2, <4>2, Keys
      <4> QED BY <4>1, <4>3, Parties
    <3>6. p = Cashback(o) => new[mk] = NoEntry
      <4>1. p = Cashback(o) => led[mk] = NoEntry BY <3>0, <3>3, Parties DEF MatchedAt
      <4>2. p = Cashback(o) => mk \notin SettleKeys(o, p, n)
        BY Parties DEF SettleKeys, HasMargin
      <4>3. p = Cashback(o) => new[mk] = led[mk] BY <1>1, <1>2, <4>2, Keys
      <4> QED BY <4>1, <4>3
    <3>7. p > Cashback(o) \/ p = Cashback(o) BY Parties
    <3>8. Cashback(o) > 0 \/ Cashback(o) = 0 BY Parties
    <3> QED BY <1>3, <2>1, <3>1, <3>2, <3>5, <3>6, <3>7, <3>8, Parties DEF MatchedAt
  <2>2. CASE ~(q = o /\ i = n)
    <3>1. \A kind : <<kind, q, i>> \notin SettleKeys(o, p, n) BY <2>2 DEF SettleKeys
    <3>2. \A k \in Key : k \notin SettleKeys(o, p, n) => new[k] = led[k] BY <1>1, <1>2
    <3>3. /\ new[<<"order-settlement-debit", q, i>>] = led[<<"order-settlement-debit", q, i>>]
          /\ new[<<"order-commission", q, i>>] = led[<<"order-commission", q, i>>]
          /\ new[<<"order-margin", q, i>>] = led[<<"order-margin", q, i>>]
      BY <3>1, <3>2, Keys
    <3>4. MatchedAt(led, q, i) BY <1>4 DEF Matched
    <3> QED BY <3>3, <3>4 DEF MatchedAt
  <2> QED BY <2>1, <2>2
<1> QED BY <1>2, <1>3, <1>4 DEF Matched

LEMMA UnsettlePosts ==
    ASSUME NEW wal \in Wallets, NEW led \in Ledgers, NEW b, NEW size, Small(b, size),
           \A i \in 1 .. size : b[i].key \in UnsettleKeys,
           NEW res, res = L!ApplyBatch(wal, led, b), res.ok
    PROVE  /\ res.wallet \in Wallets /\ res.ledger \in Ledgers
           /\ Grows(led, res.ledger)
           /\ Matched(led) => Matched(res.ledger)
<1>1. /\ res.wallet \in Wallets /\ res.ledger \in Ledgers
      /\ Grows(led, res.ledger)
      /\ \A k \in Key : (\A i \in 1 .. size : k # b[i].key) => res.ledger[k] = led[k]
  <2>1. Written(led, b, size, res) BY BatchWrites, Zenon
  <2> QED BY <2>1 DEF Written
<1>2. ASSUME Matched(led), NEW q \in Order, NEW i \in Cycles PROVE MatchedAt(res.ledger, q, i)
  <2>1. /\ <<"order-settlement-debit", q, i>> \notin UnsettleKeys
        /\ <<"order-commission", q, i>> \notin UnsettleKeys
        /\ <<"order-margin", q, i>> \notin UnsettleKeys
    BY DEF UnsettleKeys, UnsettleKind
  <2>2. \A k \in Key : k \notin UnsettleKeys => res.ledger[k] = led[k] BY <1>1
  <2>3. MatchedAt(led, q, i) BY <1>2 DEF Matched
  <2> QED BY <2>1, <2>2, <2>3, Keys DEF MatchedAt
<1> QED BY <1>1, <1>2 DEF Matched
-----------------------------------------------------------------------------
(* The inductive invariant: types, and what a handler carries.              *)
Row == [wf : {"APPROVED", "REWARD_PENDING", "COMPLETED", "FAILED"}, frozen : BOOLEAN,
        pay : {"Pending", "Paid", "Failed"},
        aff : {"Pending_Cooling", "Approved_Settled", "Cap_Exceeded", "Frozen_Disputed"},
        mode : {"wallet", "external"}, cycle : Cycles]
Settling == [pc : {"wallet", "commit", "overlimit"}, o : Order, cycle : 0 .. MaxCycle - 1,
             payout : Nat]
Path == {<<"APPROVED", "REWARD_PENDING", last>> : last \in {"COMPLETED", "FAILED"}}
        \cup {<<"REWARD_PENDING", last>> : last \in {"COMPLETED", "FAILED"}}
Offered(o, p) == o \in Order /\ p \in Payouts[o]
Reversal(b) == b = <<>> \/ \E o, p : Offered(o, p) /\ \E n \in Cycles : b = UnsettleBatch(o, p, n)
Reversals ==
    {b \in {UnsettleBatch(o, p, n) : o \in Order, p \in Nat, n \in Cycles} \cup {<<>>} : Reversal(b)}
Call == {Idle}
        \cup [pc : {"dispute", "reactivate"}, o : Order, cycle : Cycles]
        \cup {k \in Settling : Cashback(k.o) <= k.payout}
        \cup [pc : {"external"}, o : Order, cycle : 0 .. MaxCycle - 1, payout : Nat]
        \cup [pc : {"next"}, o : Order, path : Path]
        \cup [pc : {"move"}, o : Order, path : Path, cycle : Cycles]
        \cup [pc : {"unsettle"}, o : Order, cycle : Cycles, batch : Reversals]

Types == /\ order \in [Order -> Row]
         /\ payout \in [Order -> Nat] /\ \A o \in Order : payout[o] \in Payouts[o]
         /\ ticket \subseteq Order
         /\ call \in [Caller -> Call]
         /\ wallet \in Wallets /\ ledger \in Ledgers

Kept == Types' /\ (MediatorsExist /\ Matched(ledger) => Matched(ledger'))

LEMMA CallFields ==
    ASSUME NEW k \in Call, k # Idle
    PROVE  /\ k.o \in Order
           /\ k.pc \in {"dispute", "reactivate"} => k.cycle \in Cycles
           /\ k.pc \in {"wallet", "commit", "overlimit"} => k \in Settling /\ Cashback(k.o) <= k.payout
           /\ k.pc = "external" => k.cycle \in 0 .. MaxCycle - 1
           /\ k.pc \in {"next", "move"} => k.path \in Path
           /\ k.pc = "move" => k.cycle \in Cycles
           /\ k.pc = "unsettle" => k.cycle \in Cycles /\ k.batch \in Reversals
  BY DEF Call, Settling, Idle

LEMMA CycleRange == \A n \in 0 .. MaxCycle - 1 : n \in Cycles /\ n + 1 \in Cycles
  BY SettlementAssumption DEF Cycles

LEMMA IdleIsCall == Idle \in Call BY DEF Call

(* A step of a handler that moves no money. *)
LEMMA MovesNoMoney ==
    ASSUME Types, NEW c \in Caller, NEW d \in Call, Goto(c, d),
           UNCHANGED <<payout, ticket, wallet, ledger>>,
           NEW o \in Order, NEW row \in Row,
           order' = [order EXCEPT ![o] = row]
    PROVE  Kept
<1>1. call' \in [Caller -> Call] BY DEF Types, Goto
<1>2. order' \in [Order -> Row] BY DEF Types
<1>3. Types' BY <1>1, <1>2 DEF Types
<1> QED BY <1>3 DEF Kept

LEMMA Reads ==
    ASSUME Types, NEW c \in Caller, NEW d \in Call, Goto(c, d),
           UNCHANGED <<order, payout, ticket, wallet, ledger>>
    PROVE  Kept
<1>1. call' \in [Caller -> Call] BY DEF Types, Goto
<1>2. Types' BY <1>1 DEF Types
<1> QED BY <1>2 DEF Kept
-----------------------------------------------------------------------------
LEMMA PathFields ==
    ASSUME NEW path \in Path
    PROVE  /\ path[2] \in {"REWARD_PENDING", "COMPLETED", "FAILED"}
           /\ Len(path) # 2 => Tail(path) \in Path
<1>1. CASE path \in {<<"APPROVED", "REWARD_PENDING", last>> : last \in {"COMPLETED", "FAILED"}}
  <2>1. PICK last \in {"COMPLETED", "FAILED"} : path = <<"APPROVED", "REWARD_PENDING", last>>
    BY <1>1
  <2>2. Tail(path) = <<"REWARD_PENDING", last>> BY <2>1
  <2> QED BY <2>1, <2>2 DEF Path
<1>2. CASE path \in {<<"REWARD_PENDING", last>> : last \in {"COMPLETED", "FAILED"}}
  BY <1>2
<1> QED BY <1>1, <1>2 DEF Path

LEMMA TransitionsType ==
    ASSUME NEW o \in Order, NEW last \in {"COMPLETED", "FAILED"}
    PROVE  Transitions(o, last) \in Call
<1>1. <<"APPROVED", "REWARD_PENDING", last>> \in Path BY DEF Path
<1> QED BY <1>1 DEF Transitions, Call

LEMMA SettledRowType ==
    ASSUME Types, NEW o \in Order, NEW mode \in {"wallet", "external"},
           NEW n \in 0 .. MaxCycle - 1
    PROVE  /\ SettledRow(o, mode, n) \in Row
           /\ SettledRow(o, mode, n).pay = "Paid" /\ SettledRow(o, mode, n).mode = mode
<1>1. order[o] \in Row /\ n + 1 \in Cycles BY CycleRange DEF Types
<1> QED BY <1>1 DEF SettledRow, Row

LEMMA SettleReadStep ==
    ASSUME Types, NEW c \in Caller, NEW o \in Order, NEW mode \in {"wallet", "external"},
           SettleRead(c, o, mode)
    PROVE  Kept
<1>1. order[o].cycle \in 0 .. MaxCycle - 1 /\ order[o].cycle \in Cycles /\ payout[o] \in Nat
  BY SettlementAssumption DEF Types, Row, SettleRead, Cycles
<1> DEFINE dispute == [pc |-> "dispute", o |-> o, cycle |-> order[o].cycle]
           settle == [pc |-> mode, o |-> o, cycle |-> order[o].cycle, payout |-> payout[o]]
<1>2. CASE Goto(c, dispute)
  <2>1. dispute \in Call BY <1>1 DEF Call
  <2> QED BY <1>2, <2>1, Reads DEF SettleRead
<1>3. CASE Goto(c, settle) /\ (mode = "wallet" => Cashback(o) <= payout[o])
  <2>1. settle \in Call BY <1>1, <1>3 DEF Call, Settling
  <2> QED BY <1>3, <2>1, Reads DEF SettleRead
<1> QED BY <1>2, <1>3 DEF SettleRead

LEMMA DisputeWriteStep ==
    ASSUME Types, NEW c \in Caller, DisputeWrite(c) PROVE Kept
<1> DEFINE k == call[c]
           row == [order[k.o] EXCEPT !.aff = "Frozen_Disputed", !.cycle = k.cycle]
<1>1. k \in Call /\ k # Idle BY DEF Types, DisputeWrite, At, Idle
<1>2. k.o \in Order /\ k.cycle \in Cycles /\ order[k.o] \in Row
  BY <1>1, CallFields DEF DisputeWrite, At, Types
<1>3. row \in Row
  BY <1>2 DEF Row
<1>4. order' = [order EXCEPT ![k.o] = row] BY DEF DisputeWrite, Update
<1> HIDE DEF row
<1> QED BY <1>2, <1>3, <1>4, MovesNoMoney, IdleIsCall DEF DisputeWrite

LEMMA SettleGuardStep ==
    ASSUME Types, NEW c \in Caller, SettleGuard(c) PROVE Kept
<1> DEFINE k == call[c]
           pc == IF OverLimit(k.o) THEN "overlimit" ELSE "commit"
           d == [k EXCEPT !.pc = pc]
<1>1. k \in Call /\ k # Idle BY DEF Types, SettleGuard, At, Idle
<1>2. k \in Settling /\ Cashback(k.o) <= k.payout BY <1>1, CallFields DEF SettleGuard, At
<1>3. d \in Settling /\ d.o = k.o /\ d.payout = k.payout BY <1>2 DEF Settling
<1>4. d \in Call BY <1>2, <1>3 DEF Call
<1>5. Goto(c, Idle) \/ Goto(c, d) BY DEF SettleGuard
<1> HIDE DEF d
<1> QED BY <1>4, <1>5, Reads, IdleIsCall DEF SettleGuard

LEMMA SettleCommitStep ==
    ASSUME Types, NEW c \in Caller, SettleCommit(c) PROVE Kept
<1> DEFINE k == call[c]
           b == SettleBatch(k.o, k.payout, k.cycle)
           res == L!ApplyBatch(wallet, ledger, b)
           row == SettledRow(k.o, "wallet", k.cycle)
<1>1. k \in Call /\ k # Idle BY DEF Types, SettleCommit, At, Idle
<1>2. /\ k.o \in Order /\ k.cycle \in 0 .. MaxCycle - 1 /\ k.cycle \in Cycles
      /\ k.payout \in Nat /\ Cashback(k.o) <= k.payout
  BY <1>1, CallFields, CycleRange DEF SettleCommit, At, Settling
<1>3. CASE res.ok
  <2>1. /\ wallet' = res.wallet /\ ledger' = res.ledger
        /\ order' = [order EXCEPT ![k.o] = row]
        /\ Goto(c, Transitions(k.o, "COMPLETED"))
    BY <1>3 DEF SettleCommit
  <2>2. wallet \in Wallets /\ ledger \in Ledgers BY DEF Types
  <2>3. /\ wallet' \in Wallets /\ ledger' \in Ledgers
        /\ Grows(ledger, ledger')
        /\ ledger'[<<"order-settlement-debit", k.o, k.cycle>>] # NoEntry
        /\ MediatorsExist /\ Matched(ledger) => Matched(ledger')
    <3>1. PICK r : r = res OBVIOUS
    <3> HIDE DEF res
    <3>2. r = L!ApplyBatch(wallet, ledger, b) BY <3>1 DEF res
    <3>3. r.ok BY <3>1, <1>3
    <3> QED BY <1>2, <2>1, <2>2, <3>1, <3>2, <3>3, SettlePosts
  <2>4. row \in Row BY <1>2, SettledRowType
  <2>5. order \in [Order -> Row] BY DEF Types
  <2>6. order' \in [Order -> Row] /\ \A q \in Order : q # k.o => order'[q] = order[q]
    <3> HIDE DEF row
    <3> QED BY <2>1, <2>4, <2>5
  <2>7. call' \in [Caller -> Call]
    BY <1>2, <2>1, TransitionsType DEF Goto, Types
  <2>8. Types' BY <2>3, <2>6, <2>7 DEF Types, SettleCommit
  <2> QED BY <2>3, <2>8 DEF Kept
<1>4. CASE ~res.ok
  BY <1>4, Reads, IdleIsCall DEF SettleCommit
<1> QED BY <1>3, <1>4

LEMMA OverLimitWriteStep ==
    ASSUME Types, NEW c \in Caller, OverLimitWrite(c) PROVE Kept
<1> DEFINE k == call[c]
           row == [order[k.o] EXCEPT !.pay = "Failed", !.aff = "Cap_Exceeded",
                                     !.mode = "wallet", !.cycle = k.cycle]
<1>1. k \in Call /\ k # Idle BY DEF Types, OverLimitWrite, At, Idle
<1>2. k.o \in Order /\ k.cycle \in Cycles /\ order[k.o] \in Row
  BY <1>1, CallFields, CycleRange DEF OverLimitWrite, At, Settling, Types
<1>3. row \in Row BY <1>2 DEF Row
<1>4. order' = [order EXCEPT ![k.o] = row] BY DEF OverLimitWrite, Update
<1> HIDE DEF row
<1> QED BY <1>2, <1>3, <1>4, MovesNoMoney, TransitionsType DEF OverLimitWrite

LEMMA ExternalWriteStep ==
    ASSUME Types, NEW c \in Caller, ExternalWrite(c) PROVE Kept
<1> DEFINE k == call[c]
           row == SettledRow(k.o, "external", k.cycle)
<1>1. k \in Call /\ k # Idle BY DEF Types, ExternalWrite, At, Idle
<1>2. k.o \in Order /\ k.cycle \in 0 .. MaxCycle - 1
  BY <1>1, CallFields DEF ExternalWrite, At
<1>3. row \in Row BY <1>2, SettledRowType
<1>4. order' = [order EXCEPT ![k.o] = row] BY DEF ExternalWrite, Update
<1> HIDE DEF row
<1> QED BY <1>2, <1>3, <1>4, MovesNoMoney, TransitionsType DEF ExternalWrite

LEMMA TransitionReadStep ==
    ASSUME Types, NEW c \in Caller, TransitionRead(c) PROVE Kept
<1> DEFINE k == call[c]
           d == [pc |-> "move", o |-> k.o, path |-> k.path, cycle |-> order[k.o].cycle]
<1>1. k \in Call /\ k # Idle BY DEF Types, TransitionRead, At, Idle
<1>2. k.o \in Order /\ k.path \in Path /\ order[k.o].cycle \in Cycles
  BY <1>1, CallFields DEF TransitionRead, At, Types, Row
<1>3. d \in Call BY <1>2 DEF Call
<1>4. Goto(c, Idle) \/ Goto(c, d) BY DEF TransitionRead
<1> HIDE DEF d
<1> QED BY <1>3, <1>4, Reads, IdleIsCall DEF TransitionRead

LEMMA TransitionWriteStep ==
    ASSUME Types, NEW c \in Caller, TransitionWrite(c) PROVE Kept
<1> DEFINE k == call[c]
           row == [order[k.o] EXCEPT !.wf = k.path[2], !.cycle = k.cycle]
           d == IF Len(k.path) = 2 THEN Idle
                ELSE [pc |-> "next", o |-> k.o, path |-> Tail(k.path)]
<1>1. k \in Call /\ k # Idle BY DEF Types, TransitionWrite, At, Idle
<1>2. k.o \in Order /\ k.path \in Path /\ k.cycle \in Cycles /\ order[k.o] \in Row
  BY <1>1, CallFields DEF TransitionWrite, At, Types
<1>3. CASE W!StillAt(k.o, k.path[1])
  <2>1. row \in Row
    BY <1>2, PathFields DEF Row
  <2>2. order' = [order EXCEPT ![k.o] = row] /\ Goto(c, d)
    BY <1>2, <1>3 DEF TransitionWrite, Types
  <2>3. d \in Call BY <1>2, PathFields, IdleIsCall DEF Call
  <2> HIDE DEF row, d
  <2> QED BY <1>2, <2>1, <2>2, <2>3, MovesNoMoney DEF TransitionWrite
<1>4. CASE ~W!StillAt(k.o, k.path[1])
  BY <1>4, Reads, IdleIsCall DEF TransitionWrite
<1> QED BY <1>3, <1>4

LEMMA ReversalsAre ==
    /\ <<>> \in Reversals
    /\ \A o \in Order : \A p \in Payouts[o], n \in Cycles : UnsettleBatch(o, p, n) \in Reversals
<1>1. ASSUME NEW o \in Order, NEW p \in Payouts[o], NEW n \in Cycles
      PROVE  UnsettleBatch(o, p, n) \in Reversals
  <2>1. p \in Nat BY SettlementAssumption
  <2>2. Reversal(UnsettleBatch(o, p, n)) BY DEF Reversal, Offered
  <2> QED BY <2>1, <2>2 DEF Reversals
<1>2. <<>> \in Reversals BY DEF Reversals, Reversal
<1> QED BY <1>1, <1>2

LEMMA UnsettleReadStep ==
    ASSUME Types, NEW c \in Caller, NEW o \in Order, UnsettleRead(c, o) PROVE Kept
<1> DEFINE viaWallet == order[o].aff # "Cap_Exceeded" /\ order[o].mode # "external"
           batch == IF viaWallet THEN UnsettleBatch(o, payout[o], order[o].cycle) ELSE <<>>
           d == [pc |-> "unsettle", o |-> o, cycle |-> order[o].cycle, batch |-> batch]
<1>1. order[o].cycle \in Cycles /\ payout[o] \in Payouts[o] BY DEF Types, Row
<1>2. batch \in Reversals BY <1>1, ReversalsAre
<1>3. Goto(c, d) BY DEF UnsettleRead
<1> HIDE DEF batch
<1>4. d \in Call BY <1>1, <1>2 DEF Call
<1> HIDE DEF d
<1> QED BY <1>3, <1>4, Reads DEF UnsettleRead

LEMMA ReversalShape ==
    ASSUME NEW b \in Reversals
    PROVE  \E size : Small(b, size) /\ \A i \in 1 .. size : b[i].key \in UnsettleKeys
<1>1. CASE b = <<>>
  <2>1. Small(b, 0) BY <1>1 DEF Small
  <2>2. \A i \in 1 .. 0 : b[i].key \in UnsettleKeys OBVIOUS
  <2> QED BY <2>1, <2>2
<1>2. CASE b # <<>>
  <2>1. Reversal(b) BY DEF Reversals
  <2>2. PICK o, p : Offered(o, p) /\ \E n \in Cycles : b = UnsettleBatch(o, p, n)
    BY <1>2, <2>1, Zenon DEF Reversal
  <2>3. o \in Order /\ p \in Nat BY <2>2, SettlementAssumption DEF Offered
  <2>4. \A n \in Cycles : ReversalKeys(o, n) \subseteq UnsettleKeys
    BY <2>3 DEF ReversalKeys, UnsettleKeys
  <2> QED BY <2>2, <2>3, <2>4, UnsettleBatchShape
<1> QED BY <1>1, <1>2

LEMMA UnsettleCommitStep ==
    ASSUME Types, NEW c \in Caller, UnsettleCommit(c) PROVE Kept
<1> DEFINE k == call[c]
           res == L!ApplyBatch(wallet, ledger, k.batch)
           row == UnsettledRow(k.o, k.cycle)
<1>1. k \in Call /\ k # Idle BY DEF Types, UnsettleCommit, At, Idle
<1>2. k.o \in Order /\ k.cycle \in Cycles /\ k.batch \in Reversals /\ order[k.o] \in Row
  BY <1>1, CallFields DEF UnsettleCommit, At, Types
<1>3. CASE res.ok
  <2>1. /\ wallet' = res.wallet /\ ledger' = res.ledger
        /\ order' = [order EXCEPT ![k.o] = row]
    BY <1>3 DEF UnsettleCommit
  <2>2. wallet \in Wallets /\ ledger \in Ledgers BY DEF Types
  <2>3. /\ wallet' \in Wallets /\ ledger' \in Ledgers
        /\ Grows(ledger, ledger')
        /\ Matched(ledger) => Matched(ledger')
    <3>1. PICK r : r = res OBVIOUS
    <3>2. PICK size : Small(k.batch, size)
                      /\ \A i \in 1 .. size : k.batch[i].key \in UnsettleKeys
      BY <1>2, ReversalShape
    <3> HIDE DEF res
    <3>3. r = L!ApplyBatch(wallet, ledger, k.batch) BY <3>1 DEF res
    <3>4. r.ok BY <3>1, <1>3
    <3> HIDE DEF k
    <3> QED BY <2>1, <2>2, <3>1, <3>2, <3>3, <3>4, UnsettlePosts
  <2>4. row \in Row /\ row.pay = "Pending" BY <1>2 DEF UnsettledRow, Row
  <2>5. order \in [Order -> Row] BY DEF Types
  <2>6. /\ order' \in [Order -> Row] /\ order'[k.o] = row
        /\ \A q \in Order : q # k.o => order'[q] = order[q]
    <3> HIDE DEF row
    <3> QED BY <1>2, <2>1, <2>4, <2>5
  <2>7. call' \in [Caller -> Call] BY IdleIsCall DEF UnsettleCommit, Goto, Types
  <2>8. Types' BY <2>3, <2>6, <2>7 DEF Types, UnsettleCommit
  <2> QED BY <2>3, <2>8 DEF Kept
<1>4. CASE ~res.ok
  BY <1>4, Reads, IdleIsCall DEF UnsettleCommit
<1> QED BY <1>3, <1>4

LEMMA ReactivateReadStep ==
    ASSUME Types, NEW c \in Caller, NEW o \in Order, ReactivateRead(c, o) PROVE Kept
<1> DEFINE d == [pc |-> "reactivate", o |-> o, cycle |-> order[o].cycle]
<1>1. d \in Call BY DEF Types, Row, Call
<1> QED BY <1>1, Reads DEF ReactivateRead

LEMMA ReactivateWriteStep ==
    ASSUME Types, NEW c \in Caller, ReactivateWrite(c) PROVE Kept
<1> DEFINE k == call[c]
           row == [order[k.o] EXCEPT !.frozen = FALSE, !.cycle = k.cycle]
<1>1. k \in Call /\ k # Idle BY DEF Types, ReactivateWrite, At, Idle
<1>2. k.o \in Order /\ k.cycle \in Cycles /\ order[k.o] \in Row
  BY <1>1, CallFields DEF ReactivateWrite, At, Types
<1>3. row \in Row
  BY <1>2 DEF Row
<1>4. order' = [order EXCEPT ![k.o] = row] BY DEF ReactivateWrite, Update
<1> HIDE DEF row
<1> QED BY <1>2, <1>3, <1>4, MovesNoMoney, IdleIsCall DEF ReactivateWrite

LEMMA SurroundingsStep == Types /\ Surroundings => Kept
<1> SUFFICES ASSUME Types, NEW o \in Order, Freeze(o) \/ Ticket(o) \/ Republish(o) PROVE Kept
  BY DEF Surroundings
<1>1. CASE Freeze(o)
  <2> DEFINE row == [order[o] EXCEPT !.frozen = TRUE]
  <2>1. order[o] \in Row BY DEF Types
  <2>2. row \in Row BY <2>1 DEF Row
  <2>3. order' = [order EXCEPT ![o] = row] BY <1>1 DEF Freeze, Update
  <2> HIDE DEF row
  <2>4. order' \in [Order -> Row] BY <2>2, <2>3 DEF Types
  <2>5. Types' BY <1>1, <2>4 DEF Freeze, Types
  <2> QED BY <1>1, <2>5 DEF Freeze, Kept
<1>2. CASE Ticket(o)
  <2>1. ticket' \subseteq Order BY <1>2 DEF Ticket, Types
  <2>2. Types' BY <1>2, <2>1 DEF Ticket, Types
  <2> QED BY <1>2, <2>2 DEF Ticket, Kept
<1>3. CASE Republish(o)
  <2>1. PICK p \in Payouts[o] : payout' = [payout EXCEPT ![o] = p] BY <1>3 DEF Republish
  <2>2. p \in Nat BY SettlementAssumption
  <2>3. payout' \in [Order -> Nat] /\ \A q \in Order : payout'[q] \in Payouts[q]
    BY <2>1, <2>2 DEF Types
  <2>4. Types' BY <1>3, <2>3 DEF Republish, Types
  <2> QED BY <1>3, <2>4 DEF Republish, Kept
<1> QED BY <1>1, <1>2, <1>3
-----------------------------------------------------------------------------
LEMMA InitKeeps == Init => Types /\ Matched(ledger)
<1> SUFFICES ASSUME Init PROVE Types /\ Matched(ledger) OBVIOUS
<1>1. \A o \in Order : order[o].pay = "Pending" /\ order[o] \in Row
  BY SettlementAssumption DEF Init, Row, Cycles
<1>2. order \in [Order -> Row] BY <1>1 DEF Init
<1>3. ASSUME NEW o \in Order PROVE Max(Payouts[o]) \in Payouts[o] /\ Max(Payouts[o]) \in Nat
  <2>1. PICK p \in Payouts[o] : \A q \in Payouts[o] : q <= p BY SettlementAssumption
  <2>2. Payouts[o] \subseteq Nat BY SettlementAssumption
  <2>3. \A q \in Payouts[o] : p >= q BY <2>1, <2>2
  <2>4. Max(Payouts[o]) \in Payouts[o] BY <2>1, <2>3, Zenon DEF Max
  <2> QED BY <2>2, <2>4
<1>4. payout \in [Order -> Nat] /\ \A o \in Order : payout[o] \in Payouts[o]
  BY <1>3 DEF Init
<1>5. wallet \in Wallets BY SettlementAssumption DEF Init, Wallets
<1>6. ledger \in Ledgers /\ \A k \in Key : ledger[k] = NoEntry BY DEF Init, Ledgers
<1>7. call \in [Caller -> Call] /\ ticket \subseteq Order BY IdleIsCall DEF Init
<1>8. Types BY <1>2, <1>4, <1>5, <1>6, <1>7 DEF Types
<1>9. Matched(ledger) BY <1>6, Keys DEF Matched, MatchedAt
<1> QED BY <1>1, <1>8, <1>9

LEMMA StepKeeps == Types /\ [Next]_vars => Kept
<1> SUFFICES ASSUME Types, [Next]_vars PROVE Kept OBVIOUS
<1>1. ASSUME NEW c \in Caller, Settle(c) PROVE Kept
  <2>1. CASE \E o \in Order, mode \in {"wallet", "external"} : SettleRead(c, o, mode)
    BY <2>1, SettleReadStep
  <2>2. CASE DisputeWrite(c) \/ SettleGuard(c) \/ SettleCommit(c)
    BY <2>2, DisputeWriteStep, SettleGuardStep, SettleCommitStep
  <2>3. CASE OverLimitWrite(c) \/ ExternalWrite(c)
    BY <2>3, OverLimitWriteStep, ExternalWriteStep
  <2>4. CASE TransitionRead(c) \/ TransitionWrite(c)
    BY <2>4, TransitionReadStep, TransitionWriteStep
  <2> QED BY <1>1, <2>1, <2>2, <2>3, <2>4 DEF Settle
<1>2. ASSUME NEW c \in Caller, Handle(c) PROVE Kept
  <2>1. CASE \E o \in Order : UnsettleRead(c, o) \/ ReactivateRead(c, o)
    BY <2>1, UnsettleReadStep, ReactivateReadStep
  <2>2. CASE UnsettleCommit(c) \/ ReactivateWrite(c)
    BY <2>2, UnsettleCommitStep, ReactivateWriteStep
  <2>3. CASE Crash(c) BY <2>3, Reads, IdleIsCall DEF Crash
  <2> QED BY <1>1, <1>2, <2>1, <2>2, <2>3 DEF Handle
<1>3. CASE UNCHANGED vars BY <1>3 DEF vars, Types, Kept
<1> QED BY <1>2, <1>3, SurroundingsStep DEF Next
-----------------------------------------------------------------------------
(* Orders, wallets, the ledger and the handlers in flight keep their types: *)
(* balances stay within 0 and the ceiling, cycles within their bound,       *)
(* however settlements, reversals and crashes interleave.                   *)
THEOREM SettlementTypes == Spec => []TypeOK
<1>1. Init => Types BY InitKeeps
<1>2. Types /\ [Next]_vars => Types' BY StepKeeps DEF Kept
<1>3. Types => TypeOK
  <2> SUFFICES ASSUME Types PROVE TypeOK OBVIOUS
  <2>1. \A n \in Cycles : n \in 0 .. MaxCycle + 1 BY SettlementAssumption DEF Cycles
  <2>2. order \in [Order -> Row] BY DEF Types
  <2>3. order \in [Order -> [wf : {"APPROVED", "REWARD_PENDING", "COMPLETED", "FAILED"},
                            frozen : BOOLEAN,
                            pay : {"Pending", "Paid", "Failed"},
                            aff : {"Pending_Cooling", "Approved_Settled", "Cap_Exceeded",
                                   "Frozen_Disputed"},
                            mode : {"wallet", "external"},
                            cycle : 0 .. MaxCycle + 1]]
    BY <2>1, <2>2 DEF Row
  <2>4. \A c \in Caller : call[c] = Idle \/ call[c].o \in Order
    BY CallFields DEF Types
  <2>5. \A w \in Owner : wallet[w].available \in 0 .. MaxBalance
    BY DEF Types, Wallets
  <2> QED BY <2>3, <2>4, <2>5 DEF Types, Ledgers, TypeOK
<1> QED BY <1>1, <1>2, <1>3, PTL DEF Spec

(* DATABASE_DOCUMENTATION.md: "Settlement debit from brand matches credit   *)
(* to buyer+mediator".  For orders whose mediator still exists it does, in  *)
(* every cycle of every order and for any payouts and commissions, also     *)
(* when deals are republished between settlements: the three rows of a      *)
(* cycle are posted together, and a second batch under their keys is        *)
(* refused unless it is the same.                                           *)
THEOREM CreditsAreTheDebit == ASSUME MediatorsExist PROVE Spec => []CreditsMatchDebit
<1>1. Init => Types /\ Matched(ledger) BY InitKeeps
<1>2. Types /\ Matched(ledger) /\ [Next]_vars => (Types /\ Matched(ledger))'
  BY StepKeeps, MediatorsExist DEF Kept
<1>3. Types /\ Matched(ledger) => CreditsMatchDebit
  <2> SUFFICES ASSUME Types, Matched(ledger), NEW o \in Order, NEW n \in Cycles
               PROVE  Amount("order-settlement-debit", o, n)
                        = Amount("order-commission", o, n) + Amount("order-margin", o, n)
    BY DEF CreditsMatchDebit
  <2>1. MatchedAt(ledger, o, n) BY DEF Matched
  <2>2. ledger[<<"order-settlement-debit", o, n>>] \in L!Mutation \cup {NoEntry}
    BY Keys DEF Types, Ledgers
  <2>3. ledger[<<"order-settlement-debit", o, n>>] # NoEntry =>
            ledger[<<"order-settlement-debit", o, n>>].amount \in Int
    BY <2>2 DEF L!Mutation
  <2> QED BY <2>1, <2>3, Parties DEF MatchedAt, Amount
<1> QED BY <1>1, <1>2, <1>3, PTL DEF Spec
-----------------------------------------------------------------------------
(* Handlers one at a time, on deals that keep their payout. *)
Sequential ==
    /\ ~Overlap /\ ~CanCrash /\ Caller # {}
    /\ IsFiniteSet(Order) /\ MediatorsExist
    /\ \A o \in Order : \A p, q \in Payouts[o] : p = q
Price(o) == Max(Payouts[o])

(* What an order is between handlers, and under the transitions of one. *)
AtRest(row) ==
    \/ row.wf = "APPROVED" /\ row.pay = "Pending"
    \/ row.wf = "COMPLETED" /\ row.pay = "Paid" /\ row.aff # "Cap_Exceeded"
    \/ row.wf = "FAILED" /\ row.pay = "Failed"
InTransit(row, path) ==
    /\ ~row.frozen /\ row.wf = path[1]
    /\ \/ path[Len(path)] = "COMPLETED" /\ row.pay = "Paid" /\ row.aff # "Cap_Exceeded"
       \/ path[Len(path)] = "FAILED" /\ row.pay = "Failed"

(* What a handler in flight has read is still so. *)
Within(ord, o) ==
    Limit > 0 => ~(Cardinality({q \in Order \ {o} : \/ ord[q].aff = "Approved_Settled"
                                                    \/ ord[q].pay = "Paid"}) >= Limit)
Moves(k) == k.pc \in {"next", "move"}
Knows(k, ord) ==
    /\ k.pc # "next" => k.cycle = ord[k.o].cycle
    /\ k.pc \in {"wallet", "commit", "overlimit", "external"} =>
           ord[k.o].wf = "APPROVED" /\ ~ord[k.o].frozen
    /\ k.pc \in {"wallet", "commit"} => k.payout = Price(k.o)
    /\ k.pc = "commit" => Within(ord, k.o)
    /\ Moves(k) => InTransit(ord[k.o], k.path)
    /\ k.pc = "unsettle" =>
           /\ ord[k.o].pay = "Paid" /\ ord[k.o].wf = "COMPLETED"
           /\ k.batch = IF ord[k.o].mode # "external"
                        THEN UnsettleBatch(k.o, Price(k.o), k.cycle) ELSE <<>>

(* The keys that the next settlement and the next reversal will take. *)
SettleKind == {"order-settlement-debit", "order-commission", "order-margin"}
Fresh(led, row, o) ==
    \A m \in Cycles :
        /\ m >= row.cycle => \A kind \in SettleKind : led[<<kind, o, m>>] = NoEntry
        /\ m > row.cycle \/ (m = row.cycle /\ row.pay = "Paid")
              => \A kind \in UnsettleKind : led[<<kind, o, m>>] = NoEntry
ByWallet(row) == row.pay = "Paid" /\ row.mode = "wallet"
Covered(row, o) == ByWallet(row) => Cashback(o) <= Price(o)

(* The invariant of handlers one at a time: what the one in flight has read *)
(* is still so, and every order it does not move is at rest.                *)
Alone == \A c, d \in Caller : call[c] # Idle /\ call[d] # Idle => c = d
Agrees == \A o \in Order : AtRest(order[o]) \/ \E c \in Caller : Moves(call[c]) /\ call[c].o = o
QInv == /\ Types /\ Alone /\ Agrees
        /\ \A c \in Caller : call[c] # Idle => Knows(call[c], order)
        /\ \A o \in Order : Fresh(ledger, order[o], o) /\ Covered(order[o], o)

Balance == [w \in Owner |-> wallet[w].available]
BookStep == Book!Next \/ (PaidByWallet' = PaidByWallet /\ Balance' = Balance)
-----------------------------------------------------------------------------
(* What a batch of new rows moves. *)
Delta(m, w) == IF w = m.owner THEN L!Signed(m) ELSE 0
One(s, m, r) ==
    /\ r \in State /\ s.ok
    /\ \A w \in Owner : r.wallet[w].available = s.wallet[w].available + Delta(m, w)
    /\ \A k \in Key : k # m.key => r.ledger[k] = s.ledger[k]

LEMMA OneMoves ==
    ASSUME NEW s \in State, NEW m \in L!Mutation, NEW r, r = Step(s, m), r.ok,
           s.ledger[m.key] = NoEntry
    PROVE  One(s, m, r)
<1>1. s.wallet \in Wallets /\ m.owner \in Owner BY DEF State, L!Mutation
<1>2. r.wallet = WalletAfter(s.wallet, m)
  <2>1. s.ledger[m.key] = NoEntry => r.wallet = WalletAfter(s.wallet, m)
    BY StepApplies, ZenonT(60)
  <2> QED BY <2>1
<1>3. r \in State /\ s.ok /\ \A k \in Key : k # m.key => r.ledger[k] = s.ledger[k]
  BY StepWrites
<1>4. \A w \in Owner : s.wallet[w].available \in Int
  BY <1>1, SettlementAssumption DEF Wallets
<1>5. ASSUME NEW w \in Owner
      PROVE  r.wallet[w].available = s.wallet[w].available + Delta(m, w)
  <2>1. CASE w = m.owner BY <1>1, <1>2, <2>1 DEF Wallets, Delta, WalletAfter
  <2>2. CASE w # m.owner
    <3>1. r.wallet[w] = s.wallet[w] BY <1>1, <1>2, <2>2 DEF Wallets, WalletAfter
    <3> QED BY <2>2, <3>1, <1>4 DEF Delta
  <2> QED BY <2>1, <2>2
<1> QED BY <1>3, <1>5 DEF One

If0(cond, n) == IF cond THEN n ELSE 0
Moved3(wal, led, D, C, M, c2, c3, res) ==
    /\ res.wallet \in Wallets /\ res.ledger \in Ledgers
    /\ \A w \in Owner : res.wallet[w].available
                          = wal[w].available + Delta(D, w) + If0(c2, Delta(C, w))
                                                           + If0(c3, Delta(M, w))
    /\ \A k \in Key : k # D.key /\ k # C.key /\ k # M.key => res.ledger[k] = led[k]

LEMMA DeltaType ==
    ASSUME NEW m \in L!Mutation, NEW w PROVE Delta(m, w) \in Int
<1>1. m.amount \in Int /\ m.op \in {"credit", "debit"} BY DEF L!Mutation
<1> QED BY <1>1 DEF Delta, L!Signed

Before(wal, led) == [ok |-> TRUE, wallet |-> wal, ledger |-> led]
LEMMA FoldOfOne ==
    ASSUME NEW wal, NEW led, NEW x
    PROVE  L!ApplyBatch(wal, led, <<x>>) = Step(Before(wal, led), x)
<1>1. PICK b : b = <<x>> OBVIOUS
<1>2. PICK s0 : s0 = [ok |-> TRUE, wallet |-> wal, ledger |-> led] OBVIOUS
<1>3. 1 \in 0 .. 3 /\ DOMAIN b = 1 .. 1 /\ b[1] = x BY <1>1
<1>4. L!ApplyBatch(wal, led, b) = Step(s0, x) BY <1>2, <1>3, FoldOfThree
<1> QED BY <1>1, <1>2, <1>4 DEF Before

LEMMA FoldOfTwo ==
    ASSUME NEW wal, NEW led, NEW x, NEW y
    PROVE  L!ApplyBatch(wal, led, <<x, y>>) = Step(Step(Before(wal, led), x), y)
<1>1. PICK b : b = <<x, y>> OBVIOUS
<1>2. PICK s0 : s0 = [ok |-> TRUE, wallet |-> wal, ledger |-> led] OBVIOUS
<1>3. 2 \in 0 .. 3 /\ DOMAIN b = 1 .. 2 /\ b[1] = x /\ b[2] = y BY <1>1
<1>4. L!ApplyBatch(wal, led, b) = Step(Step(s0, x), y) BY <1>2, <1>3, FoldOfThree
<1> QED BY <1>1, <1>2, <1>4 DEF Before

LEMMA FoldOfAll ==
    ASSUME NEW wal, NEW led, NEW x, NEW y, NEW z
    PROVE  L!ApplyBatch(wal, led, <<x, y, z>>) = Step(Step(Step(Before(wal, led), x), y), z)
<1>1. PICK b : b = <<x, y, z>> OBVIOUS
<1>2. PICK s0 : s0 = [ok |-> TRUE, wallet |-> wal, ledger |-> led] OBVIOUS
<1>3. 3 \in 0 .. 3 /\ DOMAIN b = 1 .. 3 /\ b[1] = x /\ b[2] = y /\ b[3] = z BY <1>1
<1>4. L!ApplyBatch(wal, led, b) = Step(Step(Step(s0, x), y), z) BY <1>2, <1>3, FoldOfThree
<1> QED BY <1>1, <1>2, <1>4 DEF Before

LEMMA BatchMoves ==
    ASSUME NEW wal \in Wallets, NEW led \in Ledgers,
           NEW D \in L!Mutation, NEW C, NEW M, NEW c2 \in BOOLEAN, NEW c3 \in BOOLEAN,
           c2 => C \in L!Mutation, c3 => M \in L!Mutation,
           D.key # C.key, D.key # M.key, C.key # M.key,
           led[D.key] = NoEntry, c2 => led[C.key] = NoEntry, c3 => led[M.key] = NoEntry,
           NEW b, b = <<D>> \o If(c2, C) \o If(c3, M),
           NEW res, res = L!ApplyBatch(wal, led, b), res.ok
    PROVE  Moved3(wal, led, D, C, M, c2, c3, res)
<1>1. PICK s0 \in State : s0 = Before(wal, led) BY DEF State, Before
<1>2. s0.wallet = wal /\ s0.ledger = led BY <1>1 DEF Before
<1>3. \A m \in L!Mutation : m.key \in Key BY DEF L!Mutation
<1>4. \A t \in State : t.wallet \in Wallets /\ t.ledger \in Ledgers BY DEF State
<1>5. \A t \in Wallets : \A w \in Owner : t[w].available \in Int
  BY SettlementAssumption DEF Wallets
<1>6. PICK s1 \in State : s1 = Step(s0, D) BY StepType
<1>7. CASE ~c2 /\ ~c3
  <2>1. b = <<D>>
    <3>1. b = <<D>> \o <<>> \o <<>> BY <1>7 DEF If
    <3> QED BY <3>1, Concatenations
  <2>2. L!ApplyBatch(wal, led, <<D>>) = Step(s0, D) BY <1>1, FoldOfOne, Zenon
  <2>3. res = s1 BY <1>6, <2>1, <2>2
  <2>4. One(s0, D, res) BY <1>2, <1>6, <2>3, OneMoves
  <2>5. \A w \in Owner : Delta(D, w) \in Int BY DeltaType
  <2> QED BY <1>2, <1>4, <1>5, <1>7, <2>4, <2>5 DEF One, Moved3, If0
<1>8. CASE c2 /\ ~c3
  <2>1. b = <<D, C>> BY <1>8, Concatenations DEF If
  <2>2. L!ApplyBatch(wal, led, <<D, C>>) = Step(Step(s0, D), C) BY <1>1, FoldOfTwo
  <2>3. res = Step(s1, C) BY <1>6, <2>1, <2>2
  <2>4. s1.ok BY <1>8, <2>3, StepWrites
  <2>5. One(s0, D, s1) BY <1>2, <1>6, <2>4, OneMoves
  <2>6. s1.ledger[C.key] = NoEntry BY <1>2, <1>3, <1>8, <2>5 DEF One
  <2>7. One(s1, C, res) BY <1>8, <2>3, <2>6, OneMoves
  <2>8. \A w \in Owner : Delta(D, w) \in Int /\ Delta(C, w) \in Int BY <1>8, DeltaType
  <2>9. ASSUME NEW w \in Owner
        PROVE  res.wallet[w].available = wal[w].available + Delta(D, w) + Delta(C, w)
    BY <1>2, <1>4, <1>5, <2>5, <2>7, <2>8 DEF One
  <2>10. ASSUME NEW k \in Key, k # D.key, k # C.key PROVE res.ledger[k] = led[k]
    BY <1>2, <2>5, <2>7, <2>10 DEF One
  <2>11. ASSUME NEW w \in Owner
         PROVE  res.wallet[w].available = wal[w].available + Delta(D, w) + If0(c2, Delta(C, w))
                                                        + If0(c3, Delta(M, w))
    <3>1. wal[w].available \in Int BY <1>5
    <3>2. If0(c2, Delta(C, w)) = Delta(C, w) /\ If0(c3, Delta(M, w)) = 0
      BY <1>8 DEF If0
    <3>3. Delta(D, w) \in Int /\ Delta(C, w) \in Int BY <2>8
    <3>4. res.wallet[w].available = wal[w].available + Delta(D, w) + Delta(C, w) BY <2>9
    <3> QED BY <3>1, <3>2, <3>3, <3>4
  <2>12. res.wallet \in Wallets /\ res.ledger \in Ledgers BY <1>4, <2>7 DEF One
  <2> QED BY <2>10, <2>11, <2>12 DEF Moved3
<1>9. CASE ~c2 /\ c3
  <2>1. b = <<D, M>> BY <1>9, Concatenations DEF If
  <2>2. L!ApplyBatch(wal, led, <<D, M>>) = Step(Step(s0, D), M) BY <1>1, FoldOfTwo
  <2>3. res = Step(s1, M) BY <1>6, <2>1, <2>2
  <2>4. s1.ok BY <1>9, <2>3, StepWrites
  <2>5. One(s0, D, s1) BY <1>2, <1>6, <2>4, OneMoves
  <2>6. s1.ledger[M.key] = NoEntry BY <1>2, <1>3, <1>9, <2>5 DEF One
  <2>7. One(s1, M, res) BY <1>9, <2>3, <2>6, OneMoves
  <2>8. \A w \in Owner : Delta(D, w) \in Int /\ Delta(M, w) \in Int BY <1>9, DeltaType
  <2>9. ASSUME NEW w \in Owner
        PROVE  res.wallet[w].available = wal[w].available + Delta(D, w) + Delta(M, w)
    BY <1>2, <1>4, <1>5, <2>5, <2>7, <2>8 DEF One
  <2>10. ASSUME NEW k \in Key, k # D.key, k # M.key PROVE res.ledger[k] = led[k]
    BY <1>2, <2>5, <2>7, <2>10 DEF One
  <2>11. ASSUME NEW w \in Owner
         PROVE  res.wallet[w].available = wal[w].available + Delta(D, w) + If0(c2, Delta(C, w))
                                                        + If0(c3, Delta(M, w))
    <3>1. wal[w].available \in Int BY <1>5
    <3>2. If0(c3, Delta(M, w)) = Delta(M, w) /\ If0(c2, Delta(C, w)) = 0
      BY <1>9 DEF If0
    <3>3. Delta(D, w) \in Int /\ Delta(M, w) \in Int BY <2>8
    <3>4. res.wallet[w].available = wal[w].available + Delta(D, w) + Delta(M, w) BY <2>9
    <3> QED BY <3>1, <3>2, <3>3, <3>4
  <2>12. res.wallet \in Wallets /\ res.ledger \in Ledgers BY <1>4, <2>7 DEF One
  <2> QED BY <2>10, <2>11, <2>12 DEF Moved3
<1>10. CASE c2 /\ c3
  <2>1. b = <<D, C, M>> BY <1>10, Concatenations DEF If
  <2>2. L!ApplyBatch(wal, led, <<D, C, M>>) = Step(Step(Step(s0, D), C), M)
    BY <1>1, FoldOfAll
  <2>3. PICK s2 \in State : s2 = Step(s1, C) BY <1>10, StepType
  <2>4. res = Step(s2, M) BY <1>6, <2>1, <2>2, <2>3
  <2>5. s2.ok BY <1>10, <2>4, StepWrites
  <2>6. s1.ok BY <1>10, <2>3, <2>5, StepWrites
  <2>7. One(s0, D, s1) BY <1>2, <1>6, <2>6, OneMoves
  <2>8. s1.ledger[C.key] = NoEntry BY <1>2, <1>3, <1>10, <2>7 DEF One
  <2>9. One(s1, C, s2) BY <1>10, <2>3, <2>5, <2>8, OneMoves
  <2>10. s2.ledger[M.key] = NoEntry BY <1>2, <1>3, <1>10, <2>7, <2>9 DEF One
  <2>11. One(s2, M, res) BY <1>10, <2>4, <2>10, OneMoves
  <2>12. \A w \in Owner : Delta(D, w) \in Int /\ Delta(C, w) \in Int /\ Delta(M, w) \in Int
    BY <1>10, DeltaType
  <2>13. ASSUME NEW w \in Owner
         PROVE  res.wallet[w].available = wal[w].available + Delta(D, w) + Delta(C, w) + Delta(M, w)
    <3>1. s1.wallet[w].available = wal[w].available + Delta(D, w) BY <1>2, <2>7 DEF One
    <3>2. s2.wallet[w].available = s1.wallet[w].available + Delta(C, w) BY <2>9 DEF One
    <3>3. res.wallet[w].available = s2.wallet[w].available + Delta(M, w) BY <2>11 DEF One
    <3> QED BY <3>1, <3>2, <3>3
  <2>14. ASSUME NEW k \in Key, k # D.key, k # C.key, k # M.key PROVE res.ledger[k] = led[k]
    BY <1>2, <2>7, <2>9, <2>11, <2>14 DEF One
  <2>15. res.wallet \in Wallets /\ res.ledger \in Ledgers BY <1>4, <2>11 DEF One
  <2>16. \A x : If0(c2, x) = x /\ If0(c3, x) = x BY <1>10 DEF If0
  <2> QED BY <2>13, <2>14, <2>15, <2>16 DEF Moved3
<1> QED BY <1>7, <1>8, <1>9, <1>10
-----------------------------------------------------------------------------
(* A settlement moves the order's shares, a reversal moves them back. *)
LEMMA ShareIs ==
    ASSUME NEW o \in Order, NEW w
    PROVE  Book!Share(o, w) = If0(w = Buyer[o], Cashback(o))
                              + If0(w = Mediator[o], Price(o) - Cashback(o))
                              - If0(w = Brand[o], Price(o))
  BY DEF Book!Share, If0, Price

LEMMA Prices ==
    ASSUME NEW o \in Order PROVE Price(o) \in Payouts[o] /\ Price(o) \in Nat
<1>1. PICK p \in Payouts[o] : \A q \in Payouts[o] : q <= p BY SettlementAssumption
<1>2. Payouts[o] \subseteq Nat BY SettlementAssumption
<1>3. \A q \in Payouts[o] : p >= q BY <1>1, <1>2
<1>4. Max(Payouts[o]) \in Payouts[o] BY <1>1, <1>3, Zenon DEF Max
<1> QED BY <1>2, <1>4 DEF Price

LEMMA EntryFields ==
    ASSUME NEW op, NEW kind, NEW o, NEW n, NEW type, NEW w, NEW a
    PROVE  /\ Entry(op, kind, o, n, type, w, a).key = <<kind, o, n>>
           /\ Entry(op, kind, o, n, type, w, a).owner = w
           /\ L!Signed(Entry(op, kind, o, n, type, w, a)) = IF op = "credit" THEN a ELSE -a
  BY DEF Entry, L!Signed

Shares(wal, new, o) ==
    \A w \in Owner : new[w].available = wal[w].available + Book!Share(o, w)
GivesBack(wal, new, o) ==
    \A w \in Owner : new[w].available = wal[w].available - Book!Share(o, w)
Only(kinds, o, n, led, new) ==
    \A k \in Key : (\A kind \in kinds : k # <<kind, o, n>>) => new[k] = led[k]

LEMMA SettleMoves ==
    ASSUME MediatorsExist, NEW wal \in Wallets, NEW led \in Ledgers,
           NEW o \in Order, NEW n \in Cycles, Cashback(o) <= Price(o),
           \A kind \in SettleKind : led[<<kind, o, n>>] = NoEntry,
           NEW res, res = L!ApplyBatch(wal, led, SettleBatch(o, Price(o), n)), res.ok
    PROVE  /\ res.wallet \in Wallets /\ res.ledger \in Ledgers
           /\ Shares(wal, res.wallet, o)
           /\ Only(SettleKind, o, n, led, res.ledger)
<1> DEFINE p == Price(o)
           D == Entry("debit", "order-settlement-debit", o, n, "order_settlement_debit",
                      Brand[o], p)
           C == Entry("credit", "order-commission", o, n, "commission_settle", Buyer[o],
                      Cashback(o))
           M == Entry("credit", "order-margin", o, n, "commission_settle", Mediator[o],
                      p - Cashback(o))
           c2 == Cashback(o) > 0
           c3 == p > Cashback(o)
           b == SettleBatch(o, p, n)
<1>0. /\ p \in Nat /\ Cashback(o) \in Nat /\ Brand[o] \in Owner /\ Buyer[o] \in Owner
      /\ Mediator[o] \in Owner /\ p - Cashback(o) \in Int
  BY Prices, Parties, SettlementAssumption DEF MediatorsExist
<1>1. HasMargin(o, p) <=> c3 BY DEF HasMargin, MediatorsExist
<1>2. b = <<D>> \o If(c2, C) \o If(c3, M) BY <1>1 DEF SettleBatch, If
<1>3. D \in L!Mutation /\ C \in L!Mutation /\ M \in L!Mutation
  <2>1. \A op \in {"credit", "debit"}, kind \in Kind, type \in L!TransactionType,
            w \in Owner, a \in Int : Entry(op, kind, o, n, type, w, a) \in L!Mutation
    BY EntryType
  <2>2. p \in Int /\ Cashback(o) \in Int BY <1>0
  <2> QED BY <1>0, <2>1, <2>2, Names
<1>4. /\ D.key = <<"order-settlement-debit", o, n>> /\ D.owner = Brand[o] /\ L!Signed(D) = -p
      /\ C.key = <<"order-commission", o, n>> /\ C.owner = Buyer[o] /\ L!Signed(C) = Cashback(o)
      /\ M.key = <<"order-margin", o, n>> /\ M.owner = Mediator[o]
      /\ L!Signed(M) = p - Cashback(o)
  BY EntryFields
<1>5. c2 \in BOOLEAN /\ c3 \in BOOLEAN /\ res = L!ApplyBatch(wal, led, b) OBVIOUS
<1>6. led[D.key] = NoEntry /\ led[C.key] = NoEntry /\ led[M.key] = NoEntry
  BY <1>4 DEF SettleKind
<1>7. D.key # C.key /\ D.key # M.key /\ C.key # M.key BY <1>4
<1> HIDE DEF D, C, M, b, c2, c3
<1>8. Moved3(wal, led, D, C, M, c2, c3, res) BY <1>2, <1>3, <1>5, <1>6, <1>7, BatchMoves, Zenon
<1>9. ASSUME NEW w \in Owner
      PROVE  res.wallet[w].available = wal[w].available + Book!Share(o, w)
  <2>1. res.wallet[w].available = wal[w].available + Delta(D, w) + If0(c2, Delta(C, w))
                                                   + If0(c3, Delta(M, w))
    BY <1>8 DEF Moved3
  <2>2. wal[w].available \in Int BY SettlementAssumption DEF Wallets
  <2>3. Delta(D, w) = -If0(w = Brand[o], p) BY <1>0, <1>4 DEF Delta, If0
  <2>4. If0(c2, Delta(C, w)) = If0(w = Buyer[o], Cashback(o))
    BY <1>0, <1>4 DEF Delta, If0, c2
  <2>5. If0(c3, Delta(M, w)) = If0(w = Mediator[o], p - Cashback(o))
    BY <1>0, <1>4 DEF Delta, If0, c3
  <2>6. /\ If0(w = Brand[o], p) \in Int /\ If0(w = Buyer[o], Cashback(o)) \in Int
        /\ If0(w = Mediator[o], p - Cashback(o)) \in Int
    BY <1>0 DEF If0
  <2> QED BY <2>1, <2>2, <2>3, <2>4, <2>5, <2>6, ShareIs
<1>10. Only(SettleKind, o, n, led, res.ledger) BY <1>4, <1>8 DEF Moved3, Only, SettleKind
<1> QED BY <1>8, <1>9, <1>10 DEF Moved3, Shares

LEMMA UnsettleMoves ==
    ASSUME MediatorsExist, NEW wal \in Wallets, NEW led \in Ledgers,
           NEW o \in Order, NEW n \in Cycles, Cashback(o) <= Price(o),
           \A kind \in UnsettleKind : led[<<kind, o, n>>] = NoEntry,
           NEW res, res = L!ApplyBatch(wal, led, UnsettleBatch(o, Price(o), n)), res.ok
    PROVE  /\ res.wallet \in Wallets /\ res.ledger \in Ledgers
           /\ GivesBack(wal, res.wallet, o)
           /\ Only(UnsettleKind, o, n, led, res.ledger)
<1> DEFINE p == Price(o)
           D == Entry("credit", "order-unsettle-credit-brand", o, n, "refund", Brand[o], p)
           C == Entry("debit", "order-unsettle-debit-buyer", o, n, "commission_reversal",
                      Buyer[o], Cashback(o))
           M == Entry("debit", "order-unsettle-debit-mediator", o, n, "margin_reversal",
                      Mediator[o], p - Cashback(o))
           c2 == Cashback(o) > 0
           c3 == p > Cashback(o)
           b == UnsettleBatch(o, p, n)
<1>0. /\ p \in Nat /\ Cashback(o) \in Nat /\ Brand[o] \in Owner /\ Buyer[o] \in Owner
      /\ Mediator[o] \in Owner /\ p - Cashback(o) \in Int
  BY Prices, Parties, SettlementAssumption DEF MediatorsExist
<1>1. HasMargin(o, p) <=> c3 BY DEF HasMargin, MediatorsExist
<1>2. b = <<D>> \o If(c2, C) \o If(c3, M) BY <1>1 DEF UnsettleBatch, If
<1>3. D \in L!Mutation /\ C \in L!Mutation /\ M \in L!Mutation
  <2>1. \A op \in {"credit", "debit"}, kind \in Kind, type \in L!TransactionType,
            w \in Owner, a \in Int : Entry(op, kind, o, n, type, w, a) \in L!Mutation
    BY EntryType
  <2>2. p \in Int /\ Cashback(o) \in Int BY <1>0
  <2> QED BY <1>0, <2>1, <2>2, Names
<1>4. /\ D.key = <<"order-unsettle-credit-brand", o, n>> /\ D.owner = Brand[o]
      /\ L!Signed(D) = p
      /\ C.key = <<"order-unsettle-debit-buyer", o, n>> /\ C.owner = Buyer[o]
      /\ L!Signed(C) = -Cashback(o)
      /\ M.key = <<"order-unsettle-debit-mediator", o, n>> /\ M.owner = Mediator[o]
      /\ L!Signed(M) = -(p - Cashback(o))
  BY EntryFields
<1>5. c2 \in BOOLEAN /\ c3 \in BOOLEAN /\ res = L!ApplyBatch(wal, led, b) OBVIOUS
<1>6. led[D.key] = NoEntry /\ led[C.key] = NoEntry /\ led[M.key] = NoEntry
  BY <1>4 DEF UnsettleKind
<1>7. D.key # C.key /\ D.key # M.key /\ C.key # M.key BY <1>4
<1> HIDE DEF D, C, M, b, c2, c3
<1>8. Moved3(wal, led, D, C, M, c2, c3, res) BY <1>2, <1>3, <1>5, <1>6, <1>7, BatchMoves, Zenon
<1>9. ASSUME NEW w \in Owner
      PROVE  res.wallet[w].available = wal[w].available - Book!Share(o, w)
  <2>1. res.wallet[w].available = wal[w].available + Delta(D, w) + If0(c2, Delta(C, w))
                                                   + If0(c3, Delta(M, w))
    BY <1>8 DEF Moved3
  <2>2. wal[w].available \in Int BY SettlementAssumption DEF Wallets
  <2>3. Delta(D, w) = If0(w = Brand[o], p) BY <1>0, <1>4 DEF Delta, If0
  <2>4. If0(c2, Delta(C, w)) = -If0(w = Buyer[o], Cashback(o))
    BY <1>0, <1>4 DEF Delta, If0, c2
  <2>5. If0(c3, Delta(M, w)) = -If0(w = Mediator[o], p - Cashback(o))
    BY <1>0, <1>4 DEF Delta, If0, c3
  <2>6. /\ If0(w = Brand[o], p) \in Int /\ If0(w = Buyer[o], Cashback(o)) \in Int
        /\ If0(w = Mediator[o], p - Cashback(o)) \in Int
    BY <1>0 DEF If0
  <2> QED BY <2>1, <2>2, <2>3, <2>4, <2>5, <2>6, ShareIs
<1>10. Only(UnsettleKind, o, n, led, res.ledger) BY <1>4, <1>8 DEF Moved3, Only, UnsettleKind
<1> QED BY <1>8, <1>9, <1>10 DEF Moved3, GivesBack
-----------------------------------------------------------------------------
(* A step of the only handler in flight, which writes one order or none.    *)
Ready(c) == \A d \in Caller : d # c => call[d] = Idle
Writes(o, row) == order' = [order EXCEPT ![o] = row]
Done == QInv' /\ BookStep

LEMMA ReadyWhen ==
    ASSUME QInv, NEW c \in Caller, call[c] # Idle \/ (\A d \in Caller : call[d] = Idle)
    PROVE  Ready(c)
  BY DEF QInv, Alone, Ready

LEMMA RestWhen ==
    ASSUME QInv, NEW c \in Caller, Ready(c), ~Moves(call[c]), NEW o \in Order
    PROVE  AtRest(order[o])
<1>1. ~\E e \in Caller : Moves(call[e]) /\ call[e].o = o BY DEF Ready, Moves, Idle
<1> QED BY <1>1 DEF QInv, Agrees

LEMMA SeqStep ==
    ASSUME QInv, Types', NEW c \in Caller, Ready(c), NEW d \in Call, Goto(c, d),
           NEW o \in Order, NEW row \in Row, Writes(o, row),
           Moves(call[c]) => call[c].o = o,
           AtRest(row) \/ (Moves(d) /\ d.o = o),
           d # Idle => Knows(d, order'),
           Fresh(ledger', row, o), \A q \in Order : q # o => Fresh(ledger', order[q], q),
           Covered(row, o)
    PROVE  QInv'
<1>1. call' = [call EXCEPT ![c] = d] /\ call \in [Caller -> Call] /\ order \in [Order -> Row]
  BY DEF Goto, QInv, Types, Writes
<1>2. call'[c] = d /\ \A e \in Caller : e # c => call'[e] = Idle BY <1>1 DEF Ready
<1>3. order'[o] = row /\ \A q \in Order : q # o => order'[q] = order[q] BY <1>1 DEF Writes
<1>4. Alone' BY <1>2 DEF Alone
<1>5. ASSUME NEW q \in Order
      PROVE  AtRest(order'[q]) \/ \E e \in Caller : Moves(call'[e]) /\ call'[e].o = q
  <2>1. CASE q = o BY <1>2, <1>3, <2>1
  <2>2. CASE q # o
    <3>1. ~\E e \in Caller : Moves(call[e]) /\ call[e].o = q
      <4>1. ASSUME NEW e \in Caller, Moves(call[e]), call[e].o = q PROVE FALSE
        <5>1. e # c BY <4>1, <2>2
        <5>2. call[e] = Idle BY <5>1 DEF Ready
        <5> QED BY <4>1, <5>2 DEF Moves, Idle
      <4> QED BY <4>1
    <3>2. AtRest(order[q]) BY <3>1 DEF QInv, Agrees
    <3> QED BY <1>3, <2>2, <3>2
  <2> QED BY <2>1, <2>2
<1>6. Agrees' BY <1>5 DEF Agrees
<1>7. \A e \in Caller : call'[e] # Idle => Knows(call'[e], order') BY <1>2
<1>8. ASSUME NEW q \in Order PROVE Fresh(ledger', order'[q], q) /\ Covered(order'[q], q)
  <2>1. CASE q = o BY <1>3, <2>1
  <2>2. CASE q # o BY <1>3, <2>2 DEF QInv
  <2> QED BY <2>1, <2>2
<1> QED BY <1>4, <1>6, <1>7, <1>8 DEF QInv

(* A step that leaves the money alone, and whether an order is paid by it.  *)
LEMMA FreshSame ==
    ASSUME NEW led, NEW o \in Order, NEW old, NEW row, Fresh(led, old, o),
           old.cycle \in Int, \/ row.cycle = old.cycle /\ (row.pay = "Paid" => old.pay = "Paid")
                              \/ row.cycle = old.cycle + 1
    PROVE  Fresh(led, row, o)
  BY DEF Fresh, Cycles

LEMMA SamePaid ==
    ASSUME order \in [Order -> Row], NEW o \in Order, NEW row, Writes(o, row),
           ByWallet(row) <=> ByWallet(order[o])
    PROVE  PaidByWallet' = PaidByWallet
<1>1. order'[o] = row /\ \A q \in Order : q # o => order'[q] = order[q] BY DEF Writes
<1>2. \A q \in Order : ByWallet(order'[q]) <=> ByWallet(order[q]) BY <1>1
<1>3. PaidByWallet = {q \in Order : ByWallet(order[q])}
      /\ PaidByWallet' = {q \in Order : ByWallet(order'[q])}
  BY DEF PaidByWallet, ByWallet
<1> QED BY <1>2, <1>3

LEMMA QuietStep ==
    ASSUME QInv, Kept, NEW c \in Caller, Ready(c), NEW d \in Call, Goto(c, d),
           UNCHANGED <<wallet, ledger>>,
           NEW o \in Order, NEW row \in Row, Writes(o, row),
           Moves(call[c]) => call[c].o = o,
           AtRest(row) \/ (Moves(d) /\ d.o = o),
           d # Idle => Knows(d, order'),
           \/ row.cycle = order[o].cycle /\ (row.pay = "Paid" => order[o].pay = "Paid")
           \/ row.cycle = order[o].cycle + 1,
           ByWallet(row) <=> ByWallet(order[o])
    PROVE  Done
<1>1. Types' /\ order \in [Order -> Row] BY DEF Kept, QInv, Types
<1>2. order[o].cycle \in Int BY <1>1, SettlementAssumption DEF Row, Cycles
<1>3. Fresh(ledger, row, o) BY <1>2, FreshSame DEF QInv
<1>4. Covered(row, o) BY DEF QInv, Covered
<1>5. QInv'
  <2>1. Fresh(ledger', row, o) /\ \A q \in Order : q # o => Fresh(ledger', order[q], q)
    BY <1>3 DEF QInv
  <2> QED BY <1>1, <1>4, <2>1, SeqStep
<1>6. PaidByWallet' = PaidByWallet BY <1>1, SamePaid
<1>7. Balance' = Balance BY DEF Balance
<1> QED BY <1>5, <1>6, <1>7 DEF Done, BookStep

(* A step that only reads. *)
LEMMA ReadStep ==
    ASSUME QInv, Kept, NEW c \in Caller, Ready(c), ~Moves(call[c]), NEW d \in Call, Goto(c, d),
           UNCHANGED <<order, wallet, ledger>>, NEW o \in Order,
           d # Idle => Knows(d, order)
    PROVE  Done
<1>1. order \in [Order -> Row] BY DEF QInv, Types
<1>2. PICK row \in Row : row = order[o] BY <1>1
<1>3. Writes(o, row) BY <1>1, <1>2 DEF Writes
<1>4. AtRest(row) BY <1>2, RestWhen
<1> QED BY <1>2, <1>3, <1>4, QuietStep
-----------------------------------------------------------------------------
LEMMA StartsAlone ==
    ASSUME Sequential, NEW c \in Caller, Start(c)
    PROVE  Ready(c) /\ call[c] = Idle /\ ~Moves(call[c])
  BY DEF Sequential, Start, MayStart, Ready, Moves, Idle

LEMMA InFlight ==
    ASSUME QInv, NEW c \in Caller, NEW pc, At(c, pc), pc # "idle", NEW k, k = call[c]
    PROVE  /\ Ready(c) /\ k \in Call /\ k # Idle /\ k.pc = pc /\ Knows(k, order)
           /\ k.o \in Order /\ order[k.o] \in Row
           /\ ~Moves(k) => AtRest(order[k.o])
<1>1. k # Idle /\ k.pc = pc BY DEF At, Idle
<1>2. k \in Call /\ Knows(k, order) BY <1>1 DEF QInv, Types
<1>3. k.o \in Order BY <1>1, <1>2, CallFields
<1>4. Ready(c) BY <1>1, ReadyWhen
<1>5. order[k.o] \in Row BY <1>3 DEF QInv, Types
<1> QED BY <1>1, <1>2, <1>3, <1>4, <1>5, RestWhen

LEMMA FixedPrice ==
    ASSUME Sequential, Types, NEW o \in Order PROVE payout[o] = Price(o)
<1>1. payout[o] \in Payouts[o] BY DEF Types
<1> QED BY <1>1, Prices DEF Sequential

LEMMA WithinIs ==
    ASSUME NEW o \in Order, ~OverLimit(o) PROVE Within(order, o)
<1>1. {q \in Order \ {o} : CountsAsSettled(q)}
        = {q \in Order \ {o} : \/ order[q].aff = "Approved_Settled"
                               \/ order[q].pay = "Paid"}
  BY DEF CountsAsSettled
<1> QED BY <1>1 DEF OverLimit, Within

LEMMA SettleReadIsQuiet ==
    ASSUME Sequential, Types, QInv, NEW c \in Caller, NEW o \in Order,
           NEW mode \in {"wallet", "external"}, SettleRead(c, o, mode)
    PROVE  Done
<1>1. Kept BY SettleReadStep
<1>2. Ready(c) /\ ~Moves(call[c]) BY StartsAlone DEF SettleRead
<1>3. UNCHANGED <<order, wallet, ledger>> BY DEF SettleRead
<1>4. order[o].cycle \in 0 .. MaxCycle - 1 /\ order[o].cycle \in Cycles /\ payout[o] \in Nat
  BY SettlementAssumption DEF Types, Row, SettleRead, Cycles
<1>5. CASE Goto(c, [pc |-> "dispute", o |-> o, cycle |-> order[o].cycle])
  <2>1. PICK d : d = [pc |-> "dispute", o |-> o, cycle |-> order[o].cycle] OBVIOUS
  <2>2. d \in Call BY <1>4, <2>1 DEF Call
  <2>3. Knows(d, order) BY <2>1 DEF Knows, Moves
  <2>4. Goto(c, d) BY <1>5, <2>1
  <2> QED BY <1>1, <1>2, <1>3, <2>2, <2>3, <2>4, ReadStep
<1>6. CASE /\ order[o].wf = "APPROVED" /\ (mode = "wallet" => Cashback(o) <= payout[o])
           /\ Goto(c, [pc |-> mode, o |-> o, cycle |-> order[o].cycle, payout |-> payout[o]])
  <2>1. PICK d : d = [pc |-> mode, o |-> o, cycle |-> order[o].cycle, payout |-> payout[o]]
    OBVIOUS
  <2>2. d \in Call BY <1>4, <1>6, <2>1 DEF Call, Settling
  <2>3. Knows(d, order)
    BY <1>6, <2>1, FixedPrice DEF Knows, Moves, SettleRead, QInv
  <2>4. Goto(c, d) BY <1>6, <2>1
  <2> QED BY <1>1, <1>2, <1>3, <2>2, <2>3, <2>4, ReadStep
<1> QED BY <1>5, <1>6 DEF SettleRead

LEMMA DisputeWriteIsQuiet ==
    ASSUME Types, QInv, NEW c \in Caller, DisputeWrite(c) PROVE Done
<1>1. Kept BY DisputeWriteStep
<1>2. PICK k : k = call[c] OBVIOUS
<1>3. /\ Ready(c) /\ k.pc = "dispute" /\ Knows(k, order) /\ k.o \in Order /\ order[k.o] \in Row
      /\ ~Moves(k) => AtRest(order[k.o])
  BY <1>2, InFlight DEF DisputeWrite
<1>4. PICK row : row = [order[k.o] EXCEPT !.aff = "Frozen_Disputed", !.cycle = k.cycle] OBVIOUS
<1>5. k.cycle = order[k.o].cycle /\ AtRest(order[k.o]) /\ ~Moves(k)
  BY <1>3 DEF Knows, Moves
<1>6. /\ row \in Row /\ row.pay = order[k.o].pay /\ row.mode = order[k.o].mode
      /\ row.wf = order[k.o].wf /\ row.cycle = order[k.o].cycle /\ row.aff = "Frozen_Disputed"
  BY <1>3, <1>4, <1>5 DEF Row
<1>7. AtRest(row) BY <1>5, <1>6 DEF AtRest
<1>8. Writes(k.o, row) BY <1>2, <1>4 DEF DisputeWrite, Update, Writes
<1>9. Goto(c, Idle) /\ UNCHANGED <<wallet, ledger>> BY DEF DisputeWrite
<1> QED BY <1>1, <1>2, <1>3, <1>5, <1>6, <1>7, <1>8, <1>9, QuietStep, IdleIsCall DEF ByWallet

LEMMA SettleGuardIsQuiet ==
    ASSUME Types, QInv, NEW c \in Caller, SettleGuard(c) PROVE Done
<1>1. Kept BY SettleGuardStep
<1>2. PICK k : k = call[c] OBVIOUS
<1>3. /\ Ready(c) /\ k \in Call /\ k # Idle /\ k.pc = "wallet" /\ Knows(k, order)
      /\ k.o \in Order
  BY <1>2, InFlight DEF SettleGuard
<1>4. k \in Settling /\ Cashback(k.o) <= k.payout BY <1>3, CallFields
<1>5. PICK d : d = [k EXCEPT !.pc = IF OverLimit(k.o) THEN "overlimit" ELSE "commit"] OBVIOUS
<1>6. /\ d \in Settling /\ d.o = k.o /\ d.payout = k.payout /\ d.cycle = k.cycle
      /\ d.pc = IF OverLimit(k.o) THEN "overlimit" ELSE "commit"
  BY <1>4, <1>5 DEF Settling
<1>7. d \in Call BY <1>4, <1>6 DEF Call
<1>8. Knows(d, order) BY <1>3, <1>6, WithinIs DEF Knows, Moves
<1>9. Goto(c, Idle) \/ Goto(c, d) BY <1>2, <1>5 DEF SettleGuard
<1>10. UNCHANGED <<order, wallet, ledger>> /\ ~Moves(call[c]) BY <1>2, <1>3 DEF SettleGuard, Moves
<1> QED BY <1>1, <1>3, <1>7, <1>8, <1>9, <1>10, ReadStep, IdleIsCall

LEMMA OverLimitWriteIsQuiet ==
    ASSUME Types, QInv, NEW c \in Caller, OverLimitWrite(c) PROVE Done
<1>1. Kept BY OverLimitWriteStep
<1>2. PICK k : k = call[c] OBVIOUS
<1>3. /\ Ready(c) /\ k.pc = "overlimit" /\ Knows(k, order) /\ k.o \in Order /\ order[k.o] \in Row
      /\ ~Moves(k) => AtRest(order[k.o])
  BY <1>2, InFlight DEF OverLimitWrite
<1>4. PICK row : row = [order[k.o] EXCEPT !.pay = "Failed", !.aff = "Cap_Exceeded",
                                          !.mode = "wallet", !.cycle = k.cycle] OBVIOUS
<1>5. /\ k.cycle = order[k.o].cycle /\ AtRest(order[k.o]) /\ ~Moves(k)
      /\ order[k.o].wf = "APPROVED" /\ ~order[k.o].frozen
  BY <1>3 DEF Knows, Moves
<1>6. /\ row \in Row /\ row.pay = "Failed" /\ row.wf = "APPROVED" /\ ~row.frozen
      /\ row.cycle = order[k.o].cycle
  BY <1>3, <1>4, <1>5 DEF Row
<1>7. order[k.o].pay = "Pending" BY <1>5 DEF AtRest
<1>8. PICK d : d = Transitions(k.o, "FAILED") OBVIOUS
<1>9. /\ d \in Call /\ d.pc = "next" /\ d.o = k.o
      /\ d.path = <<"APPROVED", "REWARD_PENDING", "FAILED">>
  BY <1>3, <1>8, TransitionsType DEF Transitions
<1>10. Writes(k.o, row) /\ Goto(c, d) /\ UNCHANGED <<wallet, ledger>>
  BY <1>2, <1>4, <1>8 DEF OverLimitWrite, Update, Writes
<1>11. order'[k.o] = row BY <1>3, <1>10 DEF QInv, Types, Writes
<1>12. Knows(d, order') BY <1>6, <1>9, <1>11 DEF Knows, Moves, InTransit
<1>13. Moves(d) BY <1>9 DEF Moves
<1> QED
  BY <1>1, <1>2, <1>3, <1>5, <1>6, <1>7, <1>9, <1>10, <1>12, <1>13, QuietStep DEF ByWallet

LEMMA ExternalWriteIsQuiet ==
    ASSUME Types, QInv, NEW c \in Caller, ExternalWrite(c) PROVE Done
<1>1. Kept BY ExternalWriteStep
<1>2. PICK k : k = call[c] OBVIOUS
<1>3. /\ Ready(c) /\ k \in Call /\ k # Idle /\ k.pc = "external" /\ Knows(k, order)
      /\ k.o \in Order /\ order[k.o] \in Row /\ (~Moves(k) => AtRest(order[k.o]))
  BY <1>2, InFlight DEF ExternalWrite
<1>4. PICK row : row = SettledRow(k.o, "external", k.cycle) OBVIOUS
<1>5. /\ k.cycle = order[k.o].cycle /\ AtRest(order[k.o]) /\ ~Moves(k)
      /\ order[k.o].wf = "APPROVED" /\ ~order[k.o].frozen /\ k.cycle \in 0 .. MaxCycle - 1
  BY <1>3, CallFields DEF Knows, Moves
<1>6. /\ row \in Row /\ row.pay = "Paid" /\ row.mode = "external"
  BY <1>3, <1>4, <1>5, SettledRowType
<1>7. /\ row.wf = "APPROVED" /\ ~row.frozen /\ row.cycle = order[k.o].cycle + 1
      /\ row.aff = "Approved_Settled"
  BY <1>3, <1>4, <1>5 DEF Row, SettledRow
<1>8. PICK d : d = Transitions(k.o, "COMPLETED") OBVIOUS
<1>9. /\ d \in Call /\ d.pc = "next" /\ d.o = k.o
      /\ d.path = <<"APPROVED", "REWARD_PENDING", "COMPLETED">>
  BY <1>3, <1>8, TransitionsType DEF Transitions
<1>10. Writes(k.o, row) /\ Goto(c, d) /\ UNCHANGED <<wallet, ledger>>
  BY <1>2, <1>4, <1>8 DEF ExternalWrite, Update, Writes
<1>11. order'[k.o] = row BY <1>3, <1>10 DEF QInv, Types, Writes
<1>12. Knows(d, order') BY <1>6, <1>7, <1>9, <1>11 DEF Knows, Moves, InTransit
<1>13. Moves(d) BY <1>9 DEF Moves
<1>14. ByWallet(row) <=> ByWallet(order[k.o]) BY <1>5, <1>6 DEF ByWallet, AtRest
<1> QED
  BY <1>1, <1>2, <1>3, <1>5, <1>6, <1>7, <1>9, <1>10, <1>12, <1>13, <1>14, QuietStep

LEMMA PathShape ==
    ASSUME NEW path \in Path
    PROVE  /\ Len(path) = 2 => path[2] = path[Len(path)]
           /\ Len(path) # 2 => /\ Tail(path)[1] = path[2]
                               /\ Tail(path)[Len(Tail(path))] = path[Len(path)]
<1>1. CASE path \in {<<"APPROVED", "REWARD_PENDING", last>> : last \in {"COMPLETED", "FAILED"}}
  <2>1. PICK last \in {"COMPLETED", "FAILED"} : path = <<"APPROVED", "REWARD_PENDING", last>>
    BY <1>1
  <2>2. Tail(path) = <<"REWARD_PENDING", last>> BY <2>1
  <2> QED BY <2>1, <2>2
<1>2. CASE path \in {<<"REWARD_PENDING", last>> : last \in {"COMPLETED", "FAILED"}}
  BY <1>2
<1> QED BY <1>1, <1>2 DEF Path

LEMMA TransitionReadIsQuiet ==
    ASSUME Types, QInv, NEW c \in Caller, TransitionRead(c) PROVE Done
<1>1. Kept BY TransitionReadStep
<1>2. PICK k : k = call[c] OBVIOUS
<1>3. /\ Ready(c) /\ k \in Call /\ k # Idle /\ k.pc = "next" /\ Knows(k, order)
      /\ k.o \in Order /\ order[k.o] \in Row
  BY <1>2, InFlight DEF TransitionRead
<1>4. Moves(k) /\ InTransit(order[k.o], k.path) BY <1>3 DEF Moves, Knows
<1>5. k.path \in Path /\ order[k.o].cycle \in Cycles BY <1>3, CallFields DEF Row
<1>6. PICK d : d = [pc |-> "move", o |-> k.o, path |-> k.path, cycle |-> order[k.o].cycle]
  OBVIOUS
<1>7. d \in Call /\ Moves(d) /\ d.o = k.o BY <1>3, <1>5, <1>6 DEF Call, Moves
<1>8. W!StillAt(k.o, k.path[1]) BY <1>4 DEF W!StillAt, InTransit
<1>9. Goto(c, d) /\ UNCHANGED <<order, wallet, ledger>>
  BY <1>2, <1>6, <1>8 DEF TransitionRead
<1>10. Knows(d, order') BY <1>4, <1>6, <1>9 DEF Knows, Moves
<1>11. Writes(k.o, order[k.o]) BY <1>9 DEF QInv, Types, Writes
<1> QED BY <1>1, <1>2, <1>3, <1>4, <1>7, <1>9, <1>10, <1>11, QuietStep

LEMMA TransitionWriteIsQuiet ==
    ASSUME Types, QInv, NEW c \in Caller, TransitionWrite(c) PROVE Done
<1>1. Kept BY TransitionWriteStep
<1>2. PICK k : k = call[c] OBVIOUS
<1>3. /\ Ready(c) /\ k \in Call /\ k # Idle /\ k.pc = "move" /\ Knows(k, order)
      /\ k.o \in Order /\ order[k.o] \in Row
  BY <1>2, InFlight DEF TransitionWrite
<1>4. Moves(k) /\ InTransit(order[k.o], k.path) /\ k.cycle = order[k.o].cycle
  BY <1>3 DEF Moves, Knows
<1>5. k.path \in Path BY <1>3, CallFields
<1>6. PICK row : row = [order[k.o] EXCEPT !.wf = k.path[2], !.cycle = k.cycle] OBVIOUS
<1>7. /\ row \in Row /\ row.wf = k.path[2] /\ row.pay = order[k.o].pay
      /\ row.mode = order[k.o].mode /\ row.aff = order[k.o].aff
      /\ row.cycle = order[k.o].cycle /\ row.frozen = order[k.o].frozen
  BY <1>3, <1>4, <1>5, <1>6, PathFields DEF Row
<1>8. PICK d : d = IF Len(k.path) = 2 THEN Idle
                   ELSE [pc |-> "next", o |-> k.o, path |-> Tail(k.path)]
  OBVIOUS
<1>9. W!StillAt(k.o, k.path[1]) BY <1>4 DEF W!StillAt, InTransit
<1>10. Goto(c, d) /\ UNCHANGED <<wallet, ledger>>
  BY <1>2, <1>8, <1>9 DEF TransitionWrite
<1>11. Writes(k.o, row)
  BY <1>2, <1>3, <1>6, <1>9 DEF TransitionWrite, QInv, Types, Writes
<1>12. order'[k.o] = row BY <1>3, <1>11 DEF QInv, Types, Writes
<1>13. CASE Len(k.path) = 2
  <2>1. d = Idle /\ row.wf = k.path[Len(k.path)] BY <1>5, <1>7, <1>8, <1>13, PathShape
  <2>2. AtRest(row) BY <1>4, <1>7, <2>1 DEF InTransit, AtRest
  <2> QED
    BY <1>1, <1>2, <1>3, <1>4, <1>7, <1>10, <1>11, <2>1, <2>2, QuietStep, IdleIsCall
    DEF ByWallet
<1>14. CASE Len(k.path) # 2
  <2>1. /\ d = [pc |-> "next", o |-> k.o, path |-> Tail(k.path)]
        /\ Tail(k.path) \in Path /\ Tail(k.path)[1] = k.path[2]
        /\ Tail(k.path)[Len(Tail(k.path))] = k.path[Len(k.path)]
    BY <1>5, <1>8, <1>14, PathFields, PathShape
  <2>2. d \in Call /\ Moves(d) /\ d.o = k.o BY <1>3, <2>1 DEF Call, Moves
  <2>3. InTransit(row, Tail(k.path)) BY <1>4, <1>7, <2>1 DEF InTransit
  <2>4. Knows(d, order') BY <1>12, <2>1, <2>3 DEF Knows, Moves
  <2> QED
    BY <1>1, <1>2, <1>3, <1>4, <1>7, <1>10, <1>11, <2>2, <2>4, QuietStep DEF ByWallet
<1> QED BY <1>13, <1>14

LEMMA ReactivateReadIsQuiet ==
    ASSUME Sequential, Types, QInv, NEW c \in Caller, NEW o \in Order, ReactivateRead(c, o)
    PROVE  Done
<1>1. Kept BY ReactivateReadStep
<1>2. Ready(c) /\ ~Moves(call[c]) BY StartsAlone DEF ReactivateRead
<1>3. PICK d : d = [pc |-> "reactivate", o |-> o, cycle |-> order[o].cycle] OBVIOUS
<1>4. d \in Call BY <1>3 DEF Types, Row, Call
<1>5. Knows(d, order) BY <1>3 DEF Knows, Moves
<1>6. Goto(c, d) /\ UNCHANGED <<order, wallet, ledger>> BY <1>3 DEF ReactivateRead
<1> QED BY <1>1, <1>2, <1>4, <1>5, <1>6, ReadStep

LEMMA ReactivateWriteIsQuiet ==
    ASSUME Types, QInv, NEW c \in Caller, ReactivateWrite(c) PROVE Done
<1>1. Kept BY ReactivateWriteStep
<1>2. PICK k : k = call[c] OBVIOUS
<1>3. /\ Ready(c) /\ k.pc = "reactivate" /\ Knows(k, order) /\ k.o \in Order
      /\ order[k.o] \in Row /\ (~Moves(k) => AtRest(order[k.o]))
  BY <1>2, InFlight DEF ReactivateWrite
<1>4. k.cycle = order[k.o].cycle /\ AtRest(order[k.o]) /\ ~Moves(k)
  BY <1>3 DEF Knows, Moves
<1>5. PICK row : row = [order[k.o] EXCEPT !.frozen = FALSE, !.cycle = k.cycle] OBVIOUS
<1>6. /\ row \in Row /\ row.pay = order[k.o].pay /\ row.mode = order[k.o].mode
      /\ row.wf = order[k.o].wf /\ row.cycle = order[k.o].cycle /\ row.aff = order[k.o].aff
  BY <1>3, <1>4, <1>5 DEF Row
<1>7. AtRest(row) BY <1>4, <1>6 DEF AtRest
<1>8. Writes(k.o, row) BY <1>2, <1>5 DEF ReactivateWrite, Update, Writes
<1>9. Goto(c, Idle) /\ UNCHANGED <<wallet, ledger>> BY DEF ReactivateWrite
<1> QED BY <1>1, <1>2, <1>3, <1>4, <1>6, <1>7, <1>8, <1>9, QuietStep, IdleIsCall DEF ByWallet

LEMMA SurroundingsAreQuiet ==
    ASSUME Sequential, Types, QInv, NEW c \in Caller,
           NEW o \in Order, Freeze(o) \/ Ticket(o) \/ Republish(o)
    PROVE  Done
<1>1. Kept BY SurroundingsStep DEF Surroundings
<1>2. \A e \in Caller : call[e] = Idle
  BY DEF Sequential, Freeze, Ticket, Republish, MayStart
<1>3. Ready(c) /\ ~Moves(call[c]) BY <1>2 DEF Ready, Moves, Idle
<1>4. Goto(c, Idle) /\ UNCHANGED <<wallet, ledger>>
  <2>1. call' = call BY DEF Freeze, Ticket, Republish
  <2> QED BY <1>2, <2>1 DEF Freeze, Ticket, Republish, Goto, QInv, Types
<1>5. CASE Freeze(o)
  <2>1. PICK row : row = [order[o] EXCEPT !.frozen = TRUE] OBVIOUS
  <2>2. order[o] \in Row /\ AtRest(order[o]) BY <1>3, RestWhen DEF QInv, Types
  <2>3. /\ row \in Row /\ row.pay = order[o].pay /\ row.mode = order[o].mode
        /\ row.wf = order[o].wf /\ row.cycle = order[o].cycle /\ row.aff = order[o].aff
    BY <2>1, <2>2 DEF Row
  <2>4. AtRest(row) BY <2>2, <2>3 DEF AtRest
  <2>5. Writes(o, row) BY <1>5, <2>1 DEF Freeze, Update, Writes
  <2> QED BY <1>1, <1>3, <1>4, <2>3, <2>4, <2>5, QuietStep, IdleIsCall DEF ByWallet
<1>6. CASE Ticket(o)
  BY <1>1, <1>3, <1>4, <1>6, ReadStep, IdleIsCall DEF Ticket
<1>7. CASE Republish(o)
  BY <1>7 DEF Republish, Sequential, QInv, Types
<1> QED BY <1>5, <1>6, <1>7

(* The two commits: an order's money moves with its payment status. *)
LEMMA SettledSet ==
    ASSUME order \in [Order -> Row], NEW o \in Order, NEW row, Writes(o, row), ByWallet(row)
    PROVE  PaidByWallet' = PaidByWallet \cup {o}
<1>1. order'[o] = row /\ \A q \in Order : q # o => order'[q] = order[q] BY DEF Writes
<1>2. PaidByWallet = {q \in Order : ByWallet(order[q])}
      /\ PaidByWallet' = {q \in Order : ByWallet(order'[q])}
  BY DEF PaidByWallet, ByWallet
<1> QED BY <1>1, <1>2

LEMMA UnsettledSet ==
    ASSUME order \in [Order -> Row], NEW o \in Order, NEW row, Writes(o, row), ~ByWallet(row)
    PROVE  PaidByWallet' = PaidByWallet \ {o}
<1>1. order'[o] = row /\ \A q \in Order : q # o => order'[q] = order[q] BY DEF Writes
<1>2. PaidByWallet = {q \in Order : ByWallet(order[q])}
      /\ PaidByWallet' = {q \in Order : ByWallet(order'[q])}
  BY DEF PaidByWallet, ByWallet
<1> QED BY <1>1, <1>2

LEMMA RoomLeft ==
    ASSUME Sequential, NEW o \in Order, o \notin PaidByWallet, Within(order, o)
    PROVE  Limit > 0 => Cardinality(PaidByWallet) < Limit
<1>1. PICK s : s = {q \in Order \ {o} : \/ order[q].aff = "Approved_Settled"
                                        \/ order[q].pay = "Paid"}
  OBVIOUS
<1>2. PaidByWallet \subseteq s BY <1>1 DEF PaidByWallet
<1>3. s \subseteq Order /\ IsFiniteSet(Order) BY <1>1 DEF Sequential
<1>4. IsFiniteSet(s) BY <1>3, FS_Subset
<1>5. IsFiniteSet(PaidByWallet) /\ Cardinality(PaidByWallet) <= Cardinality(s)
  BY <1>2, <1>4, FS_Subset
<1>6. Cardinality(s) \in Nat /\ Cardinality(PaidByWallet) \in Nat
  BY <1>4, <1>5, FS_CardinalityType
<1>7. Limit > 0 => ~(Cardinality(s) >= Limit) BY <1>1 DEF Within
<1> QED BY <1>5, <1>6, <1>7, SettlementAssumption

LEMMA Balances ==
    ASSUME wallet' \in Wallets
    PROVE  /\ \A w \in Owner : wallet'[w].available \in Int /\ wallet'[w].available >= 0
  BY SettlementAssumption DEF Wallets

LEMMA SameCardinality == \A s : Book!Cardinality(s) = Cardinality(s)
  BY DEF Cardinality, Book!Cardinality

LEMMA BookSettles ==
    ASSUME NEW o \in Order, o \notin PaidByWallet,
           Limit > 0 => Cardinality(PaidByWallet) < Limit,
           PaidByWallet' = PaidByWallet \cup {o},
           wallet' \in Wallets, Shares(wallet, wallet', o)
    PROVE  BookStep
<1>1. Book!Settle(o)
  <2>1. [w \in Owner |-> wallet'[w].available]
           = [w \in Owner |-> [v \in Owner |-> wallet[v].available][w] + Book!Share(o, w)]
    BY DEF Shares
  <2> QED BY <2>1, SameCardinality DEF Book!Settle
<1>2. Book!NeverNegative BY Balances DEF Book!NeverNegative
<1> QED BY <1>1, <1>2 DEF BookStep, Book!Next

LEMMA BookUnsettles ==
    ASSUME NEW o \in Order, o \in PaidByWallet,
           PaidByWallet' = PaidByWallet \ {o},
           wallet' \in Wallets, GivesBack(wallet, wallet', o)
    PROVE  BookStep
<1>1. Book!Unsettle(o) BY DEF Book!Unsettle, GivesBack
<1>2. Book!NeverNegative BY Balances DEF Book!NeverNegative
<1> QED BY <1>1, <1>2 DEF BookStep, Book!Next

(* Keys that a batch leaves alone stay free. *)
LEMMA FreshElsewhere ==
    ASSUME NEW led, NEW new, NEW o \in Order, NEW n \in Cycles, NEW kinds,
           Only(kinds, o, n, led, new), NEW q \in Order, q # o, NEW row, Fresh(led, row, q),
           row.cycle \in Int
    PROVE  Fresh(new, row, q)
<1>1. \A kind \in SettleKind \cup UnsettleKind, m \in Cycles :
          /\ <<kind, q, m>> \in Key
          /\ \A other \in kinds : <<kind, q, m>> # <<other, o, n>>
  BY DEF SettleKind, UnsettleKind, Key, Kind, Cycles
<1>2. \A kind \in SettleKind \cup UnsettleKind, m \in Cycles :
          new[<<kind, q, m>>] = led[<<kind, q, m>>]
  BY <1>1 DEF Only
<1> QED BY <1>2 DEF Fresh

LEMMA FreshAfterSettle ==
    ASSUME NEW led, NEW new, NEW o \in Order, NEW n \in Cycles,
           Only(SettleKind, o, n, led, new), NEW old, NEW row, Fresh(led, old, o),
           old.cycle = n, row.cycle = n + 1
    PROVE  Fresh(new, row, o)
<1>1. \A kind \in SettleKind \cup UnsettleKind, m \in Cycles :
          m # n \/ kind \in UnsettleKind =>
              /\ <<kind, o, m>> \in Key
              /\ \A other \in SettleKind : <<kind, o, m>> # <<other, o, n>>
  BY DEF SettleKind, UnsettleKind, Key, Kind, Cycles
<1>2. \A kind \in SettleKind \cup UnsettleKind, m \in Cycles :
          m # n \/ kind \in UnsettleKind => new[<<kind, o, m>>] = led[<<kind, o, m>>]
  BY <1>1 DEF Only
<1>3. ASSUME NEW m \in Cycles, NEW kind \in SettleKind, m >= n + 1
      PROVE  new[<<kind, o, m>>] = NoEntry
  BY <1>2, <1>3 DEF Fresh, Cycles
<1>4. ASSUME NEW m \in Cycles, NEW kind \in UnsettleKind, m >= n + 1
      PROVE  new[<<kind, o, m>>] = NoEntry
  BY <1>2, <1>4 DEF Fresh, Cycles
<1>5. \A m \in Cycles : m > n + 1 \/ m = n + 1 => m >= n + 1 BY DEF Cycles
<1> QED BY <1>3, <1>4, <1>5 DEF Fresh

LEMMA FreshAfterUnsettle ==
    ASSUME NEW led, NEW new, NEW o \in Order, NEW n \in Cycles,
           Only(UnsettleKind, o, n, led, new), NEW old, NEW row, Fresh(led, old, o),
           old.cycle = n, row.cycle = n, row.pay # "Paid"
    PROVE  Fresh(new, row, o)
<1>1. \A kind \in SettleKind \cup UnsettleKind, m \in Cycles :
          m # n \/ kind \in SettleKind =>
              /\ <<kind, o, m>> \in Key
              /\ \A other \in UnsettleKind : <<kind, o, m>> # <<other, o, n>>
  BY DEF SettleKind, UnsettleKind, Key, Kind, Cycles
<1>2. \A kind \in SettleKind \cup UnsettleKind, m \in Cycles :
          m # n \/ kind \in SettleKind => new[<<kind, o, m>>] = led[<<kind, o, m>>]
  BY <1>1 DEF Only
<1>3. ASSUME NEW m \in Cycles, NEW kind \in SettleKind, m >= n
      PROVE  new[<<kind, o, m>>] = NoEntry
  BY <1>2, <1>3 DEF Fresh, Cycles
<1>4. ASSUME NEW m \in Cycles, NEW kind \in UnsettleKind, m > n
      PROVE  new[<<kind, o, m>>] = NoEntry
  BY <1>2, <1>4 DEF Fresh, Cycles
<1> QED BY <1>3, <1>4 DEF Fresh

LEMMA SettleCommitSettles ==
    ASSUME Sequential, Types, QInv, NEW c \in Caller, SettleCommit(c) PROVE Done
<1>1. Kept BY SettleCommitStep
<1>2. PICK k : k = call[c] OBVIOUS
<1>3. /\ Ready(c) /\ k \in Call /\ k # Idle /\ k.pc = "commit" /\ Knows(k, order)
      /\ k.o \in Order /\ order[k.o] \in Row /\ (~Moves(k) => AtRest(order[k.o]))
  BY <1>2, InFlight DEF SettleCommit
<1>4. k \in Settling /\ Cashback(k.o) <= k.payout BY <1>3, CallFields
<1>5. /\ k.cycle \in 0 .. MaxCycle - 1 /\ k.cycle \in Cycles /\ ~Moves(k)
      /\ k.cycle = order[k.o].cycle /\ k.payout = Price(k.o) /\ Within(order, k.o)
      /\ order[k.o].wf = "APPROVED" /\ ~order[k.o].frozen /\ AtRest(order[k.o])
  BY <1>3, <1>4, CycleRange DEF Settling, Knows, Moves
<1>6. order[k.o].pay = "Pending" BY <1>5 DEF AtRest
<1>7. PICK res : res = L!ApplyBatch(wallet, ledger, SettleBatch(k.o, k.payout, k.cycle))
  OBVIOUS
<1>8. CASE ~res.ok
  <2>1. Goto(c, Idle) /\ UNCHANGED <<order, wallet, ledger>>
    BY <1>2, <1>7, <1>8 DEF SettleCommit
  <2> QED BY <1>1, <1>2, <1>3, <1>5, <2>1, ReadStep, IdleIsCall
<1>9. CASE res.ok
  <2>1. PICK row : row = SettledRow(k.o, "wallet", k.cycle) OBVIOUS
  <2>2. PICK d : d = Transitions(k.o, "COMPLETED") OBVIOUS
  <2>3. /\ wallet' = res.wallet /\ ledger' = res.ledger
        /\ Writes(k.o, row) /\ Goto(c, d)
    BY <1>2, <1>7, <1>9, <2>1, <2>2 DEF SettleCommit, Writes
  <2>4. /\ row \in Row /\ row.pay = "Paid" /\ row.mode = "wallet" /\ row.wf = "APPROVED"
        /\ ~row.frozen /\ row.cycle = k.cycle + 1 /\ row.aff = "Approved_Settled"
    <3>1. row \in Row /\ row.pay = "Paid" /\ row.mode = "wallet"
      BY <1>3, <1>5, <2>1, SettledRowType
    <3>2. /\ row.wf = "APPROVED" /\ ~row.frozen /\ row.cycle = k.cycle + 1
          /\ row.aff = "Approved_Settled"
      BY <1>3, <1>5, <2>1 DEF Row, SettledRow
    <3> QED BY <3>1, <3>2
  <2>5. /\ d \in Call /\ d.pc = "next" /\ d.o = k.o
        /\ d.path = <<"APPROVED", "REWARD_PENDING", "COMPLETED">>
    BY <1>3, <2>2, TransitionsType DEF Transitions
  <2>6. order'[k.o] = row /\ order \in [Order -> Row] /\ Types'
    BY <1>1, <1>3, <2>3 DEF QInv, Types, Writes, Kept
  <2>7. Knows(d, order') BY <2>4, <2>5, <2>6 DEF Knows, Moves, InTransit
  <2>8. Moves(d) BY <2>5 DEF Moves
  <2>9. Fresh(ledger, order[k.o], k.o) BY <1>3 DEF QInv
  <2>10. \A kind \in SettleKind : ledger[<<kind, k.o, k.cycle>>] = NoEntry
    BY <1>5, <2>9 DEF Fresh, Cycles
  <2>11. /\ wallet' \in Wallets /\ Shares(wallet, wallet', k.o)
         /\ Only(SettleKind, k.o, k.cycle, ledger, ledger')
    <3>1. wallet \in Wallets /\ ledger \in Ledgers /\ MediatorsExist
      BY DEF QInv, Types, Sequential
    <3>2. Cashback(k.o) <= Price(k.o) BY <1>4, <1>5
    <3>3. res = L!ApplyBatch(wallet, ledger, SettleBatch(k.o, Price(k.o), k.cycle))
      BY <1>5, <1>7
    <3>4. /\ res.wallet \in Wallets /\ Shares(wallet, res.wallet, k.o)
          /\ Only(SettleKind, k.o, k.cycle, ledger, res.ledger)
      BY <1>3, <1>5, <1>9, <2>10, <3>1, <3>2, <3>3, SettleMoves, Zenon
    <3> QED BY <2>3, <3>4
  <2>12. Fresh(ledger', row, k.o) BY <1>3, <1>5, <2>4, <2>9, <2>11, FreshAfterSettle
  <2>13. ASSUME NEW q \in Order, q # k.o PROVE Fresh(ledger', order[q], q)
    <3>1. order[q].cycle \in Int BY <2>6, SettlementAssumption DEF Row, Cycles
    <3>2. Fresh(ledger, order[q], q) BY DEF QInv
    <3> QED BY <1>3, <1>5, <2>11, <2>13, <3>1, <3>2, FreshElsewhere
  <2>14. Covered(row, k.o) BY <1>4, <1>5 DEF Covered
  <2>15. QInv'
    BY <1>2, <1>3, <1>5, <2>3, <2>4, <2>5, <2>6, <2>7, <2>8, <2>12, <2>13, <2>14, SeqStep
  <2>16. PaidByWallet' = PaidByWallet \cup {k.o} /\ k.o \notin PaidByWallet
    <3>1. ByWallet(row) BY <2>4 DEF ByWallet
    <3> QED BY <1>3, <1>6, <2>3, <2>6, <3>1, SettledSet DEF PaidByWallet
  <2>17. Limit > 0 => Cardinality(PaidByWallet) < Limit BY <1>3, <1>5, <2>16, RoomLeft
  <2> QED BY <1>3, <2>11, <2>15, <2>16, <2>17, BookSettles DEF Done
<1> QED BY <1>8, <1>9

LEMMA UnsettleReadIsQuiet ==
    ASSUME Sequential, Types, QInv, NEW c \in Caller, NEW o \in Order, UnsettleRead(c, o)
    PROVE  Done
<1>1. Kept BY UnsettleReadStep
<1>2. Ready(c) /\ ~Moves(call[c]) BY StartsAlone DEF UnsettleRead
<1>3. PICK viaWallet \in BOOLEAN :
          viaWallet <=> order[o].aff # "Cap_Exceeded" /\ order[o].mode # "external"
  OBVIOUS
<1>4. PICK batch : batch = IF viaWallet THEN UnsettleBatch(o, payout[o], order[o].cycle) ELSE <<>>
  OBVIOUS
<1>5. PICK d : d = [pc |-> "unsettle", o |-> o, cycle |-> order[o].cycle, batch |-> batch]
  OBVIOUS
<1>6. Goto(c, d) /\ UNCHANGED <<order, wallet, ledger>>
  BY <1>3, <1>4, <1>5 DEF UnsettleRead
<1>7. order[o].cycle \in Cycles /\ payout[o] \in Nat /\ payout[o] = Price(o)
  BY FixedPrice DEF Types, Row
<1>8. batch \in Reversals
  <2>1. payout[o] \in Payouts[o] BY DEF Types
  <2> QED BY <1>4, <1>7, <2>1, ReversalsAre
<1>9. d \in Call BY <1>5, <1>7, <1>8 DEF Call
<1>10. AtRest(order[o]) BY <1>2, RestWhen
<1>11. order[o].wf = "COMPLETED" /\ order[o].pay = "Paid" /\ order[o].aff # "Cap_Exceeded"
  BY <1>10 DEF AtRest, UnsettleRead
<1>12. batch = IF order[o].mode # "external"
               THEN UnsettleBatch(o, Price(o), order[o].cycle) ELSE <<>>
  BY <1>3, <1>4, <1>7, <1>11
<1>13. Knows(d, order) BY <1>5, <1>11, <1>12 DEF Knows, Moves
<1> QED BY <1>1, <1>2, <1>6, <1>9, <1>13, ReadStep

LEMMA EmptyBatch ==
    ASSUME NEW wal, NEW led
    PROVE  /\ L!ApplyBatch(wal, led, <<>>).wallet = wal
           /\ L!ApplyBatch(wal, led, <<>>).ledger = led
<1>1. PICK b : b = <<>> OBVIOUS
<1>2. PICK s0 : s0 = [ok |-> TRUE, wallet |-> wal, ledger |-> led] OBVIOUS
<1>3. 0 \in 0 .. 3 /\ DOMAIN b = 1 .. 0 BY <1>1
<1>4. L!ApplyBatch(wal, led, b) = s0 BY <1>2, <1>3, FoldOfThree
<1> QED BY <1>1, <1>2, <1>4

LEMMA UnsettleCommitUnsettles ==
    ASSUME Sequential, Types, QInv, NEW c \in Caller, UnsettleCommit(c) PROVE Done
<1>1. Kept BY UnsettleCommitStep
<1>2. PICK k : k = call[c] OBVIOUS
<1>3. /\ Ready(c) /\ k \in Call /\ k # Idle /\ k.pc = "unsettle" /\ Knows(k, order)
      /\ k.o \in Order /\ order[k.o] \in Row /\ (~Moves(k) => AtRest(order[k.o]))
  BY <1>2, InFlight DEF UnsettleCommit
<1>4. /\ k.cycle \in Cycles /\ ~Moves(k) /\ k.cycle = order[k.o].cycle
      /\ order[k.o].pay = "Paid" /\ order[k.o].wf = "COMPLETED"
      /\ k.batch = IF order[k.o].mode # "external"
                   THEN UnsettleBatch(k.o, Price(k.o), k.cycle) ELSE <<>>
  BY <1>3, CallFields DEF Knows, Moves
<1>5. PICK res : res = L!ApplyBatch(wallet, ledger, k.batch) OBVIOUS
<1>6. Goto(c, Idle) BY DEF UnsettleCommit
<1>7. CASE ~res.ok
  <2>1. UNCHANGED <<order, wallet, ledger>> BY <1>2, <1>5, <1>7 DEF UnsettleCommit
  <2> QED BY <1>1, <1>2, <1>3, <1>4, <1>6, <2>1, ReadStep, IdleIsCall
<1>8. CASE res.ok
  <2>1. PICK row : row = UnsettledRow(k.o, k.cycle) OBVIOUS
  <2>2. wallet' = res.wallet /\ ledger' = res.ledger /\ Writes(k.o, row)
    BY <1>2, <1>5, <1>8, <2>1 DEF UnsettleCommit, Writes
  <2>3. /\ row \in Row /\ row.pay = "Pending" /\ row.wf = "APPROVED" /\ row.cycle = k.cycle
    BY <1>3, <1>4, <2>1 DEF UnsettledRow, Row
  <2>4. AtRest(row) /\ ~ByWallet(row) /\ Covered(row, k.o)
    BY <2>3 DEF AtRest, ByWallet, Covered
  <2>5. order \in [Order -> Row] /\ Types' BY <1>1 DEF QInv, Types, Kept
  <2>6. CASE order[k.o].mode = "external"
    <3>1. k.batch = <<>> BY <1>4, <2>6
    <3>2. UNCHANGED <<wallet, ledger>> BY <1>5, <2>2, <3>1, EmptyBatch
    <3>3. ~ByWallet(order[k.o]) BY <2>6 DEF ByWallet
    <3> QED BY <1>1, <1>2, <1>3, <1>4, <1>6, <2>2, <2>3, <2>4, <3>2, <3>3, QuietStep, IdleIsCall
  <2>7. CASE order[k.o].mode # "external"
    <3>1. k.batch = UnsettleBatch(k.o, Price(k.o), k.cycle) /\ ByWallet(order[k.o])
      BY <1>3, <1>4, <2>7 DEF ByWallet, Row
    <3>2. Fresh(ledger, order[k.o], k.o) /\ Cashback(k.o) <= Price(k.o)
      BY <1>3, <3>1 DEF QInv, Covered
    <3>3. \A kind \in UnsettleKind : ledger[<<kind, k.o, k.cycle>>] = NoEntry
      BY <1>4, <3>2 DEF Fresh
    <3>4. /\ wallet' \in Wallets /\ GivesBack(wallet, wallet', k.o)
          /\ Only(UnsettleKind, k.o, k.cycle, ledger, ledger')
      <4>1. wallet \in Wallets /\ ledger \in Ledgers /\ MediatorsExist
        BY DEF QInv, Types, Sequential
      <4>2. res = L!ApplyBatch(wallet, ledger, UnsettleBatch(k.o, Price(k.o), k.cycle))
        BY <1>5, <3>1
      <4>3. /\ res.wallet \in Wallets /\ GivesBack(wallet, res.wallet, k.o)
            /\ Only(UnsettleKind, k.o, k.cycle, ledger, res.ledger)
        BY <1>3, <1>4, <1>8, <3>2, <3>3, <4>1, <4>2, UnsettleMoves, Zenon
      <4> QED BY <2>2, <4>3
    <3>5. Fresh(ledger', row, k.o) BY <1>3, <1>4, <2>3, <3>2, <3>4, FreshAfterUnsettle
    <3>6. ASSUME NEW q \in Order, q # k.o PROVE Fresh(ledger', order[q], q)
      <4>1. order[q].cycle \in Int BY <2>5, SettlementAssumption DEF Row, Cycles
      <4>2. Fresh(ledger, order[q], q) BY DEF QInv
      <4> QED BY <1>3, <1>4, <3>4, <3>6, <4>1, <4>2, FreshElsewhere
    <3>7. QInv'
      BY <1>2, <1>3, <1>4, <1>6, <2>2, <2>3, <2>4, <2>5, <3>5, <3>6, SeqStep, IdleIsCall
    <3>8. PaidByWallet' = PaidByWallet \ {k.o} /\ k.o \in PaidByWallet
      BY <1>3, <2>2, <2>4, <2>5, <3>1, UnsettledSet DEF PaidByWallet, ByWallet
    <3> QED BY <1>3, <3>4, <3>7, <3>8, BookUnsettles DEF Done
  <2> QED BY <2>6, <2>7
<1> QED BY <1>7, <1>8
-----------------------------------------------------------------------------
LEMMA SeqInit == ASSUME Sequential PROVE Init => QInv
<1> SUFFICES ASSUME Init PROVE QInv OBVIOUS
<1>1. Types BY InitKeeps
<1>2. \A o \in Order : order[o].pay = "Pending" /\ order[o].wf = "APPROVED"
  BY DEF Init
<1>3. \A c \in Caller : call[c] = Idle BY DEF Init
<1>4. Alone /\ Agrees BY <1>2, <1>3 DEF Alone, Agrees, AtRest
<1>5. ASSUME NEW o \in Order PROVE Fresh(ledger, order[o], o) /\ Covered(order[o], o)
  <2>1. \A kind \in SettleKind \cup UnsettleKind, m \in Cycles : <<kind, o, m>> \in Key
    BY DEF SettleKind, UnsettleKind, Key, Kind, Cycles
  <2>2. \A kind \in SettleKind \cup UnsettleKind, m \in Cycles : ledger[<<kind, o, m>>] = NoEntry
    BY <2>1 DEF Init
  <2> QED BY <1>2, <2>2 DEF Fresh, Covered, ByWallet
<1> QED BY <1>1, <1>3, <1>4, <1>5 DEF QInv

LEMMA SeqKeeps == ASSUME Sequential PROVE Types /\ QInv /\ [Next]_vars => Done
<1> SUFFICES ASSUME Types, QInv, [Next]_vars PROVE Done OBVIOUS
<1>1. ASSUME NEW c \in Caller, Settle(c) PROVE Done
  <2>1. CASE \E o \in Order, mode \in {"wallet", "external"} : SettleRead(c, o, mode)
    BY <2>1, SettleReadIsQuiet
  <2>2. CASE DisputeWrite(c) \/ SettleGuard(c) \/ OverLimitWrite(c) \/ ExternalWrite(c)
    BY <2>2, DisputeWriteIsQuiet, SettleGuardIsQuiet, OverLimitWriteIsQuiet,
       ExternalWriteIsQuiet
  <2>3. CASE SettleCommit(c) BY <2>3, SettleCommitSettles
  <2>4. CASE TransitionRead(c) \/ TransitionWrite(c)
    BY <2>4, TransitionReadIsQuiet, TransitionWriteIsQuiet
  <2> QED BY <1>1, <2>1, <2>2, <2>3, <2>4 DEF Settle
<1>2. ASSUME NEW c \in Caller, Handle(c) PROVE Done
  <2>1. CASE \E o \in Order : UnsettleRead(c, o) \/ ReactivateRead(c, o)
    BY <2>1, UnsettleReadIsQuiet, ReactivateReadIsQuiet
  <2>2. CASE UnsettleCommit(c) BY <2>2, UnsettleCommitUnsettles
  <2>3. CASE ReactivateWrite(c) BY <2>3, ReactivateWriteIsQuiet
  <2>4. ~Crash(c) BY DEF Crash, Sequential
  <2> QED BY <1>1, <1>2, <2>1, <2>2, <2>3, <2>4 DEF Handle
<1>3. CASE Surroundings
  <2>1. PICK c \in Caller : TRUE BY DEF Sequential
  <2> QED BY <1>3, SurroundingsAreQuiet DEF Surroundings
<1>4. CASE UNCHANGED vars
  <2>1. UNCHANGED <<order, payout, ticket, call, wallet, ledger>> BY <1>4 DEF vars
  <2>2. QInv' BY <2>1 DEF QInv, Types, Alone, Agrees
  <2>3. PaidByWallet' = PaidByWallet /\ Balance' = Balance
    BY <2>1 DEF PaidByWallet, Balance
  <2> QED BY <2>2, <2>3 DEF Done, BookStep
<1> QED BY <1>2, <1>3, <1>4 DEF Next

LEMMA BookInit == Init => Book!Init
  BY DEF Init, Book!Init, PaidByWallet

(* BACKEND_API_SURFACE.md: settle pays an order, unsettle "reverses a       *)
(* settlement".  With handlers that do not overlap, on deals that keep      *)
(* their payout, every step of the detailed specification is one of the     *)
(* book or a stutter: an order is paid from the wallets at most once until  *)
(* it is reversed, within the mediator's limit, and each way moves exactly  *)
(* the order's money, whatever the workflow, tickets, suspensions and       *)
(* external settlements do in between.                                      *)
THEOREM SettlingKeepsTheBook == ASSUME Sequential PROVE Spec => KeepsTheBook
<1>1. Init => Types /\ QInv /\ Book!Init BY InitKeeps, SeqInit, BookInit
<1>2. Types /\ QInv /\ [Next]_vars => (Types /\ QInv)' /\ BookStep
  BY StepKeeps, SeqKeeps DEF Kept, Done
<1>3. BookStep => [Book!Next]_<<PaidByWallet, Balance>> BY DEF BookStep
<1> QED BY <1>1, <1>2, <1>3, PTL DEF Spec, KeepsTheBook, Book!Spec, Balance

(* Between handlers the workflow and the payment status of an order agree:  *)
(* APPROVED is Pending, COMPLETED is Paid, FAILED is Failed.                *)
THEOREM StatusesAgree == ASSUME Sequential PROVE Spec => []StatusAgrees
<1>1. Init => Types /\ QInv BY InitKeeps, SeqInit
<1>2. Types /\ QInv /\ [Next]_vars => (Types /\ QInv)'
  BY StepKeeps, SeqKeeps DEF Kept, Done
<1>3. QInv => StatusAgrees
  <2> SUFFICES ASSUME QInv, \A c \in Caller : call[c] = Idle, NEW o \in Order
               PROVE  CASE order[o].wf = "APPROVED"  -> order[o].pay = "Pending"
                        [] order[o].wf = "COMPLETED" -> order[o].pay = "Paid"
                        [] order[o].wf = "FAILED"    -> order[o].pay = "Failed"
                        [] OTHER                     -> FALSE
    BY DEF StatusAgrees
  <2>1. AtRest(order[o]) BY DEF QInv, Agrees, Moves, Idle
  <2> QED BY <2>1 DEF AtRest
<1> QED BY <1>1, <1>2, <1>3, PTL DEF Spec
-----------------------------------------------------------------------------
(* Handlers one at a time, any of which may die: the next one works on what *)
(* was committed.  An order's debits are from cycles that it has counted    *)
(* (Counted), so that its next settlement takes a key of its own, and a     *)
(* reversal in flight is one of an order that is paid from the wallets      *)
(* (Current).                                                               *)
PostedIn(led, kind, o) == {n \in Cycles : led[<<kind, o, n>>] # NoEntry}
Debited(led, o) == PostedIn(led, "order-settlement-debit", o)
Refunded(led, o) == PostedIn(led, "order-unsettle-credit-brand", o)
Paying(row) == IF ByWallet(row) THEN 1 ELSE 0
Counted(row, o, led) ==
    /\ \A n \in Debited(led, o) : n < row.cycle
    /\ Cardinality(Refunded(led, o)) + Paying(row) <= Cardinality(Debited(led, o))

Current(k, ord) ==
    /\ k.pc # "next" => k.cycle = ord[k.o].cycle
    /\ k.pc = "unsettle" /\ k.batch # <<>> =>
           ByWallet(ord[k.o]) /\ \E p \in Nat : k.batch = UnsettleBatch(k.o, p, k.cycle)

CInv == /\ Types /\ Alone
        /\ \A c \in Caller : call[c] # Idle => Current(call[c], order)
        /\ \A o \in Order : Counted(order[o], o, ledger)

LEMMA CountsAreFinite ==
    ASSUME NEW S \in SUBSET Cycles
    PROVE  IsFiniteSet(S) /\ Cardinality(S) \in Nat
<1>0. 0 \in Int /\ MaxCycle \in Int BY ONLY SettlementAssumption, SMT
<1>1. IsFiniteSet(Cycles)
  <2>1. IsFiniteSet(0 .. MaxCycle) BY ONLY <1>0, FS_Interval, Zenon
  <2> QED BY ONLY <2>1 DEF Cycles
<1>2. IsFiniteSet(S) BY <1>1, FS_Subset
<1> QED BY <1>2, FS_CardinalityType

(* Rows under keys of another order, cycle or kind count for nothing here.  *)
LEMMA SettleCounts ==
    ASSUME NEW wal \in Wallets, NEW led \in Ledgers,
           NEW o \in Order, NEW p \in Nat, NEW n \in Cycles,
           NEW res, res = L!ApplyBatch(wal, led, SettleBatch(o, p, n)), res.ok
    PROVE  /\ \A q \in Order : Refunded(res.ledger, q) = Refunded(led, q)
           /\ \A q \in Order : q # o => Debited(res.ledger, q) = Debited(led, q)
           /\ Debited(res.ledger, o) = Debited(led, o) \cup {n}
<1> DEFINE b == SettleBatch(o, p, n)
           dk == <<"order-settlement-debit", o, n>>
<1>1. PICK size \in 1 .. 3 :
          /\ Small(b, size)
          /\ \A i \in 1 .. size : b[i].key \in SettleKeys(o, p, n)
          /\ b[1].key = dk
  BY SettleBatchShape, Zenon
<1> HIDE DEF b
<1>2. /\ Holds(res, b[1])
      /\ \A k \in Key : (\A i \in 1 .. size : k # b[i].key) => res.ledger[k] = led[k]
  <2>1. res = L!ApplyBatch(wal, led, b) BY DEF b
  <2>2. Small(b, size) BY <1>1
  <2>3. Written(led, b, size, res) BY <2>1, <2>2, BatchWrites, Zenon
  <2>4. 1 \in 1 .. size OBVIOUS
  <2> QED BY <2>3, <2>4 DEF Written
<1>3. \A k \in Key : k \notin SettleKeys(o, p, n) => res.ledger[k] = led[k] BY <1>1, <1>2
<1>4. ASSUME NEW q \in Order, NEW m \in Cycles
      PROVE  /\ res.ledger[<<"order-unsettle-credit-brand", q, m>>]
                    = led[<<"order-unsettle-credit-brand", q, m>>]
             /\ <<q, m>> # <<o, n>> => res.ledger[<<"order-settlement-debit", q, m>>]
                                          = led[<<"order-settlement-debit", q, m>>]
  <2>1. /\ <<"order-unsettle-credit-brand", q, m>> \in Key
        /\ <<"order-settlement-debit", q, m>> \in Key
    BY Names DEF Key, Cycles
  <2>2. /\ <<"order-unsettle-credit-brand", q, m>> \notin SettleKeys(o, p, n)
        /\ <<q, m>> # <<o, n>> => <<"order-settlement-debit", q, m>> \notin SettleKeys(o, p, n)
    BY DEF SettleKeys
  <2> QED BY <1>3, <2>1, <2>2
<1>5. res.ledger[dk] # NoEntry BY <1>1, <1>2 DEF Holds
<1>6. \A q \in Order : Refunded(res.ledger, q) = Refunded(led, q)
  BY <1>4 DEF Refunded, PostedIn
<1>7. \A q \in Order : q # o => Debited(res.ledger, q) = Debited(led, q)
  BY <1>4 DEF Debited, PostedIn
<1>8. Debited(res.ledger, o) = Debited(led, o) \cup {n}
  <2>1. \A m \in Cycles : m # n => res.ledger[<<"order-settlement-debit", o, m>>]
                                     = led[<<"order-settlement-debit", o, m>>]
    BY <1>4
  <2> QED BY <1>5, <2>1 DEF Debited, PostedIn
<1> QED BY <1>6, <1>7, <1>8

LEMMA UnsettleCounts ==
    ASSUME NEW wal \in Wallets, NEW led \in Ledgers,
           NEW o \in Order, NEW p \in Nat, NEW n \in Cycles,
           NEW res, res = L!ApplyBatch(wal, led, UnsettleBatch(o, p, n)), res.ok
    PROVE  /\ \A q \in Order : Debited(res.ledger, q) = Debited(led, q)
           /\ \A q \in Order : q # o => Refunded(res.ledger, q) = Refunded(led, q)
           /\ Refunded(res.ledger, o) \subseteq Refunded(led, o) \cup {n}
<1> DEFINE b == UnsettleBatch(o, p, n)
<1>1. PICK size \in 0 .. 3 : Small(b, size) /\ \A i \in 1 .. size : b[i].key \in ReversalKeys(o, n)
  BY UnsettleBatchShape, Zenon
<1> HIDE DEF b
<1>2. \A k \in Key : (\A i \in 1 .. size : k # b[i].key) => res.ledger[k] = led[k]
  <2>1. res = L!ApplyBatch(wal, led, b) BY DEF b
  <2>2. Small(b, size) BY <1>1
  <2>3. Written(led, b, size, res) BY <2>1, <2>2, BatchWrites, Zenon
  <2> QED BY <2>3 DEF Written
<1>3. \A k \in Key : k \notin ReversalKeys(o, n) => res.ledger[k] = led[k] BY <1>1, <1>2
<1>4. ASSUME NEW q \in Order, NEW m \in Cycles
      PROVE  /\ res.ledger[<<"order-settlement-debit", q, m>>]
                    = led[<<"order-settlement-debit", q, m>>]
             /\ <<q, m>> # <<o, n>> => res.ledger[<<"order-unsettle-credit-brand", q, m>>]
                                          = led[<<"order-unsettle-credit-brand", q, m>>]
  <2>1. /\ <<"order-unsettle-credit-brand", q, m>> \in Key
        /\ <<"order-settlement-debit", q, m>> \in Key
    BY Names DEF Key, Cycles
  <2>2. /\ <<"order-settlement-debit", q, m>> \notin ReversalKeys(o, n)
        /\ <<q, m>> # <<o, n>> => <<"order-unsettle-credit-brand", q, m>> \notin ReversalKeys(o, n)
    BY DEF ReversalKeys, UnsettleKind
  <2> QED BY <1>3, <2>1, <2>2
<1>5. \A q \in Order : Debited(res.ledger, q) = Debited(led, q) BY <1>4 DEF Debited, PostedIn
<1>6. \A q \in Order : q # o => Refunded(res.ledger, q) = Refunded(led, q)
  BY <1>4 DEF Refunded, PostedIn
<1>7. Refunded(res.ledger, o) \subseteq Refunded(led, o) \cup {n}
  <2>1. \A m \in Cycles : m # n => res.ledger[<<"order-unsettle-credit-brand", o, m>>]
                                     = led[<<"order-unsettle-credit-brand", o, m>>]
    BY <1>4
  <2> QED BY <2>1 DEF Refunded, PostedIn
<1> QED BY <1>5, <1>6, <1>7
-----------------------------------------------------------------------------
(* A step of the only handler in flight that writes one order.              *)
LEMMA CountStep ==
    ASSUME CInv, Types', NEW c \in Caller, Ready(c), NEW d, Goto(c, d),
           NEW o \in Order, NEW row, Writes(o, row),
           d # Idle => Current(d, order'),
           Counted(row, o, ledger'), \A q \in Order : q # o => Counted(order[q], q, ledger')
    PROVE  CInv'
<1>1. call \in [Caller -> Call] /\ order \in [Order -> Row] BY DEF CInv, Types
<1>2. call'[c] = d /\ \A e \in Caller : e # c => call'[e] = Idle BY <1>1 DEF Goto, Ready
<1>3. order'[o] = row /\ \A q \in Order : q # o => order'[q] = order[q] BY <1>1 DEF Writes
<1>4. Alone' BY <1>2 DEF Alone
<1>5. \A e \in Caller : call'[e] # Idle => Current(call'[e], order') BY <1>2
<1>6. \A q \in Order : Counted(order'[q], q, ledger') BY <1>3
<1> QED BY <1>4, <1>5, <1>6 DEF CInv

(* One that moves no money and does not make the order paid by it.          *)
LEMMA CountQuiet ==
    ASSUME CInv, Types', NEW c \in Caller, Ready(c), NEW d, Goto(c, d), ledger' = ledger,
           NEW o \in Order, NEW row \in Row, Writes(o, row),
           row.cycle >= order[o].cycle, ByWallet(row) => ByWallet(order[o]),
           d # Idle => Current(d, order')
    PROVE  CInv'
<1>1. Counted(order[o], o, ledger) /\ \A q \in Order : q # o => Counted(order[q], q, ledger)
  BY DEF CInv
<1>2. order[o].cycle \in Int /\ row.cycle \in Int
  BY SettlementAssumption DEF CInv, Types, Row, Cycles
<1>3. Debited(ledger, o) \subseteq Int /\ Debited(ledger, o) \in SUBSET Cycles
      /\ Refunded(ledger, o) \in SUBSET Cycles
  BY SettlementAssumption DEF Debited, Refunded, PostedIn, Cycles
<1>4. Counted(row, o, ledger)
  <2>1. \A n \in Debited(ledger, o) : n < row.cycle BY <1>1, <1>2, <1>3 DEF Counted
  <2>2. Paying(row) \in Nat /\ Paying(order[o]) \in Nat /\ Paying(row) <= Paying(order[o])
    BY DEF Paying
  <2>3. Cardinality(Refunded(ledger, o)) \in Nat /\ Cardinality(Debited(ledger, o)) \in Nat
    BY <1>3, CountsAreFinite
  <2>4. Cardinality(Refunded(ledger, o)) + Paying(row) <= Cardinality(Debited(ledger, o))
    BY <1>1, <2>2, <2>3 DEF Counted
  <2> QED BY <2>1, <2>4 DEF Counted
<1>5. Counted(row, o, ledger') /\ \A q \in Order : q # o => Counted(order[q], q, ledger')
  BY <1>1, <1>4
<1> QED BY <1>5, CountStep

(* One that only reads, or dies.                                            *)
LEMMA CountRead ==
    ASSUME CInv, Types', NEW c \in Caller, Ready(c), NEW d, Goto(c, d),
           UNCHANGED <<order, ledger>>, d # Idle => Current(d, order)
    PROVE  CInv'
<1>1. call \in [Caller -> Call] BY DEF CInv, Types
<1>2. call'[c] = d /\ \A e \in Caller : e # c => call'[e] = Idle BY <1>1 DEF Goto, Ready
<1>3. Alone' BY <1>2 DEF Alone
<1>4. \A e \in Caller : call'[e] # Idle => Current(call'[e], order') BY <1>2
<1>5. \A q \in Order : Counted(order'[q], q, ledger') BY DEF CInv
<1> QED BY <1>3, <1>4, <1>5 DEF CInv

LEMMA CountStarts ==
    ASSUME ~Overlap, NEW c \in Caller, Start(c) PROVE Ready(c) /\ call[c] = Idle
  BY DEF Start, MayStart, Ready

LEMMA CountInFlight ==
    ASSUME CInv, NEW c \in Caller, NEW pc, At(c, pc), pc # "idle", NEW k, k = call[c]
    PROVE  /\ Ready(c) /\ k \in Call /\ k # Idle /\ k.pc = pc /\ Current(k, order)
           /\ k.o \in Order /\ order[k.o] \in Row
<1>1. k # Idle /\ k.pc = pc BY DEF At, Idle
<1>2. k \in Call /\ Current(k, order) BY <1>1 DEF CInv, Types
<1>3. k.o \in Order BY <1>1, <1>2, CallFields
<1>4. Ready(c) BY <1>1 DEF CInv, Alone, Ready
<1>5. order[k.o] \in Row BY <1>3 DEF CInv, Types
<1> QED BY <1>1, <1>2, <1>3, <1>4, <1>5
-----------------------------------------------------------------------------
LEMMA ReadsAreCounted ==
    ASSUME ~Overlap, CInv, Types', NEW c \in Caller, NEW o \in Order,
           \/ \E mode \in {"wallet", "external"} : SettleRead(c, o, mode)
           \/ UnsettleRead(c, o) \/ ReactivateRead(c, o)
    PROVE  CInv'
<1>1. Ready(c) /\ UNCHANGED <<order, ledger>>
  BY CountStarts DEF SettleRead, UnsettleRead, ReactivateRead
<1>2. ASSUME NEW mode \in {"wallet", "external"}, SettleRead(c, o, mode) PROVE CInv'
  <2>1. PICK d : /\ Goto(c, d)
                 /\ \/ d = [pc |-> "dispute", o |-> o, cycle |-> order[o].cycle]
                    \/ d = [pc |-> mode, o |-> o, cycle |-> order[o].cycle,
                            payout |-> payout[o]]
    BY <1>2 DEF SettleRead
  <2>2. Current(d, order) BY <2>1 DEF Current
  <2> QED BY <1>1, <2>1, <2>2, CountRead
<1>3. CASE UnsettleRead(c, o)
  <2>1. PICK batch : /\ \/ batch = <<>>
                        \/ /\ order[o].mode # "external"
                           /\ batch = UnsettleBatch(o, payout[o], order[o].cycle)
                     /\ Goto(c, [pc |-> "unsettle", o |-> o, cycle |-> order[o].cycle,
                                 batch |-> batch])
    BY <1>3 DEF UnsettleRead
  <2>2. PICK d : d = [pc |-> "unsettle", o |-> o, cycle |-> order[o].cycle, batch |-> batch]
    OBVIOUS
  <2>3. /\ d.pc = "unsettle" /\ d.o = o /\ d.cycle = order[o].cycle /\ d.batch = batch
    BY <2>2
  <2>4. order[o].pay = "Paid" /\ order[o].mode \in {"wallet", "external"} /\ payout[o] \in Nat
    BY <1>3 DEF UnsettleRead, CInv, Types, Row
  <2>5. Current(d, order) BY <2>1, <2>3, <2>4 DEF Current, ByWallet
  <2>6. Goto(c, d) BY <2>1, <2>2
  <2> QED BY <1>1, <2>5, <2>6, CountRead
<1>4. CASE ReactivateRead(c, o)
  <2>1. PICK d : Goto(c, d) /\ d = [pc |-> "reactivate", o |-> o, cycle |-> order[o].cycle]
    BY <1>4 DEF ReactivateRead
  <2>2. Current(d, order) BY <2>1 DEF Current
  <2> QED BY <1>1, <2>1, <2>2, CountRead
<1> QED BY <1>2, <1>3, <1>4

(* Updates of an order under way, and reads in the middle of a handler.     *)
LEMMA WritesAreCounted ==
    ASSUME CInv, Types', NEW c \in Caller,
           DisputeWrite(c) \/ OverLimitWrite(c) \/ ExternalWrite(c) \/ ReactivateWrite(c)
    PROVE  CInv'
<1>1. PICK pc, k : /\ pc \in {"dispute", "overlimit", "external", "reactivate"}
                   /\ At(c, pc) /\ k = call[c]
  BY DEF DisputeWrite, OverLimitWrite, ExternalWrite, ReactivateWrite
<1>2. /\ Ready(c) /\ k \in Call /\ k # Idle /\ k.pc = pc /\ Current(k, order)
      /\ k.o \in Order /\ order[k.o] \in Row
  BY <1>1, CountInFlight
<1>3. k.cycle = order[k.o].cycle BY <1>1, <1>2 DEF Current
<1>4. order[k.o].cycle \in Int BY <1>2, SettlementAssumption DEF Row, Cycles
<1>5. PICK row, d : /\ Writes(k.o, row) /\ Goto(c, d)
                    /\ d = Idle \/ d.pc = "next"
                    /\ \/ row = [order[k.o] EXCEPT !.aff = "Frozen_Disputed", !.cycle = k.cycle]
                       \/ row = [order[k.o] EXCEPT !.pay = "Failed", !.aff = "Cap_Exceeded",
                                                   !.mode = "wallet", !.cycle = k.cycle]
                       \/ row = SettledRow(k.o, "external", k.cycle)
                       \/ row = [order[k.o] EXCEPT !.frozen = FALSE, !.cycle = k.cycle]
  <2>1. CASE DisputeWrite(c) BY <1>1, <2>1 DEF DisputeWrite, Update, Writes
  <2>2. CASE OverLimitWrite(c)
    <3>1. Transitions(k.o, "FAILED").pc = "next" BY DEF Transitions
    <3> QED BY <1>1, <2>2, <3>1 DEF OverLimitWrite, Update, Writes
  <2>3. CASE ExternalWrite(c)
    <3>1. Transitions(k.o, "COMPLETED").pc = "next" BY DEF Transitions
    <3> QED BY <1>1, <2>3, <3>1 DEF ExternalWrite, Update, Writes
  <2>4. CASE ReactivateWrite(c) BY <1>1, <2>4 DEF ReactivateWrite, Update, Writes
  <2> QED BY <2>1, <2>2, <2>3, <2>4
<1>6. row \in Row
  <2>1. order' \in [Order -> Row] /\ order \in [Order -> Row] BY DEF CInv, Types
  <2> QED BY <1>2, <1>5, <2>1 DEF Writes
<1>7. row.cycle >= order[k.o].cycle /\ (ByWallet(row) => ByWallet(order[k.o]))
  <2>1. CASE row = [order[k.o] EXCEPT !.aff = "Frozen_Disputed", !.cycle = k.cycle]
    <3>1. row.cycle = k.cycle /\ row.pay = order[k.o].pay /\ row.mode = order[k.o].mode
      BY <1>2, <2>1 DEF Row
    <3> QED BY <1>3, <1>4, <3>1 DEF ByWallet
  <2>2. CASE row = [order[k.o] EXCEPT !.pay = "Failed", !.aff = "Cap_Exceeded",
                                      !.mode = "wallet", !.cycle = k.cycle]
    <3>1. row.cycle = k.cycle /\ row.pay = "Failed" BY <1>2, <2>2 DEF Row
    <3> QED BY <1>3, <1>4, <3>1 DEF ByWallet
  <2>3. CASE row = SettledRow(k.o, "external", k.cycle)
    <3>1. row.cycle = k.cycle + 1 /\ row.mode = "external" BY <1>2, <2>3 DEF Row, SettledRow
    <3> QED BY <1>3, <1>4, <3>1 DEF ByWallet
  <2>4. CASE row = [order[k.o] EXCEPT !.frozen = FALSE, !.cycle = k.cycle]
    <3>1. row.cycle = k.cycle /\ row.pay = order[k.o].pay /\ row.mode = order[k.o].mode
      BY <1>2, <2>4 DEF Row
    <3> QED BY <1>3, <1>4, <3>1 DEF ByWallet
  <2> QED BY <1>5, <2>1, <2>2, <2>3, <2>4
<1>8. d # Idle => Current(d, order') BY <1>5 DEF Current
<1>9. ledger' = ledger BY DEF DisputeWrite, OverLimitWrite, ExternalWrite, ReactivateWrite
<1> QED BY <1>2, <1>5, <1>6, <1>7, <1>8, <1>9, CountQuiet

LEMMA GuardIsCounted ==
    ASSUME CInv, Types', NEW c \in Caller, SettleGuard(c) PROVE CInv'
<1>1. PICK k : k = call[c] OBVIOUS
<1>2. /\ Ready(c) /\ k \in Call /\ k # Idle /\ k.pc = "wallet" /\ Current(k, order)
  BY <1>1, CountInFlight DEF SettleGuard
<1>3. k \in Settling BY <1>2, CallFields
<1>4. PICK d : d = [k EXCEPT !.pc = IF OverLimit(k.o) THEN "overlimit" ELSE "commit"] OBVIOUS
<1>5. d.o = k.o /\ d.cycle = k.cycle /\ d.pc \in {"overlimit", "commit"}
  BY <1>3, <1>4 DEF Settling
<1>6. Current(d, order) BY <1>2, <1>5 DEF Current
<1>7. Goto(c, Idle) \/ Goto(c, d) BY <1>1, <1>4 DEF SettleGuard
<1>8. UNCHANGED <<order, ledger>> BY DEF SettleGuard
<1> QED BY <1>2, <1>6, <1>7, <1>8, CountRead

LEMMA TransitionsAreCounted ==
    ASSUME CInv, Types', NEW c \in Caller, TransitionRead(c) \/ TransitionWrite(c) PROVE CInv'
<1>1. PICK k : k = call[c] OBVIOUS
<1>2. CASE TransitionRead(c)
  <2>1. Ready(c) BY <1>1, <1>2, CountInFlight DEF TransitionRead
  <2>2. PICK d : d = [pc |-> "move", o |-> k.o, path |-> k.path, cycle |-> order[k.o].cycle]
    OBVIOUS
  <2>3. Current(d, order) BY <2>2 DEF Current
  <2>4. Goto(c, Idle) \/ Goto(c, d) BY <1>1, <1>2, <2>2 DEF TransitionRead
  <2>5. UNCHANGED <<order, ledger>> BY <1>2 DEF TransitionRead
  <2> QED BY <2>1, <2>3, <2>4, <2>5, CountRead
<1>3. CASE TransitionWrite(c)
  <2>1. /\ Ready(c) /\ k \in Call /\ k # Idle /\ k.pc = "move" /\ Current(k, order)
        /\ k.o \in Order /\ order[k.o] \in Row
    BY <1>1, <1>3, CountInFlight DEF TransitionWrite
  <2>2. k.cycle = order[k.o].cycle /\ k.path \in Path BY <2>1, CallFields DEF Current
  <2>3. order[k.o].cycle \in Int BY <2>1, SettlementAssumption DEF Row, Cycles
  <2>4. ledger' = ledger BY <1>3 DEF TransitionWrite
  <2>5. CASE W!StillAt(k.o, k.path[1])
    <3>1. PICK row : row = [order[k.o] EXCEPT !.wf = k.path[2], !.cycle = k.cycle] OBVIOUS
    <3>2. PICK d : d = IF Len(k.path) = 2 THEN Idle
                       ELSE [pc |-> "next", o |-> k.o, path |-> Tail(k.path)]
      OBVIOUS
    <3>3. row \in Row /\ row.cycle = k.cycle /\ row.pay = order[k.o].pay
          /\ row.mode = order[k.o].mode
      BY <2>1, <2>2, <3>1, PathFields DEF Row
    <3>4. Writes(k.o, row)
      BY <1>1, <1>3, <2>1, <2>5, <3>1 DEF TransitionWrite, CInv, Types, Writes
    <3>5. Goto(c, d) BY <1>1, <1>3, <2>5, <3>2 DEF TransitionWrite
    <3>6. d # Idle => Current(d, order') BY <3>2 DEF Current
    <3>7. row.cycle >= order[k.o].cycle /\ (ByWallet(row) => ByWallet(order[k.o]))
      BY <2>2, <2>3, <3>3 DEF ByWallet
    <3> QED BY <2>1, <2>4, <3>3, <3>4, <3>5, <3>6, <3>7, CountQuiet
  <2>6. CASE ~W!StillAt(k.o, k.path[1])
    <3>1. Goto(c, Idle) /\ UNCHANGED <<order, ledger>>
      BY <1>1, <1>3, <2>6 DEF TransitionWrite
    <3> QED BY <2>1, <3>1, CountRead
  <2> QED BY <2>5, <2>6
<1> QED BY <1>2, <1>3

(* A settlement posts the debit of a cycle that has none.                   *)
LEMMA CommitIsCounted ==
    ASSUME CInv, Types', NEW c \in Caller, SettleCommit(c) PROVE CInv'
<1>1. PICK k : k = call[c] OBVIOUS
<1>2. /\ Ready(c) /\ k \in Call /\ k # Idle /\ k.pc = "commit" /\ Current(k, order)
      /\ k.o \in Order /\ order[k.o] \in Row
  BY <1>1, CountInFlight DEF SettleCommit
<1>3. k \in Settling /\ k.cycle = order[k.o].cycle BY <1>2, CallFields DEF Current
<1>4. k.cycle \in 0 .. MaxCycle - 1 /\ k.cycle \in Cycles /\ k.cycle \in Int /\ k.payout \in Nat
  BY <1>3, CycleRange DEF Settling
<1>5. PICK res : res = L!ApplyBatch(wallet, ledger, SettleBatch(k.o, k.payout, k.cycle)) OBVIOUS
<1>6. CASE ~res.ok
  <2>1. Goto(c, Idle) /\ UNCHANGED <<order, ledger>> BY <1>1, <1>5, <1>6 DEF SettleCommit
  <2> QED BY <1>2, <2>1, CountRead
<1>7. CASE res.ok
  <2>1. PICK row, d : row = SettledRow(k.o, "wallet", k.cycle) /\ d = Transitions(k.o, "COMPLETED")
    OBVIOUS
  <2>2. ledger' = res.ledger /\ Writes(k.o, row) /\ Goto(c, d)
    BY <1>1, <1>5, <1>7, <2>1 DEF SettleCommit, Writes
  <2>3. row.cycle = k.cycle + 1 BY <1>2, <2>1 DEF Row, SettledRow
  <2>4. Current(d, order') BY <2>1 DEF Current, Transitions
  <2>5. wallet \in Wallets /\ ledger \in Ledgers BY DEF CInv, Types
  <2>6. /\ \A q \in Order : Refunded(ledger', q) = Refunded(ledger, q)
        /\ \A q \in Order : q # k.o => Debited(ledger', q) = Debited(ledger, q)
        /\ Debited(ledger', k.o) = Debited(ledger, k.o) \cup {k.cycle}
    <3>1. /\ \A q \in Order : Refunded(res.ledger, q) = Refunded(ledger, q)
          /\ \A q \in Order : q # k.o => Debited(res.ledger, q) = Debited(ledger, q)
          /\ Debited(res.ledger, k.o) = Debited(ledger, k.o) \cup {k.cycle}
      BY <1>2, <1>4, <1>5, <1>7, <2>5, SettleCounts
    <3> QED BY <2>2, <3>1
  <2>7. \A q \in Order : q # k.o => Counted(order[q], q, ledger')
    BY <2>6 DEF CInv, Counted
  <2>8. PICK D, R : D = Debited(ledger, k.o) /\ R = Refunded(ledger, k.o) OBVIOUS
  <2>9. /\ \A n \in D : n < k.cycle
        /\ Cardinality(R) + Paying(order[k.o]) <= Cardinality(D)
    BY <1>2, <1>3, <2>8 DEF CInv, Counted
  <2>10. D \in SUBSET Cycles /\ R \in SUBSET Cycles BY <2>8 DEF Debited, Refunded, PostedIn
  <2>11. IsFiniteSet(D) /\ Cardinality(D) \in Nat /\ Cardinality(R) \in Nat
    BY <2>10, CountsAreFinite
  <2>12. k.cycle \notin D BY <1>4, <2>9
  <2>13. Cardinality(D \cup {k.cycle}) = Cardinality(D) + 1 BY <2>11, <2>12, FS_AddElement
  <2>14. Paying(row) \in {0, 1} /\ Paying(order[k.o]) \in {0, 1} BY DEF Paying
  <2>15. Cardinality(R) + Paying(row) <= Cardinality(D \cup {k.cycle})
    BY <2>9, <2>11, <2>13, <2>14
  <2>16. \A n \in D \cup {k.cycle} : n < row.cycle
    <3>1. D \subseteq Int BY <2>10, SettlementAssumption DEF Cycles
    <3> QED BY <1>4, <2>3, <2>9, <3>1
  <2>17. Counted(row, k.o, ledger')
    BY <1>2, <2>6, <2>8, <2>15, <2>16 DEF Counted
  <2> QED BY <1>2, <2>2, <2>4, <2>7, <2>17, CountStep
<1> QED BY <1>6, <1>7

(* A reversal posts at most one refund, of an order that was paid.          *)
LEMMA ReversalIsCounted ==
    ASSUME CInv, Types', NEW c \in Caller, UnsettleCommit(c) PROVE CInv'
<1>1. PICK k : k = call[c] OBVIOUS
<1>2. /\ Ready(c) /\ k \in Call /\ k # Idle /\ k.pc = "unsettle" /\ Current(k, order)
      /\ k.o \in Order /\ order[k.o] \in Row
  BY <1>1, CountInFlight DEF UnsettleCommit
<1>3. k.cycle = order[k.o].cycle /\ k.cycle \in Cycles BY <1>2, CallFields DEF Current
<1>4. k.cycle \in Int BY <1>3, SettlementAssumption DEF Cycles
<1>5. PICK res : res = L!ApplyBatch(wallet, ledger, k.batch) OBVIOUS
<1>6. Goto(c, Idle) BY DEF UnsettleCommit
<1>7. CASE ~res.ok
  <2>1. UNCHANGED <<order, ledger>> BY <1>1, <1>5, <1>7 DEF UnsettleCommit
  <2> QED BY <1>2, <1>6, <2>1, CountRead
<1>8. CASE res.ok
  <2>1. PICK row : row = UnsettledRow(k.o, k.cycle) OBVIOUS
  <2>2. ledger' = res.ledger /\ Writes(k.o, row)
    BY <1>1, <1>5, <1>8, <2>1 DEF UnsettleCommit, Writes
  <2>3. row \in Row /\ row.pay = "Pending" /\ row.cycle = k.cycle
    BY <1>2, <1>3, <2>1 DEF UnsettledRow, Row
  <2>4. ~ByWallet(row) BY <2>3 DEF ByWallet
  <2>5. CASE k.batch = <<>>
    <3>1. ledger' = ledger BY <1>5, <2>2, <2>5, EmptyBatch
    <3>2. row.cycle >= order[k.o].cycle BY <1>3, <1>4, <2>3
    <3> QED BY <1>2, <1>6, <2>2, <2>3, <2>4, <3>1, <3>2, CountQuiet
  <2>6. CASE k.batch # <<>>
    <3>1. PICK p \in Nat : k.batch = UnsettleBatch(k.o, p, k.cycle) BY <1>2, <2>6 DEF Current
    <3>2. ByWallet(order[k.o]) BY <1>2, <2>6 DEF Current
    <3>3. wallet \in Wallets /\ ledger \in Ledgers BY DEF CInv, Types
    <3>4. /\ \A q \in Order : Debited(ledger', q) = Debited(ledger, q)
          /\ \A q \in Order : q # k.o => Refunded(ledger', q) = Refunded(ledger, q)
          /\ Refunded(ledger', k.o) \subseteq Refunded(ledger, k.o) \cup {k.cycle}
      <4>1. res = L!ApplyBatch(wallet, ledger, UnsettleBatch(k.o, p, k.cycle)) BY <1>5, <3>1
      <4>2. /\ \A q \in Order : Debited(res.ledger, q) = Debited(ledger, q)
            /\ \A q \in Order : q # k.o => Refunded(res.ledger, q) = Refunded(ledger, q)
            /\ Refunded(res.ledger, k.o) \subseteq Refunded(ledger, k.o) \cup {k.cycle}
        BY <1>2, <1>3, <1>8, <3>3, <4>1, UnsettleCounts
      <4> QED BY <2>2, <4>2
    <3>5. \A q \in Order : q # k.o => Counted(order[q], q, ledger')
      BY <3>4 DEF CInv, Counted
    <3>6. PICK D, R, new : /\ D = Debited(ledger, k.o) /\ R = Refunded(ledger, k.o)
                           /\ new = Refunded(ledger', k.o)
      OBVIOUS
    <3>7. /\ \A n \in D : n < k.cycle
          /\ Cardinality(R) + 1 <= Cardinality(D)
      BY <1>2, <1>3, <3>2, <3>6 DEF CInv, Counted, Paying
    <3>8. D \in SUBSET Cycles /\ R \in SUBSET Cycles /\ new \in SUBSET Cycles
      BY <3>6 DEF Debited, Refunded, PostedIn
    <3>9. /\ IsFiniteSet(R) /\ Cardinality(D) \in Nat /\ Cardinality(R) \in Nat
          /\ Cardinality(new) \in Nat
      BY <3>8, CountsAreFinite
    <3>10. Cardinality(new) <= Cardinality(R) + 1
      <4>1. new \subseteq R \cup {k.cycle} BY <3>4, <3>6
      <4>2. IsFiniteSet(R \cup {k.cycle})
            /\ Cardinality(R \cup {k.cycle}) \in {Cardinality(R), Cardinality(R) + 1}
        BY <3>9, FS_AddElement
      <4>3. Cardinality(new) <= Cardinality(R \cup {k.cycle}) BY <4>1, <4>2, FS_Subset
      <4> QED BY <3>9, <4>2, <4>3
    <3>11. Paying(row) = 0 BY <2>4 DEF Paying
    <3>12. Cardinality(new) + Paying(row) <= Cardinality(D) BY <3>7, <3>9, <3>10, <3>11
    <3>13. Counted(row, k.o, ledger')
      BY <1>2, <2>3, <3>4, <3>6, <3>7, <3>12 DEF Counted
    <3> QED BY <1>2, <1>6, <2>2, <3>5, <3>13, CountStep
  <2> QED BY <2>5, <2>6
<1> QED BY <1>7, <1>8
-----------------------------------------------------------------------------
LEMMA SurroundingsAreCounted ==
    ASSUME ~Overlap, CInv, Types', NEW o \in Order, Freeze(o) \/ Ticket(o) \/ Republish(o)
    PROVE  CInv'
<1>1. /\ \A c \in Caller : call[c] = Idle
      /\ UNCHANGED <<call, ledger>>
  BY DEF Freeze, Ticket, Republish, MayStart
<1>2. Alone' /\ \A c \in Caller : call'[c] = Idle BY <1>1 DEF Alone
<1>3. ASSUME NEW q \in Order PROVE Counted(order'[q], q, ledger')
  <2>1. Counted(order[q], q, ledger) BY DEF CInv
  <2>2. order'[q].cycle = order[q].cycle /\ (ByWallet(order'[q]) <=> ByWallet(order[q]))
    <3>1. CASE Freeze(o)
      <4>1. order[o] \in Row /\ order \in [Order -> Row] BY DEF CInv, Types
      <4>2. PICK row : row = [order[o] EXCEPT !.frozen = TRUE] OBVIOUS
      <4>3. row.cycle = order[o].cycle /\ row.pay = order[o].pay /\ row.mode = order[o].mode
        BY <4>1, <4>2 DEF Row
      <4>4. order' = [order EXCEPT ![o] = row] BY <3>1, <4>2 DEF Freeze, Update
      <4> QED BY <4>1, <4>3, <4>4 DEF ByWallet
    <3>2. CASE Ticket(o) \/ Republish(o) BY <3>2 DEF Ticket, Republish
    <3> QED BY <3>1, <3>2
  <2> QED BY <1>1, <2>1, <2>2 DEF Counted, Paying
<1> QED BY <1>2, <1>3 DEF CInv

LEMMA CountInit == Init => CInv
<1> SUFFICES ASSUME Init PROVE CInv OBVIOUS
<1>1. Types BY InitKeeps
<1>2. Alone /\ \A c \in Caller : call[c] = Idle BY DEF Init, Alone
<1>3. ASSUME NEW o \in Order PROVE Counted(order[o], o, ledger)
  <2>1. \A kind \in Kind, n \in Cycles : ledger[<<kind, o, n>>] = NoEntry
    BY DEF Init, Key, Cycles
  <2>2. Debited(ledger, o) = {} /\ Refunded(ledger, o) = {}
    BY <2>1, Names DEF Debited, Refunded, PostedIn
  <2>3. Paying(order[o]) = 0 BY DEF Init, Paying, ByWallet
  <2>4. Cardinality({}) = 0 BY FS_EmptySet
  <2> QED BY <2>2, <2>3, <2>4 DEF Counted
<1> QED BY <1>1, <1>2, <1>3 DEF CInv

LEMMA CountKeeps == ASSUME ~Overlap PROVE CInv /\ [Next]_vars => CInv'
<1> SUFFICES ASSUME CInv, [Next]_vars PROVE CInv' OBVIOUS
<1>0. Types' BY StepKeeps DEF CInv, Kept
<1>1. ASSUME NEW c \in Caller, Settle(c) PROVE CInv'
  <2>1. CASE \E o \in Order, mode \in {"wallet", "external"} : SettleRead(c, o, mode)
    BY <1>0, <2>1, ReadsAreCounted
  <2>2. CASE DisputeWrite(c) \/ OverLimitWrite(c) \/ ExternalWrite(c)
    BY <1>0, <2>2, WritesAreCounted
  <2>3. CASE SettleGuard(c) BY <1>0, <2>3, GuardIsCounted
  <2>4. CASE SettleCommit(c) BY <1>0, <2>4, CommitIsCounted
  <2>5. CASE TransitionRead(c) \/ TransitionWrite(c) BY <1>0, <2>5, TransitionsAreCounted
  <2> QED BY <1>1, <2>1, <2>2, <2>3, <2>4, <2>5 DEF Settle
<1>2. ASSUME NEW c \in Caller, Handle(c) PROVE CInv'
  <2>1. CASE \E o \in Order : UnsettleRead(c, o) \/ ReactivateRead(c, o)
    BY <1>0, <2>1, ReadsAreCounted
  <2>2. CASE UnsettleCommit(c) BY <1>0, <2>2, ReversalIsCounted
  <2>3. CASE ReactivateWrite(c) BY <1>0, <2>3, WritesAreCounted
  <2>4. CASE Crash(c)
    <3>1. Ready(c) BY <2>4 DEF Crash, CInv, Alone, Ready
    <3>2. Goto(c, Idle) /\ UNCHANGED <<order, ledger>> BY <2>4 DEF Crash
    <3> QED BY <1>0, <3>1, <3>2, CountRead
  <2> QED BY <1>1, <1>2, <2>1, <2>2, <2>3, <2>4 DEF Handle
<1>3. CASE Surroundings BY <1>0, <1>3, SurroundingsAreCounted DEF Surroundings
<1>4. CASE UNCHANGED vars
  <2>1. UNCHANGED <<order, call, ledger>> BY <1>4 DEF vars
  <2> QED BY <1>0, <2>1 DEF CInv, Alone
<1> QED BY <1>2, <1>3, <1>4 DEF Next

(* settleOrderPayment counts SETTLED events for its keys: "Without this,    *)
(* re-settlement silently no-ops".  With handlers that do not overlap, for  *)
(* any orders, payouts, limits and mediators, an order that is paid from    *)
(* the wallets has a debit that was not refunded, and none was refunded     *)
(* more often than it was charged: also when the process dies between the   *)
(* commit and the workflow's transitions, or between those, when whoever    *)
(* retries finds the order paid and settles it once more, when it is        *)
(* suspended, disputed or settled outside the wallets in between, and when  *)
(* its deal is republished.                                                 *)
THEOREM PaidStaysCovered == ASSUME ~Overlap PROVE Spec => []PaidIsCovered
<1>1. Init => CInv BY CountInit
<1>2. CInv /\ [Next]_vars => CInv' BY CountKeeps
<1>3. CInv => PaidIsCovered
  <2> SUFFICES ASSUME CInv, NEW o \in Order
               PROVE  Refunds(o) + (IF o \in PaidByWallet THEN 1 ELSE 0) <= Debits(o)
    BY DEF PaidIsCovered
  <2>1. Counted(order[o], o, ledger) BY DEF CInv
  <2>2. Refunds(o) = Cardinality(Refunded(ledger, o)) /\ Debits(o) = Cardinality(Debited(ledger, o))
    BY DEF Refunds, Debits, Posted, Refunded, Debited, PostedIn
  <2>3. Paying(order[o]) = IF o \in PaidByWallet THEN 1 ELSE 0
    BY DEF Paying, ByWallet, PaidByWallet
  <2> QED BY <2>1, <2>2, <2>3 DEF Counted
<1> QED BY <1>1, <1>2, <1>3, PTL DEF Spec
-----------------------------------------------------------------------------
(* What the balances add up to.  A mutation under a new key moves its       *)
(* amount, one under a posted key moves nothing.                            *)
Effect(led, m) == IF led[m.key] = NoEntry THEN L!Signed(m) ELSE 0

LEMMA TotalChanges ==
    ASSUME NEW wal \in Wallets, NEW new \in Wallets, NEW w \in Owner,
           \A v \in Owner : v # w => new[v] = wal[v]
    PROVE  Total(new) = Total(wal) - wal[w].available + new[w].available
<1> DEFINE f == [v \in Owner |-> wal[v].available]
           g == [v \in Owner |-> new[v].available]
<1>1. IsFiniteSet(Owner) BY SettlementAssumption
<1>2. \A v \in Owner : f[v] \in Int /\ g[v] \in Int BY SettlementAssumption DEF Wallets
<1>3. \A v \in Owner \ {w} : f[v] = g[v] OBVIOUS
<1>4. f[w] = wal[w].available /\ g[w] = new[w].available OBVIOUS
<1>5. Total(wal) = SumFunctionOnSet(f, Owner) /\ Total(new) = SumFunctionOnSet(g, Owner)
  BY DEF Total
<1> HIDE DEF f, g
<1>6. SumFunctionOnSet(g, Owner) = SumFunctionOnSet(f, Owner) - f[w] + g[w]
  BY <1>1, <1>2, <1>3, SumChanges
<1> QED BY <1>4, <1>5, <1>6

LEMMA TotalIsInt == ASSUME NEW wal \in Wallets PROVE Total(wal) \in Int
<1> DEFINE f == [v \in Owner |-> wal[v].available]
<1>1. IsFiniteSet(Owner) BY SettlementAssumption
<1>2. \A v \in Owner : f[v] \in Int BY SettlementAssumption DEF Wallets
<1>3. Total(wal) = SumFunctionOnSet(f, Owner) BY DEF Total
<1> HIDE DEF f
<1> QED BY <1>1, <1>2, <1>3, SumIsInt

LEMMA StepTotals ==
    ASSUME NEW st \in State, NEW m \in L!Mutation, NEW r, r = Step(st, m), r.ok
    PROVE  Total(r.wallet) = Total(st.wallet) + Effect(st.ledger, m)
<1>1. r \in State /\ r.wallet \in Wallets /\ st.wallet \in Wallets /\ m.owner \in Owner
  BY StepApplies DEF State, L!Mutation
<1>2. Total(st.wallet) \in Int BY <1>1, TotalIsInt
<1>3. CASE st.ledger[m.key] # NoEntry
  <2>1. st.ledger[m.key] # NoEntry => r.wallet = st.wallet BY StepApplies, ZenonT(30)
  <2> QED BY <1>2, <1>3, <2>1 DEF Effect
<1>4. CASE st.ledger[m.key] = NoEntry
  <2>1. st.ledger[m.key] = NoEntry => r.wallet = WalletAfter(st.wallet, m)
    BY StepApplies, ZenonT(30)
  <2>2. /\ r.wallet[m.owner].available = st.wallet[m.owner].available + L!Signed(m)
        /\ \A v \in Owner : v # m.owner => r.wallet[v] = st.wallet[v]
    BY <1>1, <1>4, <2>1 DEF WalletAfter, Wallets
  <2>3. Total(r.wallet) = Total(st.wallet) - st.wallet[m.owner].available
                                           + r.wallet[m.owner].available
    BY <1>1, <2>2, TotalChanges
  <2>4. m.amount \in Int BY DEF L!Mutation
  <2>5. L!Signed(m) \in Int BY <2>4 DEF L!Signed
  <2>6. st.wallet[m.owner].available \in Int BY <1>1, SettlementAssumption DEF Wallets
  <2>7. Effect(st.ledger, m) = L!Signed(m) BY <1>4 DEF Effect
  <2> QED BY <1>2, <2>2, <2>3, <2>5, <2>6, <2>7
<1> QED BY <1>3, <1>4

LEMMA MovesIsInt ==
    ASSUME NEW led, NEW m \in L!Mutation PROVE Effect(led, m) \in Int
<1>1. m.amount \in Int BY DEF L!Mutation
<1>2. L!Signed(m) \in Int BY <1>1 DEF L!Signed
<1> QED BY <1>2 DEF Effect

-----------------------------------------------------------------------------
(* A batch whose rows share out its first one.  All of its rows are new, or *)
(* all of them repeat what is posted: its sum is zero either way.           *)
Shared(led, o, dk, ck, mk) ==
    /\ led[dk] = NoEntry => led[ck] = NoEntry /\ led[mk] = NoEntry
    /\ led[dk] # NoEntry =>
          /\ Cashback(o) > 0 => led[ck] # NoEntry
          /\ led[dk].amount > Cashback(o) => led[mk] # NoEntry

(* The three rows: D, then C when c2, then M when c3. *)
Rows(D, C, M, c2, c3) == <<D>> \o If(c2, C) \o If(c3, M)
Typed(D, C, M, c2, c3) ==
    /\ D \in L!Mutation /\ c2 \in BOOLEAN /\ c3 \in BOOLEAN
    /\ c2 => C \in L!Mutation
    /\ c3 => M \in L!Mutation
    /\ D.key # C.key /\ D.key # M.key /\ C.key # M.key
Parts(D, C, M, c2, c3, o, p) ==
    /\ c2 <=> Cashback(o) > 0
    /\ c3 <=> p > Cashback(o)
    /\ D.amount = p /\ C.amount = Cashback(o) /\ M.amount = p - Cashback(o)
    /\ C.op = M.op /\ D.op # C.op /\ D.op \in {"credit", "debit"} /\ C.op \in {"credit", "debit"}

LEMMA SmallOnes ==
    ASSUME NEW x \in L!Mutation, NEW y, NEW z
    PROVE  /\ Small(<<x>>, 1)
           /\ y \in L!Mutation => Small(<<x, y>>, 2)
           /\ y \in L!Mutation /\ z \in L!Mutation => Small(<<x, y, z>>, 3)
  BY DEF Small

LEMMA RowsAre ==
    ASSUME NEW D, NEW C, NEW M, NEW c2, NEW c3
    PROVE  /\ c2 /\ c3 => Rows(D, C, M, c2, c3) = <<D, C, M>>
           /\ c2 /\ ~c3 => Rows(D, C, M, c2, c3) = <<D, C>>
           /\ ~c2 /\ ~c3 => Rows(D, C, M, c2, c3) = <<D>>
<1>1. CASE c2 /\ c3 BY <1>1, Concatenations DEF Rows, If
<1>2. CASE c2 /\ ~c3 BY <1>2, Concatenations DEF Rows, If
<1>3. CASE ~c2 /\ c3 BY <1>3
<1>4. CASE ~c2 /\ ~c3
  <2>1. Rows(D, C, M, c2, c3) = <<D>> \o <<>> \o <<>> BY <1>4 DEF Rows, If
  <2> QED BY <1>4, <2>1, Concatenations
<1> QED BY <1>1, <1>2, <1>3, <1>4

LEMMA RowsSkip ==
    ASSUME NEW D, NEW C, NEW M, NEW c2, NEW c3, ~c2, c3
    PROVE  Rows(D, C, M, c2, c3) = <<D, M>>
  BY Concatenations DEF Rows, If

Listed(b, n, D, C, M, c2, c3) ==
    /\ Small(b, n)
    /\ b[1] = D
    /\ \A i \in 1 .. n : b[i] \in {D, C, M}
    /\ c2 => (\E i \in 1 .. n : b[i] = C)
    /\ c3 => (\E i \in 1 .. n : b[i] = M)

LEMMA BatchOf ==
    ASSUME NEW D, NEW C, NEW M, NEW c2, NEW c3, Typed(D, C, M, c2, c3),
           NEW b, b = Rows(D, C, M, c2, c3)
    PROVE  \E n \in 1 .. 3 : Listed(b, n, D, C, M, c2, c3)
<1>0. /\ D \in L!Mutation /\ c2 \in BOOLEAN /\ c3 \in BOOLEAN
      /\ (c2 => C \in L!Mutation) /\ (c3 => M \in L!Mutation)
  BY DEF Typed
<1>1. CASE c2 /\ c3
  <2>1. b = <<D, C, M>> BY <1>0, <1>1, RowsAre
  <2>2. Small(b, 3) BY <1>0, <1>1, <2>1, SmallOnes
  <2>3. /\ b[1] = D /\ b[2] = C /\ b[3] = M
        /\ \A i \in 1 .. 3 : b[i] \in {D, C, M}
    BY <2>1
  <2>4. 1 \in 1 .. 3 /\ 2 \in 1 .. 3 /\ 3 \in 1 .. 3 OBVIOUS
  <2> QED BY <2>2, <2>3, <2>4, Zenon DEF Listed
<1>2. CASE c2 /\ ~c3
  <2>1. b = <<D, C>> BY <1>0, <1>2, RowsAre
  <2>2. Small(b, 2) BY <1>0, <1>2, <2>1, SmallOnes
  <2>3. /\ b[1] = D /\ b[2] = C
        /\ \A i \in 1 .. 2 : b[i] \in {D, C, M}
    BY <2>1
  <2>4. 2 \in 1 .. 2 /\ 2 \in 1 .. 3 OBVIOUS
  <2> QED BY <1>2, <2>2, <2>3, <2>4, Zenon DEF Listed
<1>3. CASE ~c2 /\ c3
  <2>1. b = <<D, M>> BY <1>3, RowsSkip, Zenon
  <2>2. Small(b, 2) BY <1>0, <1>3, <2>1, SmallOnes
  <2>3. /\ b[1] = D /\ b[2] = M
        /\ \A i \in 1 .. 2 : b[i] \in {D, C, M}
    BY <2>1
  <2>4. 2 \in 1 .. 2 /\ 2 \in 1 .. 3 OBVIOUS
  <2> QED BY <1>3, <2>2, <2>3, <2>4, Zenon DEF Listed
<1>4. CASE ~c2 /\ ~c3
  <2>1. b = <<D>> BY <1>0, <1>4, RowsAre
  <2>2. Small(b, 1) BY <1>0, <2>1, SmallOnes
  <2>3. /\ b[1] = D
        /\ \A i \in 1 .. 1 : b[i] \in {D, C, M}
    BY <2>1
  <2>4. 1 \in 1 .. 3 OBVIOUS
  <2> QED BY <1>4, <2>2, <2>3, <2>4, Zenon DEF Listed
<1> QED BY <1>0, <1>1, <1>2, <1>3, <1>4

Moved(led, D, C, M, c2, c3) ==
    Effect(led, D) + If0(c2, Effect(led, C)) + If0(c3, Effect(led, M))
TotalAfter(new, wal, led, D, C, M, c2, c3) ==
    Total(new) = Total(wal) + Moved(led, D, C, M, c2, c3)

LEMMA BatchTotal ==
    ASSUME NEW wal \in Wallets, NEW led \in Ledgers,
           NEW D, NEW C, NEW M, NEW c2, NEW c3, Typed(D, C, M, c2, c3),
           NEW res, res = L!ApplyBatch(wal, led, Rows(D, C, M, c2, c3)), res.ok
    PROVE  TotalAfter(res.wallet, wal, led, D, C, M, c2, c3)
<1> SUFFICES Total(res.wallet) = Total(wal) + Moved(led, D, C, M, c2, c3) BY DEF TotalAfter
<1>1. /\ D \in L!Mutation /\ c2 \in BOOLEAN /\ c3 \in BOOLEAN
      /\ (c2 => C \in L!Mutation) /\ (c3 => M \in L!Mutation)
      /\ D.key # C.key /\ D.key # M.key /\ C.key # M.key
  BY DEF Typed
<1>2. PICK b : b = Rows(D, C, M, c2, c3) OBVIOUS
<1>3. res = L!ApplyBatch(wal, led, b) BY <1>2
<1>4. PICK s0 \in State : s0 = Before(wal, led) BY DEF State, Before
<1>5. s0.wallet = wal /\ s0.ledger = led BY <1>4 DEF Before
<1>6. \A m \in L!Mutation : m.key \in Key BY DEF L!Mutation
<1>7. PICK s1 \in State : s1 = Step(s0, D) BY <1>1, StepType
<1>8. Total(wal) \in Int /\ Effect(led, D) \in Int BY TotalIsInt, <1>1, MovesIsInt
<1>9. s1.ok => /\ Total(s1.wallet) = Total(wal) + Effect(led, D)
               /\ \A k \in Key : k # D.key => s1.ledger[k] = led[k]
  BY <1>5, <1>7, <1>1, StepTotals, <1>1, StepWrites
<1>10. CASE ~c2 /\ ~c3
  <2>1. b = <<D>> BY <1>1, <1>2, <1>10, RowsAre
  <2>2. L!ApplyBatch(wal, led, <<D>>) = Step(s0, D) BY <1>4, FoldOfOne, Zenon
  <2>3. res = s1 BY <1>3, <1>7, <2>1, <2>2
  <2> QED BY <1>8, <1>9, <1>10, <2>3 DEF Moved, If0
<1>11. CASE c2 /\ ~c3
  <2>1. b = <<D, C>> BY <1>1, <1>2, <1>11, RowsAre
  <2>2. L!ApplyBatch(wal, led, <<D, C>>) = Step(Step(s0, D), C) BY <1>4, FoldOfTwo
  <2>3. res = Step(s1, C) BY <1>3, <1>7, <2>1, <2>2
  <2>4. s1.ok BY <1>11, <2>3, <1>1, StepWrites
  <2>5. Effect(s1.ledger, C) = Effect(led, C) BY <1>1, <1>6, <1>9, <1>11, <2>4 DEF Effect
  <2>6. Total(res.wallet) = Total(s1.wallet) + Effect(s1.ledger, C) BY <1>11, <2>3, <1>1, StepTotals
  <2>7. Effect(led, C) \in Int BY <1>11, <1>1, MovesIsInt
  <2>8. If0(c2, Effect(led, C)) = Effect(led, C) /\ If0(c3, Effect(led, M)) = 0
    BY <1>11 DEF If0
  <2> QED BY <1>8, <1>9, <2>4, <2>5, <2>6, <2>7, <2>8 DEF Moved, If0
<1>12. CASE ~c2 /\ c3
  <2>1. b = <<D, M>> BY <1>2, <1>12, RowsSkip, Zenon
  <2>2. L!ApplyBatch(wal, led, <<D, M>>) = Step(Step(s0, D), M) BY <1>4, FoldOfTwo
  <2>3. res = Step(s1, M) BY <1>3, <1>7, <2>1, <2>2
  <2>4. s1.ok BY <1>12, <2>3, <1>1, StepWrites
  <2>5. Effect(s1.ledger, M) = Effect(led, M) BY <1>1, <1>6, <1>9, <1>12, <2>4 DEF Effect
  <2>6. Total(res.wallet) = Total(s1.wallet) + Effect(s1.ledger, M) BY <1>12, <2>3, <1>1, StepTotals
  <2>7. Effect(led, M) \in Int BY <1>12, <1>1, MovesIsInt
  <2>8. If0(c2, Effect(led, C)) = 0 /\ If0(c3, Effect(led, M)) = Effect(led, M)
    BY <1>12 DEF If0
  <2> QED BY <1>8, <1>9, <2>4, <2>5, <2>6, <2>7, <2>8 DEF Moved, If0
<1>13. CASE c2 /\ c3
  <2>1. b = <<D, C, M>> BY <1>1, <1>2, <1>13, RowsAre
  <2>2. L!ApplyBatch(wal, led, <<D, C, M>>) = Step(Step(Step(s0, D), C), M)
    BY <1>4, FoldOfAll
  <2>3. PICK s2 \in State : s2 = Step(s1, C) BY <1>1, <1>13, StepType
  <2>4. res = Step(s2, M) BY <1>3, <1>7, <2>1, <2>2, <2>3
  <2>5. s2.ok BY <1>13, <2>4, <1>1, StepWrites
  <2>6. s1.ok BY <1>13, <2>3, <2>5, <1>1, StepWrites
  <2>7. \A k \in Key : k # C.key => s2.ledger[k] = s1.ledger[k]
    BY <1>13, <2>3, <2>5, <1>1, StepWrites
  <2>8. Effect(s1.ledger, C) = Effect(led, C) BY <1>1, <1>6, <1>9, <1>13, <2>6 DEF Effect
  <2>9. Effect(s2.ledger, M) = Effect(led, M) BY <1>1, <1>6, <1>9, <1>13, <2>6, <2>7 DEF Effect
  <2>10. Total(s2.wallet) = Total(s1.wallet) + Effect(s1.ledger, C)
    BY <1>13, <2>3, <2>5, <1>1, StepTotals
  <2>11. Total(res.wallet) = Total(s2.wallet) + Effect(s2.ledger, M)
    BY <1>13, <2>4, <1>1, StepTotals
  <2>12. Effect(led, C) \in Int /\ Effect(led, M) \in Int BY <1>13, <1>1, MovesIsInt
  <2>13. /\ If0(c2, Effect(led, C)) = Effect(led, C)
         /\ If0(c3, Effect(led, M)) = Effect(led, M)
    BY <1>13 DEF If0
  <2> QED BY <1>8, <1>9, <2>6, <2>8, <2>9, <2>10, <2>11, <2>12, <2>13 DEF Moved, If0
<1> QED BY <1>10, <1>11, <1>12, <1>13

Cancel(led, D, C, M, c2, c3) == Moved(led, D, C, M, c2, c3) = 0

LEMMA PartsCancel ==
    ASSUME NEW led, NEW o \in Order, NEW p \in Nat, Cashback(o) <= p,
           NEW D, NEW C, NEW M, NEW c2 \in BOOLEAN, NEW c3 \in BOOLEAN,
           Parts(D, C, M, c2, c3, o, p),
           led[D.key] = NoEntry, led[C.key] = NoEntry, led[M.key] = NoEntry
    PROVE  Cancel(led, D, C, M, c2, c3)
<1>1. Cashback(o) \in Nat BY Parties
<1>2. PICK x \in Nat : x = Cashback(o) /\ x <= p BY <1>1
<1>3. /\ Effect(led, D) = L!Signed(D) /\ Effect(led, C) = L!Signed(C)
      /\ Effect(led, M) = L!Signed(M)
  BY DEF Effect
<1>4. \/ L!Signed(D) = p /\ L!Signed(C) = -x /\ L!Signed(M) = -(p - x)
      \/ L!Signed(D) = -p /\ L!Signed(C) = x /\ L!Signed(M) = p - x
  BY <1>2 DEF L!Signed, Parts
<1>5. (c2 <=> x > 0) /\ (c3 <=> p > x) BY <1>2 DEF Parts
<1>6. If0(c2, Effect(led, C)) = L!Signed(C)
  <2>1. CASE c2 BY <1>3, <2>1 DEF If0
  <2>2. CASE ~c2
    <3>1. x = 0 BY <1>2, <1>5, <2>2
    <3> QED BY <1>4, <2>2, <3>1 DEF If0
  <2> QED BY <2>1, <2>2
<1>7. If0(c3, Effect(led, M)) = L!Signed(M)
  <2>1. CASE c3 BY <1>3, <2>1 DEF If0
  <2>2. CASE ~c3
    <3>1. p = x BY <1>2, <1>5, <2>2
    <3> QED BY <1>4, <2>2, <3>1 DEF If0
  <2> QED BY <2>1, <2>2
<1>8. L!Signed(D) + L!Signed(C) + L!Signed(M) = 0 BY <1>2, <1>4
<1> QED BY <1>3, <1>6, <1>7, <1>8 DEF Cancel, Moved

Even(wal, led, o, D, C, M, res) ==
    /\ Total(res.wallet) = Total(wal)
    /\ Shared(res.ledger, o, D.key, C.key, M.key)
    /\ \A k \in Key : k \notin {D.key, C.key, M.key} => res.ledger[k] = led[k]

LEMMA BatchBalances ==
    ASSUME NEW wal \in Wallets, NEW led \in Ledgers, NEW o \in Order, NEW p \in Nat,
           Cashback(o) <= p,
           NEW D, NEW C, NEW M, NEW c2, NEW c3, Typed(D, C, M, c2, c3),
           Parts(D, C, M, c2, c3, o, p),
           Shared(led, o, D.key, C.key, M.key),
           NEW res, res = L!ApplyBatch(wal, led, Rows(D, C, M, c2, c3)), res.ok
    PROVE  Even(wal, led, o, D, C, M, res)
<1>1. TotalAfter(res.wallet, wal, led, D, C, M, c2, c3) BY BatchTotal, Zenon
<1>2. Total(wal) \in Int BY TotalIsInt
<1>3. PICK b : b = Rows(D, C, M, c2, c3) OBVIOUS
<1>4. PICK n \in 1 .. 3 : Listed(b, n, D, C, M, c2, c3) BY <1>3, BatchOf, Zenon
<1>5. Written(led, b, n, res) BY <1>3, <1>4, BatchWrites, Zenon DEF Listed
<1>6. /\ D \in L!Mutation /\ D.key \in Key /\ c2 \in BOOLEAN /\ c3 \in BOOLEAN
      /\ (c2 => C \in L!Mutation) /\ (c3 => M \in L!Mutation)
  BY DEF L!Mutation, Typed
<1>7. /\ Grows(led, res.ledger)
      /\ Holds(res, D) /\ (c2 => Holds(res, C)) /\ (c3 => Holds(res, M))
  <2>1. \A i \in 1 .. n : Holds(res, b[i]) BY <1>5 DEF Written
  <2>2. Grows(led, res.ledger) BY <1>5 DEF Written
  <2>3. 1 \in 1 .. n OBVIOUS
  <2> QED BY <1>4, <2>1, <2>2, <2>3, Zenon DEF Listed
<1>8. /\ (c2 <=> Cashback(o) > 0) /\ (c3 <=> p > Cashback(o)) /\ D.amount = p
  BY DEF Parts
<1>9. Shared(res.ledger, o, D.key, C.key, M.key) BY <1>7, <1>8 DEF Shared, Holds
<1>10. ASSUME NEW k \in Key, k \notin {D.key, C.key, M.key} PROVE res.ledger[k] = led[k]
  <2>1. \A i \in 1 .. n : k # b[i].key BY <1>4, <1>10 DEF Listed
  <2> QED BY <1>5, <2>1 DEF Written
<1>11. CASE led[D.key] = NoEntry
  <2>1. led[C.key] = NoEntry /\ led[M.key] = NoEntry BY <1>11 DEF Shared
  <2>2. Cancel(led, D, C, M, c2, c3) BY <1>6, <1>11, <2>1, PartsCancel, Zenon
  <2> QED BY <1>1, <1>2, <1>9, <1>10, <2>2 DEF TotalAfter, Cancel, Even
<1>12. CASE led[D.key] # NoEntry
  <2>1. led[D.key].amount = p BY <1>6, <1>7, <1>8, <1>12 DEF Grows, Holds
  <2>2. (c2 => led[C.key] # NoEntry) /\ (c3 => led[M.key] # NoEntry)
    BY <1>8, <1>12, <2>1 DEF Shared
  <2>3. Effect(led, D) = 0 BY <1>12 DEF Effect
  <2>4. If0(c2, Effect(led, C)) = 0 /\ If0(c3, Effect(led, M)) = 0
    BY <2>2 DEF If0, Effect
  <2> QED BY <1>1, <1>2, <1>9, <1>10, <2>3, <2>4 DEF TotalAfter, Moved, Even
<1> QED BY <1>9, <1>11, <1>12, <1>10

-----------------------------------------------------------------------------
(* Both batches of an order and a cycle are of this form. *)
SettleShared(led, o, n) == Shared(led, o, <<"order-settlement-debit", o, n>>,
                                  <<"order-commission", o, n>>, <<"order-margin", o, n>>)
UnsettleShared(led, o, n) == Shared(led, o, <<"order-unsettle-credit-brand", o, n>>,
                                    <<"order-unsettle-debit-buyer", o, n>>,
                                    <<"order-unsettle-debit-mediator", o, n>>)
AllShared(led) == \A o \in Order, n \in Cycles : SettleShared(led, o, n) /\ UnsettleShared(led, o, n)

(* A batch of o in cycle n keeps the balance of all wallets. *)
KeepsTotal(wal, led, res) == Total(res.wallet) = Total(wal) /\ AllShared(res.ledger)

LEMMA OtherKeys ==
    ASSUME NEW led, NEW new, AllShared(led), NEW o \in Order, NEW n \in Cycles,
           NEW S, S \in {SettleKind, UnsettleKind},
           \A kind \in Kind, q \in Order, i \in Cycles :
              ~(kind \in S /\ q = o /\ i = n) => new[<<kind, q, i>>] = led[<<kind, q, i>>],
           S = SettleKind => SettleShared(new, o, n),
           S = UnsettleKind => UnsettleShared(new, o, n)
    PROVE  AllShared(new)
<1>1. /\ "order-settlement-debit" \in Kind /\ "order-commission" \in Kind
      /\ "order-margin" \in Kind /\ "order-unsettle-credit-brand" \in Kind
      /\ "order-unsettle-debit-buyer" \in Kind /\ "order-unsettle-debit-mediator" \in Kind
  BY DEF Kind
<1>2. ASSUME NEW q \in Order, NEW i \in Cycles PROVE SettleShared(new, q, i)
  <2>1. CASE q = o /\ i = n /\ S = SettleKind BY <2>1
  <2>2. CASE ~(q = o /\ i = n /\ S = SettleKind)
    <3>1. /\ "order-settlement-debit" \notin UnsettleKind /\ "order-commission" \notin UnsettleKind
          /\ "order-margin" \notin UnsettleKind
      BY DEF UnsettleKind
    <3>2. /\ new[<<"order-settlement-debit", q, i>>] = led[<<"order-settlement-debit", q, i>>]
          /\ new[<<"order-commission", q, i>>] = led[<<"order-commission", q, i>>]
          /\ new[<<"order-margin", q, i>>] = led[<<"order-margin", q, i>>]
      BY <1>1, <2>2, <3>1
    <3>3. SettleShared(led, q, i) BY DEF AllShared
    <3> QED BY <3>2, <3>3 DEF SettleShared, Shared
  <2> QED BY <2>1, <2>2
<1>3. ASSUME NEW q \in Order, NEW i \in Cycles PROVE UnsettleShared(new, q, i)
  <2>1. CASE q = o /\ i = n /\ S = UnsettleKind BY <2>1
  <2>2. CASE ~(q = o /\ i = n /\ S = UnsettleKind)
    <3>1. /\ "order-unsettle-credit-brand" \notin SettleKind
          /\ "order-unsettle-debit-buyer" \notin SettleKind
          /\ "order-unsettle-debit-mediator" \notin SettleKind
      BY DEF SettleKind
    <3>2. /\ new[<<"order-unsettle-credit-brand", q, i>>]
                = led[<<"order-unsettle-credit-brand", q, i>>]
          /\ new[<<"order-unsettle-debit-buyer", q, i>>]
                = led[<<"order-unsettle-debit-buyer", q, i>>]
          /\ new[<<"order-unsettle-debit-mediator", q, i>>]
                = led[<<"order-unsettle-debit-mediator", q, i>>]
      BY <1>1, <2>2, <3>1
    <3>3. UnsettleShared(led, q, i) BY DEF AllShared
    <3> QED BY <3>2, <3>3 DEF UnsettleShared, Shared
  <2> QED BY <2>1, <2>2
<1> QED BY <1>2, <1>3 DEF AllShared

LEMMA EntryParts ==
    ASSUME NEW op, NEW kind, NEW o, NEW n, NEW type, NEW w, NEW a, NEW e,
           e = Entry(op, kind, o, n, type, w, a)
    PROVE  e.op = op /\ e.key = <<kind, o, n>> /\ e.owner = w /\ e.amount = a
  BY DEF Entry

LEMMA SettleBalances ==
    ASSUME MediatorsExist, NEW wal \in Wallets, NEW led \in Ledgers, AllShared(led),
           NEW o \in Order, NEW p \in Nat, NEW n \in Cycles, Cashback(o) <= p,
           NEW res, res = L!ApplyBatch(wal, led, SettleBatch(o, p, n)), res.ok
    PROVE  KeepsTotal(wal, led, res)
<1>1. PICK D : D = Entry("debit", "order-settlement-debit", o, n, "order_settlement_debit",
                         Brand[o], p)
  OBVIOUS
<1>2. PICK C : C = Entry("credit", "order-commission", o, n, "commission_settle", Buyer[o],
                         Cashback(o))
  OBVIOUS
<1>3. PICK M : M = Entry("credit", "order-margin", o, n, "commission_settle", Mediator[o],
                         p - Cashback(o))
  OBVIOUS
<1>4. PICK c2 \in BOOLEAN : c2 <=> Cashback(o) > 0 OBVIOUS
<1>5. PICK c3 \in BOOLEAN : c3 <=> p > Cashback(o) OBVIOUS
<1>6. c3 <=> HasMargin(o, p) BY <1>5 DEF HasMargin, MediatorsExist
<1>7. SettleBatch(o, p, n) = Rows(D, C, M, c2, c3)
  BY <1>1, <1>2, <1>3, <1>4, <1>6 DEF SettleBatch, Rows, If
<1>8. /\ D.op = "debit" /\ D.amount = p /\ D.key = <<"order-settlement-debit", o, n>>
      /\ C.op = "credit" /\ C.amount = Cashback(o) /\ C.key = <<"order-commission", o, n>>
      /\ M.op = "credit" /\ M.amount = p - Cashback(o) /\ M.key = <<"order-margin", o, n>>
  BY <1>1, <1>2, <1>3, EntryParts
<1>9. D \in L!Mutation BY <1>1, Parties, EntryType, Names, SMTT(30)
<1>10. C \in L!Mutation BY <1>2, Parties, EntryType, Names, SMTT(30)
<1>11. c3 => M \in L!Mutation
  <2>1. p - Cashback(o) \in Int BY Parties
  <2>2. c3 => Mediator[o] \in Owner BY <1>6, Parties
  <2> QED BY <1>3, <2>1, <2>2, EntryType, Names, SMTT(30)
<1>12. Typed(D, C, M, c2, c3) BY <1>8, <1>9, <1>10, <1>11 DEF Typed
<1>13. Parts(D, C, M, c2, c3, o, p) BY <1>4, <1>5, <1>8 DEF Parts
<1>14. Shared(led, o, D.key, C.key, M.key) BY <1>8 DEF AllShared, SettleShared
<1>15. res = L!ApplyBatch(wal, led, Rows(D, C, M, c2, c3)) BY <1>7
<1>16. /\ Total(res.wallet) = Total(wal)
       /\ Shared(res.ledger, o, D.key, C.key, M.key)
       /\ \A k \in Key : k \notin {D.key, C.key, M.key} => res.ledger[k] = led[k]
  <2>1. Even(wal, led, o, D, C, M, res)
    BY <1>12, <1>13, <1>14, <1>15, BatchBalances, Zenon
  <2> QED BY <2>1 DEF Even
<1>17. ASSUME NEW kind \in Kind, NEW q \in Order, NEW i \in Cycles,
              ~(kind \in SettleKind /\ q = o /\ i = n)
       PROVE  res.ledger[<<kind, q, i>>] = led[<<kind, q, i>>]
  <2>1. <<kind, q, i>> \in Key BY DEF Key, Cycles
  <2>2. <<kind, q, i>> \notin {D.key, C.key, M.key} BY <1>8, <1>17 DEF SettleKind
  <2> QED BY <1>16, <2>1, <2>2
<1>18. SettleShared(res.ledger, o, n) BY <1>8, <1>16 DEF SettleShared
<1>19. SettleKind # UnsettleKind BY DEF SettleKind, UnsettleKind
<1>20. AllShared(res.ledger) BY <1>17, <1>18, <1>19, OtherKeys
<1> QED BY <1>16, <1>20 DEF KeepsTotal

LEMMA UnsettleBalances ==
    ASSUME MediatorsExist, NEW wal \in Wallets, NEW led \in Ledgers, AllShared(led),
           NEW o \in Order, NEW p \in Nat, NEW n \in Cycles, Cashback(o) <= p,
           NEW res, res = L!ApplyBatch(wal, led, UnsettleBatch(o, p, n)), res.ok
    PROVE  KeepsTotal(wal, led, res)
<1>1. PICK D : D = Entry("credit", "order-unsettle-credit-brand", o, n, "refund", Brand[o], p)
  OBVIOUS
<1>2. PICK C : C = Entry("debit", "order-unsettle-debit-buyer", o, n, "commission_reversal",
                         Buyer[o], Cashback(o))
  OBVIOUS
<1>3. PICK M : M = Entry("debit", "order-unsettle-debit-mediator", o, n, "margin_reversal",
                         Mediator[o], p - Cashback(o))
  OBVIOUS
<1>4. PICK c2 \in BOOLEAN : c2 <=> Cashback(o) > 0 OBVIOUS
<1>5. PICK c3 \in BOOLEAN : c3 <=> p > Cashback(o) OBVIOUS
<1>6. c3 <=> HasMargin(o, p) BY <1>5 DEF HasMargin, MediatorsExist
<1>7. UnsettleBatch(o, p, n) = Rows(D, C, M, c2, c3)
  BY <1>1, <1>2, <1>3, <1>4, <1>6 DEF UnsettleBatch, Rows, If
<1>8. /\ D.op = "credit" /\ D.amount = p /\ D.key = <<"order-unsettle-credit-brand", o, n>>
      /\ C.op = "debit" /\ C.amount = Cashback(o)
      /\ C.key = <<"order-unsettle-debit-buyer", o, n>>
      /\ M.op = "debit" /\ M.amount = p - Cashback(o)
      /\ M.key = <<"order-unsettle-debit-mediator", o, n>>
  BY <1>1, <1>2, <1>3, EntryParts
<1>0. \A kind \in UnsettleKind : kind \in Kind BY Names
<1>9. D \in L!Mutation BY <1>0, <1>1, Parties, EntryType, Names, SMTT(30)
<1>10. C \in L!Mutation BY <1>0, <1>2, Parties, EntryType, Names, SMTT(30)
<1>11. c3 => M \in L!Mutation
  <2>1. p - Cashback(o) \in Int BY Parties
  <2>2. c3 => Mediator[o] \in Owner BY <1>6, Parties
  <2> QED BY <1>0, <1>3, <2>1, <2>2, EntryType, Names, SMTT(30)
<1>12. Typed(D, C, M, c2, c3) BY <1>8, <1>9, <1>10, <1>11 DEF Typed
<1>13. Parts(D, C, M, c2, c3, o, p) BY <1>4, <1>5, <1>8 DEF Parts
<1>14. Shared(led, o, D.key, C.key, M.key) BY <1>8 DEF AllShared, UnsettleShared
<1>15. res = L!ApplyBatch(wal, led, Rows(D, C, M, c2, c3)) BY <1>7
<1>16. /\ Total(res.wallet) = Total(wal)
       /\ Shared(res.ledger, o, D.key, C.key, M.key)
       /\ \A k \in Key : k \notin {D.key, C.key, M.key} => res.ledger[k] = led[k]
  <2>1. Even(wal, led, o, D, C, M, res)
    BY <1>12, <1>13, <1>14, <1>15, BatchBalances, Zenon
  <2> QED BY <2>1 DEF Even
<1>17. ASSUME NEW kind \in Kind, NEW q \in Order, NEW i \in Cycles,
              ~(kind \in UnsettleKind /\ q = o /\ i = n)
       PROVE  res.ledger[<<kind, q, i>>] = led[<<kind, q, i>>]
  <2>1. <<kind, q, i>> \in Key BY DEF Key, Cycles
  <2>2. <<kind, q, i>> \notin {D.key, C.key, M.key} BY <1>8, <1>17 DEF UnsettleKind
  <2> QED BY <1>16, <2>1, <2>2
<1>18. UnsettleShared(res.ledger, o, n) BY <1>8, <1>16 DEF UnsettleShared
<1>19. SettleKind # UnsettleKind BY DEF SettleKind, UnsettleKind
<1>20. AllShared(res.ledger) BY <1>17, <1>18, <1>19, OtherKeys
<1> QED BY <1>16, <1>20 DEF KeepsTotal

-----------------------------------------------------------------------------
(* Only the two transactions touch wallets and ledger. *)
LEMMA WhoMovesMoney ==
    [Next]_vars => \/ UNCHANGED <<wallet, ledger>>
                   \/ \E c \in Caller : SettleCommit(c) \/ UnsettleCommit(c)
<1> SUFFICES ASSUME [Next]_vars, ~(\E c \in Caller : SettleCommit(c) \/ UnsettleCommit(c))
             PROVE  UNCHANGED <<wallet, ledger>>
  OBVIOUS
<1>1. ASSUME NEW c \in Caller, Settle(c) PROVE UNCHANGED <<wallet, ledger>>
  BY <1>1 DEF Settle, SettleRead, DisputeWrite, SettleGuard, OverLimitWrite, ExternalWrite,
              TransitionRead, TransitionWrite
<1>2. ASSUME NEW c \in Caller, Handle(c) PROVE UNCHANGED <<wallet, ledger>>
  BY <1>1, <1>2 DEF Handle, UnsettleRead, ReactivateRead, ReactivateWrite, Crash
<1>3. CASE Surroundings BY <1>3 DEF Surroundings, Freeze, Ticket, Republish
<1>4. CASE UNCHANGED vars BY <1>4 DEF vars
<1> QED BY <1>2, <1>3, <1>4 DEF Next

(* No deal is republished with a payout below what the order's buyer gets.  *)
PayoutsCoverRewards == \A o \in Order : \A p \in Payouts[o] : Cashback(o) <= p

LEMMA CommitConserves ==
    ASSUME MediatorsExist, Types, AllShared(ledger), NEW c \in Caller, SettleCommit(c)
    PROVE  Total(wallet') = Total(wallet) /\ AllShared(ledger')
<1>1. PICK k : k = call[c] OBVIOUS
<1>2. k \in Call /\ k # Idle BY <1>1 DEF Types, SettleCommit, At, Idle
<1>3. k.o \in Order /\ k.cycle \in Cycles /\ k.payout \in Nat /\ Cashback(k.o) <= k.payout
  BY <1>1, <1>2, CallFields, CycleRange DEF SettleCommit, At, Settling
<1>4. PICK res : res = L!ApplyBatch(wallet, ledger, SettleBatch(k.o, k.payout, k.cycle)) OBVIOUS
<1>5. IF res.ok THEN wallet' = res.wallet /\ ledger' = res.ledger
                ELSE UNCHANGED <<wallet, ledger>>
  BY <1>1, <1>4 DEF SettleCommit
<1>6. CASE res.ok
  <2>1. wallet \in Wallets /\ ledger \in Ledgers BY DEF Types
  <2>2. KeepsTotal(wallet, ledger, res) BY <1>3, <1>4, <1>6, <2>1, SettleBalances, Zenon
  <2> QED BY <1>5, <1>6, <2>2 DEF KeepsTotal
<1>7. CASE ~res.ok BY <1>5, <1>7
<1> QED BY <1>6, <1>7

LEMMA ReversalConserves ==
    ASSUME MediatorsExist, PayoutsCoverRewards, Types, AllShared(ledger),
           NEW c \in Caller, UnsettleCommit(c)
    PROVE  Total(wallet') = Total(wallet) /\ AllShared(ledger')
<1>1. PICK k : k = call[c] OBVIOUS
<1>2. k \in Call /\ k # Idle BY <1>1 DEF Types, UnsettleCommit, At, Idle
<1>3. k.batch \in Reversals BY <1>1, <1>2, CallFields DEF UnsettleCommit, At
<1>4. PICK res : res = L!ApplyBatch(wallet, ledger, k.batch) OBVIOUS
<1>5. IF res.ok THEN wallet' = res.wallet /\ ledger' = res.ledger
                ELSE UNCHANGED <<wallet, ledger>>
  BY <1>1, <1>4 DEF UnsettleCommit
<1>6. CASE res.ok
  <2>1. wallet \in Wallets /\ ledger \in Ledgers BY DEF Types
  <2>2. CASE k.batch = <<>>
    <3>1. res.wallet = wallet /\ res.ledger = ledger BY <1>4, <2>2, EmptyBatch
    <3> QED BY <1>5, <1>6, <3>1
  <2>3. CASE k.batch # <<>>
    <3>1. Reversal(k.batch) BY <1>3 DEF Reversals
    <3>2. PICK o, p : Offered(o, p) /\ \E n \in Cycles : k.batch = UnsettleBatch(o, p, n)
      BY <2>3, <3>1, Zenon DEF Reversal
    <3>3. PICK n \in Cycles : k.batch = UnsettleBatch(o, p, n) BY <3>2
    <3>4. o \in Order /\ p \in Nat /\ Cashback(o) <= p
      BY <3>2, SettlementAssumption DEF Offered, PayoutsCoverRewards
    <3>5. res = L!ApplyBatch(wallet, ledger, UnsettleBatch(o, p, n)) BY <1>4, <3>3
    <3>6. KeepsTotal(wallet, ledger, res)
      BY <1>6, <2>1, <3>4, <3>5, UnsettleBalances, Zenon
    <3> QED BY <1>5, <1>6, <3>6 DEF KeepsTotal
  <2> QED BY <2>2, <2>3
<1>7. CASE ~res.ok BY <1>5, <1>7
<1> QED BY <1>6, <1>7

(* MONEY_FLOW.md: "settlement is conservation-safe".  Settling, reversing,  *)
(* failing half way, dying and doing so twice, however the handlers         *)
(* overlap, never make or destroy money: the rows of a cycle are posted     *)
(* together, so a batch is new as a whole, and sums to zero, or repeats     *)
(* what is posted as a whole.  It takes that mediators are not deleted and  *)
(* that payouts cover the buyer's reward.  settleOrderPayment checks the    *)
(* second, unsettleOrderPayment does not: a reversal after a republish with *)
(* a payout below the reward takes more from the buyer than the brand gets. *)
THEOREM SettlementConservesMoney ==
    ASSUME MediatorsExist, PayoutsCoverRewards PROVE Spec => []MoneyIsConserved
<1> DEFINE MInv == Types /\ AllShared(ledger) /\ MoneyIsConserved
<1>1. Init => MInv
  <2> SUFFICES ASSUME Init PROVE MInv OBVIOUS
  <2>1. Types BY InitKeeps
  <2>2. \A kind \in Kind, o \in Order, n \in Cycles : ledger[<<kind, o, n>>] = NoEntry
    BY DEF Init, Key, Cycles
  <2>3. \A kind \in SettleKind \cup UnsettleKind : kind \in Kind
    BY DEF Kind, SettleKind, UnsettleKind
  <2>4. ASSUME NEW o \in Order, NEW n \in Cycles
        PROVE  SettleShared(ledger, o, n) /\ UnsettleShared(ledger, o, n)
    BY <2>2, <2>3 DEF SettleShared, UnsettleShared, Shared, SettleKind, UnsettleKind
  <2> QED BY <2>1, <2>4 DEF AllShared, MoneyIsConserved, Init
<1>2. MInv /\ [Next]_vars => MInv'
  <2> SUFFICES ASSUME MInv, [Next]_vars PROVE MInv' OBVIOUS
  <2>1. Types' BY StepKeeps DEF Kept
  <2>2. Total(wallet') = Total(wallet) /\ AllShared(ledger')
    <3>1. CASE UNCHANGED <<wallet, ledger>> BY <3>1
    <3>2. CASE \E c \in Caller : SettleCommit(c) \/ UnsettleCommit(c)
      BY <3>2, MediatorsExist, PayoutsCoverRewards, CommitConserves, ReversalConserves
    <3> QED BY <3>1, <3>2, WhoMovesMoney
  <2> QED BY <2>1, <2>2 DEF MoneyIsConserved
<1>3. MInv => MoneyIsConserved OBVIOUS
<1> QED BY <1>1, <1>2, <1>3, PTL DEF Spec
=============================================================================

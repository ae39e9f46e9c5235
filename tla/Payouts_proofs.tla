--------------------------- MODULE Payouts_proofs ---------------------------
(* Payouts, however calls overlap, repeat and crash: what a brand is debited *)
(* reaches the agency, and a payout is paid once and not without a debit.    *)
EXTENDS Payouts, Sums, FiniteSetTheorems, TLAPS

(* The fold of a batch of at most two mutations is their composition. *)
Step(st, m) == L!ApplyMutation(st, m)
Top(s) == L!Max(s)

LEMMA TopExists ==
    ASSUME NEW s, NEW x \in s, \A y \in s : x >= y PROVE Top(s) \in s
  BY Zenon DEF Top, L!Max

LEMMA TopIs ==
    ASSUME NEW i \in Nat \ {0} PROVE Top(1 .. i) = i
<1>1. i \in 1 .. i /\ \A y \in 1 .. i : i >= y OBVIOUS
<1>2. Top(1 .. i) \in 1 .. i BY <1>1, TopExists
<1>3. \A y \in 1 .. i : Top(1 .. i) >= y BY <1>1, Zenon DEF Top, L!Max
<1> QED BY <1>1, <1>2, <1>3

LEMMA TopOf ==
    ASSUME NEW s \in SUBSET {1, 2}, s # {} PROVE Top(s) \in s
<1>1. CASE 2 \in s
  <2>1. \A y \in s : 2 >= y OBVIOUS
  <2> QED BY <1>1, <2>1, TopExists
<1>2. CASE 2 \notin s
  <2>1. \A y \in s : y = 1 BY <1>2
  <2>2. 1 \in s BY <2>1
  <2>3. \A y \in s : 1 >= y BY <2>1
  <2> QED BY <2>2, <2>3, TopExists
<1> QED BY <1>1, <1>2

LEMMA FoldOfTwo ==
    ASSUME NEW wal, NEW led, NEW b, NEW n \in 0 .. 2, DOMAIN b = 1 .. n,
           NEW s0, s0 = [ok |-> TRUE, wallet |-> wal, ledger |-> led]
    PROVE  LET res == L!ApplyBatch(wal, led, b)
           IN  /\ n = 0 => res = s0
               /\ n = 1 => res = Step(s0, b[1])
               /\ n = 2 => res = Step(Step(s0, b[1]), b[2])
<1> DEFINE P == SUBSET (1 .. n)
           T(s) == s \ {Top(s)}
           F(g) == [s \in P |-> IF s = {} THEN s0 ELSE Step(g[T(s)], b[Top(s)])]
           it == CHOOSE g : g = F(g)
           h == [s \in P |->
                   IF s = {} THEN s0
                   ELSE IF T(s) = {} THEN Step(s0, b[Top(s)])
                   ELSE Step(Step(s0, b[Top(T(s))]), b[Top(s)])]
<1>1. L!ApplyBatch(wal, led, b) = it[DOMAIN b]
  BY DEF L!ApplyBatch, L!FoldLeft, L!MapThenFoldSet, Step, Top
<1>2. h = F(h)
  <2>1. ASSUME NEW s \in P, s # {} PROVE h[s] = Step(h[T(s)], b[Top(s)])
    <3>1. T(s) \in P OBVIOUS
    <3>2. T(T(s)) = {}
      <4>1. s \in SUBSET {1, 2} /\ T(s) \in SUBSET {1, 2}
        <5>1. 1 .. n \subseteq {1, 2} OBVIOUS
        <5> QED BY <5>1
      <4>2. Top(s) \in s BY <4>1, <2>1, TopOf
      <4>3. T(s) = {} \/ Top(T(s)) \in T(s) BY <4>1, TopOf
      <4> QED BY <4>1, <4>2, <4>3
    <3> HIDE DEF T
    <3> QED BY <2>1, <3>1, <3>2
  <2>2. h[{}] = s0 OBVIOUS
  <2>3. h = [s \in P |-> h[s]] OBVIOUS
  <2>4. \A s \in P : h[s] = IF s = {} THEN s0 ELSE Step(h[T(s)], b[Top(s)])
    <3> HIDE DEF h, T
    <3> QED BY <2>1, <2>2
  <2> HIDE DEF h, T
  <2> QED BY <2>3, <2>4, Zenon
<1>3. it = F(it) BY <1>2
<1> HIDE DEF it, h
<1>4. \A s \in P : it[s] = IF s = {} THEN s0 ELSE Step(it[T(s)], b[Top(s)])
  <2> HIDE DEF T
  <2>1. it = [s \in P |-> IF s = {} THEN s0 ELSE Step(it[T(s)], b[Top(s)])] BY <1>3
  <2> QED BY <2>1
<1>5. ASSUME NEW i \in 1 .. n PROVE it[1 .. i] = Step(it[1 .. (i - 1)], b[i])
  <2>1. Top(1 .. i) = i  BY TopIs
  <2>2. 1 .. i \in P /\ 1 .. i # {} /\ T(1 .. i) = 1 .. (i - 1) BY <2>1
  <2> HIDE DEF T
  <2> QED BY <1>4, <2>1, <2>2
<1> HIDE DEF T, P
<1>6. it[1 .. 0] = s0
  <2>1. {} \in P /\ 1 .. 0 = {} BY DEF P
  <2> QED BY <1>4, <2>1
<1>7. ASSUME n >= 1 PROVE it[1 .. 1] = Step(s0, b[1])
  <2>1. 1 \in 1 .. n /\ 1 .. (1 - 1) = 1 .. 0 BY <1>7
  <2>2. it[1 .. 1] = Step(it[1 .. (1 - 1)], b[1]) BY <1>5, <2>1
  <2> QED BY <2>1, <2>2, <1>6
<1>8. ASSUME n = 2 PROVE it[1 .. 2] = Step(Step(s0, b[1]), b[2])
  <2>1. 2 \in 1 .. n /\ 1 .. (2 - 1) = 1 .. 1 /\ n >= 1 BY <1>8
  <2>2. it[1 .. 2] = Step(it[1 .. (2 - 1)], b[2]) BY <1>5, <2>1
  <2> QED BY <2>1, <2>2, <1>7
<1>9. n \in {0, 1, 2} OBVIOUS
<1>10. CASE n = 0 BY <1>1, <1>6, <1>10
<1>11. CASE n = 1 BY <1>1, <1>7, <1>11
<1>12. CASE n = 2 BY <1>1, <1>8, <1>12
<1> QED BY <1>9, <1>10, <1>11, <1>12
-----------------------------------------------------------------------------
Wallets == [Owner -> [status : L!WalletStatus, available : 0 .. MaxBalance]]
Ledgers == [Key -> Row \cup {NoEntry}]
State == [ok : BOOLEAN, wallet : Wallets, ledger : Ledgers]

(* One mutation that succeeds: its row is in the ledger, or one was before. *)
Kept(led, m) == IF led[m.key] = NoEntry THEN [led EXCEPT ![m.key] = m] ELSE led

LEMMA StepApplies ==
    ASSUME NEW st \in State, NEW m \in Row, NEW r, r = Step(st, m), r.ok
    PROVE  /\ r \in State /\ r.ledger = Kept(st.ledger, m)
           /\ \A w \in Owner : r.wallet[w].available = st.wallet[w].available
                 + (IF st.ledger[m.key] = NoEntry /\ m.owner = w THEN L!Signed(m) ELSE 0)
<1> DEFINE row == st.wallet[m.owner]
           new == [ok |-> TRUE,
                   wallet |-> [st.wallet EXCEPT ![m.owner] =
                        [status |-> "live", available |-> row.available + L!Signed(m)]],
                   ledger |-> [st.ledger EXCEPT ![m.key] = m]]
<1>1. /\ st.ok \in BOOLEAN /\ st.wallet \in Wallets /\ st.ledger \in Ledgers
      /\ m.op \in {"credit", "debit"} /\ m.key \in Key /\ m.owner \in Owner /\ m.amount \in Nat
  BY PayoutsAssumption DEF State, Row
<1>2. st.ok /\ L!ValidInput(m)
  <2>1. CASE ~st.ok \/ ~L!ValidInput(m)
    <3>1. r = [st EXCEPT !.ok = FALSE] BY <2>1 DEF Step, L!ApplyMutation
    <3>2. ~r.ok BY <3>1 DEF State
    <3> QED BY <3>2
  <2> QED BY <2>1
<1>3. CASE st.ledger[m.key] # NoEntry
  <2>1. r = [st EXCEPT !.ok = L!SameOperation(st.ledger[m.key], m)]
    BY <1>2, <1>3 DEF Step, L!ApplyMutation
  <2>2. r.ledger = st.ledger /\ r.wallet = st.wallet /\ r \in State
    BY <2>1 DEF State, L!SameOperation
  <2>3. \A w \in Owner : st.wallet[w].available \in Int
    BY <1>1, PayoutsAssumption DEF Wallets
  <2> QED BY <1>3, <2>2, <2>3 DEF Kept
<1>4. CASE st.ledger[m.key] = NoEntry
  <2>1. L!MayApply(row, m)
    <3>1. CASE ~L!MayApply(row, m)
      <4>1. r = [st EXCEPT !.ok = FALSE]
        BY <1>2, <1>4, <3>1 DEF Step, L!ApplyMutation
      <4>2. ~r.ok BY <4>1 DEF State
      <4> QED BY <4>2
    <3> QED BY <3>1
  <2>2. r = new BY <1>2, <1>4, <2>1 DEF Step, L!ApplyMutation
  <2>3. row \in [status : L!WalletStatus, available : 0 .. MaxBalance] BY <1>1 DEF Wallets
  <2>4. row.available + L!Signed(m) \in 0 .. MaxBalance
    BY <1>1, <1>2, <2>1, <2>3, PayoutsAssumption
    DEF L!MayApply, L!MayCredit, L!MayDebit, L!Signed
  <2>5. new.wallet \in Wallets
    <3>1. [status |-> "live", available |-> row.available + L!Signed(m)]
              \in [status : L!WalletStatus, available : 0 .. MaxBalance]
      BY <2>4 DEF L!WalletStatus
    <3> QED BY <1>1, <3>1 DEF Wallets
  <2>6. new.ledger \in Ledgers BY <1>1 DEF Ledgers
  <2>7. new \in State BY <2>5, <2>6 DEF State
  <2>8. \A w \in Owner : new.wallet[w].available = st.wallet[w].available
            + (IF m.owner = w THEN L!Signed(m) ELSE 0)
    <3>1. \A w \in Owner : st.wallet[w].available \in Int
      BY <1>1, PayoutsAssumption DEF Wallets
    <3>2. L!Signed(m) \in Int BY <1>1 DEF L!Signed
    <3> QED BY <1>1, <3>1, <3>2 DEF Wallets
  <2> QED BY <1>4, <2>2, <2>7, <2>8 DEF Kept
<1> QED BY <1>3, <1>4

(* What the rows that moved money add up to, for one owner. *)
MovedIn(led, w) == {k \in Key : led[k] # NoEntry /\ led[k].moved /\ led[k].owner = w}
Net(led, w) == SumFunctionOnSet([k \in Key |-> L!Signed(led[k])], MovedIn(led, w))
Finite(led) == IsFiniteSet({k \in Key : led[k] # NoEntry})

LEMMA SignedIsInt == ASSUME NEW m \in Row PROVE L!Signed(m) \in Int
<1>1. m.amount \in Nat BY PayoutsAssumption DEF Row
<1> QED BY <1>1 DEF L!Signed

LEMMA NetIsInt ==
    ASSUME NEW led \in Ledgers, Finite(led), NEW w
    PROVE  /\ IsFiniteSet(MovedIn(led, w)) /\ Net(led, w) \in Int
           /\ \A k \in MovedIn(led, w) : L!Signed(led[k]) \in Int
<1>1. MovedIn(led, w) \subseteq {k \in Key : led[k] # NoEntry} BY DEF MovedIn
<1>2. IsFiniteSet(MovedIn(led, w)) BY <1>1, FS_Subset DEF Finite
<1>3. \A k \in MovedIn(led, w) : led[k] \in Row BY DEF MovedIn, Ledgers
<1>4. \A k \in MovedIn(led, w) : L!Signed(led[k]) \in Int
  BY <1>3, SignedIsInt
<1>5. \A k \in MovedIn(led, w) : [j \in Key |-> L!Signed(led[j])][k] = L!Signed(led[k])
  BY DEF MovedIn
<1> QED BY <1>2, <1>4, <1>5, SumIsInt DEF Net

LEMMA NetOfKept ==
    ASSUME NEW led \in Ledgers, Finite(led), NEW m \in Row, NEW w
    PROVE  /\ Finite(Kept(led, m))
           /\ Net(Kept(led, m), w) = Net(led, w)
                + (IF led[m.key] = NoEntry /\ m.moved /\ m.owner = w THEN L!Signed(m) ELSE 0)
<1>1. CASE led[m.key] # NoEntry BY <1>1, NetIsInt DEF Kept
<1>2. CASE led[m.key] = NoEntry
  <2> DEFINE new == Kept(led, m)
             f == [k \in Key |-> L!Signed(led[k])]
             g == [k \in Key |-> L!Signed(new[k])]
             S == MovedIn(led, w)
  <2>1. /\ m.key \in Key /\ m # NoEntry /\ new \in Ledgers
        /\ \A k \in Key : new[k] = IF k = m.key THEN m ELSE led[k]
    BY <1>2, PayoutsAssumption DEF Row, Kept, Ledgers
  <2> HIDE DEF new
  <2>2. {k \in Key : new[k] # NoEntry} = {k \in Key : led[k] # NoEntry} \cup {m.key}
    BY <2>1
  <2>3. Finite(new) BY <2>2, FS_AddElement DEF Finite
  <2>4. m.key \notin S /\ \A k \in S : k \in Key /\ k # m.key BY <1>2 DEF MovedIn
  <2>5. \A k \in Key : f[k] = L!Signed(led[k]) /\ g[k] = L!Signed(new[k]) OBVIOUS
  <2>6. IsFiniteSet(S) /\ \A k \in MovedIn(new, w) : L!Signed(new[k]) \in Int
    BY <2>1, <2>3, NetIsInt
  <2>7. Net(led, w) = SumFunctionOnSet(f, S) /\ Net(new, w) = SumFunctionOnSet(g, MovedIn(new, w))
        /\ Net(led, w) \in Int
    BY NetIsInt DEF Net
  <2>8. MovedIn(new, w) = IF m.moved /\ m.owner = w THEN S \cup {m.key} ELSE S
    BY <1>2, <2>1 DEF MovedIn
  <2>9. SumFunctionOnSet(f, S) = SumFunctionOnSet(g, S)
    <3>1. \A k \in S : f[k] = g[k] BY <2>1, <2>4, <2>5
    <3> HIDE DEF f, g, S
    <3> QED BY <2>6, <3>1, SumOfSame
  <2>10. CASE m.moved /\ m.owner = w
    <3>1. \A k \in S \cup {m.key} : g[k] \in Int BY <2>1, <2>4, <2>5, <2>6, <2>8, <2>10
    <3>2. g[m.key] = L!Signed(m) BY <2>1, <2>5
    <3> HIDE DEF f, g, S
    <3>3. SumFunctionOnSet(g, S \cup {m.key}) = g[m.key] + SumFunctionOnSet(g, S)
      BY <2>4, <2>6, <3>1, SumWith
    <3>4. g[m.key] \in Int BY <3>1
    <3> QED BY <1>2, <2>3, <2>7, <2>8, <2>9, <2>10, <3>2, <3>3, <3>4 DEF new
  <2>11. CASE ~(m.moved /\ m.owner = w)
    BY <1>2, <2>3, <2>7, <2>8, <2>9, <2>11 DEF new
  <2> QED BY <2>10, <2>11
<1> QED BY <1>1, <1>2

(* From one wallet and ledger to another, balances move as the rows do. *)
Follows(wal, led, wal2, led2) ==
    /\ Finite(led2)
    /\ \A w \in Owner : wal2[w].available - Net(led2, w) = wal[w].available - Net(led, w)

LEMMA StepFollows ==
    ASSUME NEW st \in State, Finite(st.ledger), NEW m \in Row, m.moved,
           NEW r, r = Step(st, m), r.ok
    PROVE  Follows(st.wallet, st.ledger, r.wallet, r.ledger)
<1>1. /\ r.ledger = Kept(st.ledger, m) /\ st.ledger \in Ledgers
      /\ \A w \in Owner : r.wallet[w].available = st.wallet[w].available
            + (IF st.ledger[m.key] = NoEntry /\ m.owner = w THEN L!Signed(m) ELSE 0)
  BY StepApplies DEF State
<1>2. \A w \in Owner : st.wallet[w].available \in Int BY PayoutsAssumption DEF State, Wallets
<1>3. L!Signed(m) \in Int BY SignedIsInt
<1>4. \A w \in Owner : /\ Net(st.ledger, w) \in Int /\ Finite(r.ledger)
        /\ Net(r.ledger, w) = Net(st.ledger, w)
             + (IF st.ledger[m.key] = NoEntry /\ m.owner = w THEN L!Signed(m) ELSE 0)
  BY <1>1, NetOfKept, NetIsInt
<1>5. Finite(r.ledger) BY <1>1, NetOfKept
<1> QED BY <1>1, <1>2, <1>3, <1>4, <1>5 DEF Follows

LEMMA StepType ==
    ASSUME NEW st \in State, NEW m \in Row PROVE Step(st, m) \in State /\ (Step(st, m).ok => st.ok)
<1> DEFINE r == Step(st, m)
<1>1. st.ok \in BOOLEAN BY DEF State
<1>2. CASE ~st.ok
  <2>1. r = [st EXCEPT !.ok = FALSE] BY <1>2 DEF Step, L!ApplyMutation
  <2> QED BY <2>1 DEF State
<1>3. CASE st.ok /\ r.ok BY <1>3, StepApplies
<1>4. CASE st.ok /\ ~r.ok
  <2>1. r = [st EXCEPT !.ok = FALSE] \/ r = [st EXCEPT !.ok = L!SameOperation(st.ledger[m.key], m)]
    BY <1>4 DEF Step, L!ApplyMutation
  <2>2. L!SameOperation(st.ledger[m.key], m) \in BOOLEAN BY DEF L!SameOperation
  <2> QED BY <1>4, <2>1, <2>2 DEF State
<1> QED BY <1>1, <1>2, <1>3, <1>4

(* The transaction of a payout to an agency, and the one of a mediator's. *)
LEMMA PairPosts ==
    ASSUME NEW wal \in Wallets, NEW led \in Ledgers, NEW d \in Row, NEW e \in Row,
           NEW res, res = L!ApplyBatch(wal, led, <<d, e>>), res.ok
    PROVE  /\ res.wallet \in Wallets /\ res.ledger = Kept(Kept(led, d), e)
           /\ Finite(led) /\ d.moved /\ e.moved => Follows(wal, led, res.wallet, res.ledger)
<1>1. PICK s0 \in State : s0 = [ok |-> TRUE, wallet |-> wal, ledger |-> led] BY DEF State
<1>2. PICK s1 : s1 = Step(s0, d) OBVIOUS
<1>3. res = Step(s1, e)
  <2>1. DOMAIN <<d, e>> = 1 .. 2 /\ <<d, e>>[1] = d /\ <<d, e>>[2] = e OBVIOUS
  <2> QED BY <1>1, <1>2, <2>1, FoldOfTwo
<1>4. s1 \in State BY <1>2, StepType
<1>5. s1.ok BY <1>3, <1>4, StepType
<1>6. s1.ledger = Kept(led, d) BY <1>1, <1>2, <1>5, StepApplies
<1>7. res \in State /\ res.ledger = Kept(s1.ledger, e) BY <1>3, <1>4, StepApplies
<1>8. ASSUME Finite(led), d.moved, e.moved PROVE Follows(wal, led, res.wallet, res.ledger)
  <2>1. Follows(wal, led, s1.wallet, s1.ledger) BY <1>1, <1>2, <1>5, <1>8, StepFollows
  <2>2. Follows(s1.wallet, s1.ledger, res.wallet, res.ledger)
    BY <1>3, <1>4, <1>8, <2>1, StepFollows DEF Follows
  <2> QED BY <2>1, <2>2 DEF Follows
<1> QED BY <1>6, <1>7, <1>8 DEF State

LEMMA OnePosts ==
    ASSUME NEW wal \in Wallets, NEW led \in Ledgers, NEW m \in Row,
           NEW res, res = L!ApplyBatch(wal, led, <<m>>), res.ok
    PROVE  /\ res.wallet \in Wallets /\ res.ledger = Kept(led, m)
           /\ Finite(led) /\ m.moved => Follows(wal, led, res.wallet, res.ledger)
<1>1. PICK s0 \in State : s0 = [ok |-> TRUE, wallet |-> wal, ledger |-> led] BY DEF State
<1>2. res = Step(s0, m)
  <2>1. DOMAIN <<m>> = 1 .. 1 /\ <<m>>[1] = m OBVIOUS
  <2> QED BY <1>1, <2>1, FoldOfTwo
<1>3. res \in State /\ res.ledger = Kept(led, m) BY <1>1, <1>2, StepApplies
<1>4. Finite(led) /\ m.moved => Follows(wal, led, res.wallet, res.ledger)
  BY <1>1, <1>2, StepFollows
<1> QED BY <1>3, <1>4 DEF State

LEMMA NonePosts ==
    ASSUME NEW wal, NEW led, NEW res, res = L!ApplyBatch(wal, led, <<>>)
    PROVE  res.wallet = wal /\ res.ledger = led
<1>1. DOMAIN <<>> = 1 .. 0 OBVIOUS
<1>2. PICK s0 : s0 = [ok |-> TRUE, wallet |-> wal, ledger |-> led] OBVIOUS
<1>3. res = s0 BY <1>1, <1>2, FoldOfTwo
<1> QED BY <1>2, <1>3
-----------------------------------------------------------------------------
LEMMA Rows ==
    ASSUME NEW r \in Ref, NEW a \in Amounts
    PROVE  /\ AgencyDebit(r, a) \in Row /\ AgencyCredit(r, a) \in Row
           /\ Manual(AgencyDebit(r, a)) \in Row /\ Manual(AgencyCredit(r, a)) \in Row
<1>1. <<"debit", r>> \in Key /\ <<"credit", r>> \in Key BY DEF Key
<1>2. "agency_payout" \in L!TransactionType /\ "agency_receipt" \in L!TransactionType
  BY DEF L!TransactionType
<1>3. brand \in Owner /\ agency \in Owner BY PayoutsAssumption
<1>4. AgencyDebit(r, a) \in Row /\ AgencyCredit(r, a) \in Row
  BY <1>1, <1>2, <1>3 DEF Row, AgencyDebit, AgencyCredit, Entry
<1>5. \A m \in Row : Manual(m) \in Row BY DEF Row, Manual
<1> QED BY <1>4, <1>5

LEMMA PayoutRow ==
    ASSUME NEW i \in PayoutId, NEW a \in Amounts
    PROVE  Entry("debit", <<"payout_complete", i>>, "payout_complete", mediator, a) \in Row
<1>1. <<"payout_complete", i>> \in Key BY DEF Key
<1>2. "payout_complete" \in L!TransactionType BY DEF L!TransactionType
<1>3. mediator \in Owner BY PayoutsAssumption
<1> QED BY <1>1, <1>2, <1>3 DEF Row, Entry

LEMMA KeptAdds ==
    ASSUME NEW led \in Ledgers, NEW m \in Row
    PROVE  /\ Kept(led, m) \in Ledgers
           /\ Kept(led, m)[m.key] = IF led[m.key] = NoEntry THEN m ELSE led[m.key]
           /\ Kept(led, m)[m.key] # NoEntry
           /\ \A k \in Key : k # m.key => Kept(led, m)[k] = led[k]
<1>1. m.key \in Key /\ m # NoEntry BY PayoutsAssumption DEF Row
<1> QED BY <1>1 DEF Kept, Ledgers

(* What the properties rest on.  A credit to an agency is never recorded     *)
(* before the debit of its ref, so that a transaction that inserts the debit *)
(* inserts the credit too; what a handler has seen is still so.              *)
DebitComesFirst ==
    \A r \in Ref : ledger[<<"credit", r>>] # NoEntry => ledger[<<"debit", r>>] # NoEntry
DebitIsRecorded ==
    \A c \in Caller : At(c, "manualcredit") => ledger[<<"debit", call[c].r>>] # NoEntry
DeletesUnpaid ==
    \A c \in Caller : At(c, "delete") =>
        call[c].i \in DOMAIN payouts /\ payouts[call[c].i].status # "paid"
OnePerRef ==
    \A i, j \in DOMAIN payouts : payouts[i].ref = payouts[j].ref => i = j

PInv == /\ TypeOK
        /\ DebitReachesAgency /\ DebitComesFirst /\ DebitIsRecorded
        /\ PaidPayoutIsDebited /\ DeletesUnpaid /\ OnePerRef

LEMMA InitInvariant == Init => PInv
<1> SUFFICES ASSUME Init PROVE PInv OBVIOUS
<1>1. TypeOK
  <2>1. wallet \in Wallets BY PayoutsAssumption DEF Init, Wallets
  <2>2. payouts = <<>> /\ Len(payouts) = 0 BY DEF Init
  <2>3. payouts \in Seq(Payout) BY <2>2
  <2> QED BY <2>1, <2>2, <2>3, PayoutsAssumption DEF Init, TypeOK, Wallets, Call
<1>2. \A r \in Ref : ledger[<<"debit", r>>] = NoEntry /\ ledger[<<"credit", r>>] = NoEntry
  BY DEF Init, Key
<1>3. \A c \in Caller : ~At(c, "manualcredit") /\ ~At(c, "delete") BY DEF Init, At, Idle
<1>4. DOMAIN payouts = {} BY DEF Init
<1> QED BY <1>1, <1>2, <1>3, <1>4
    DEF PInv, DebitReachesAgency, DebitComesFirst, DebitIsRecorded, PaidPayoutIsDebited,
        DeletesUnpaid, OnePerRef

(* A call that is left or goes on. *)
LEMMA GotoIs ==
    ASSUME TypeOK, NEW c \in Caller, NEW next \in Call, Goto(c, next)
    PROVE  /\ call' \in [Caller -> Call] /\ call'[c] = next
           /\ \A d \in Caller : d # c => call'[d] = call[d]
  BY DEF TypeOK, Goto

(* Handlers that know no more than they did, over rows that stay. *)
LEMMA HandlersKnow ==
    ASSUME PInv, NEW c \in Caller, NEW next \in Call, Goto(c, next),
           next.pc # "manualcredit", next.pc # "delete",
           \A k \in Key : ledger[k] # NoEntry => ledger'[k] # NoEntry,
           \A i \in DOMAIN payouts : i \in DOMAIN payouts' /\ payouts'[i].status = payouts[i].status
    PROVE  DebitIsRecorded' /\ DeletesUnpaid'
<1>1. TypeOK /\ DebitIsRecorded /\ DeletesUnpaid BY DEF PInv
<1>2. /\ call'[c] = next
      /\ \A d \in Caller : d # c => call'[d] = call[d]
  BY <1>1, GotoIs
<1>3. ASSUME NEW d \in Caller, At(d, "manualcredit")' PROVE ledger'[<<"debit", call'[d].r>>] # NoEntry
  <2>1. call'[d] = call[d] /\ At(d, "manualcredit") BY <1>2, <1>3 DEF At
  <2>2. call[d].r \in Ref BY <1>1, <2>1 DEF TypeOK, Call, At, Idle
  <2>3. <<"debit", call[d].r>> \in Key BY <2>2 DEF Key
  <2> QED BY <1>1, <2>1, <2>3 DEF DebitIsRecorded
<1>4. ASSUME NEW d \in Caller, At(d, "delete")'
      PROVE call'[d].i \in DOMAIN payouts' /\ payouts'[call'[d].i].status # "paid"
  <2>1. call'[d] = call[d] /\ At(d, "delete") BY <1>2, <1>4 DEF At
  <2> QED BY <1>1, <2>1 DEF DeletesUnpaid
<1> QED BY <1>3, <1>4 DEF DebitIsRecorded, DeletesUnpaid

(* Steps that write no row. *)
LEMMA QuietStep ==
    ASSUME PInv, UNCHANGED <<ledger, payouts>>, NEW c \in Caller, NEW next \in Call, Goto(c, next),
           next.pc # "manualcredit", next.pc # "delete",
           UNCHANGED <<wallet, refunded>>
    PROVE  PInv'
<1>1. DebitIsRecorded' /\ DeletesUnpaid'
  <2>1. \A k \in Key : ledger[k] # NoEntry => ledger'[k] # NoEntry OBVIOUS
  <2>2. \A i \in DOMAIN payouts : i \in DOMAIN payouts' /\ payouts'[i].status = payouts[i].status
    OBVIOUS
  <2> QED BY <2>1, <2>2, HandlersKnow
<1>2. TypeOK' BY GotoIs DEF PInv, TypeOK
<1> QED BY <1>1, <1>2 DEF PInv, DebitReachesAgency, DebitComesFirst, PaidPayoutIsDebited, OnePerRef

LEMMA IdleCall == Idle \in Call /\ Idle.pc # "manualcredit" /\ Idle.pc # "delete"
  BY DEF Idle, Call

LEMMA ReadSteps ==
    ASSUME PInv, NEW c \in Caller, NEW r \in Ref, NEW a \in Amounts,
           NEW status \in {"paid", "recorded"},
           AgencyRead(c, r, a) \/ PayoutRead(c, r, a, status)
    PROVE  PInv'
<1>1. CASE AgencyRead(c, r, a)
  <2> DEFINE next == [pc |-> "pay", r |-> r, a |-> a, hit |-> ledger[<<"debit", r>>] # NoEntry]
  <2>1. next \in Call /\ next.pc = "pay" BY DEF Call
  <2>2. Goto(c, next) /\ UNCHANGED <<wallet, ledger, payouts, refunded>> BY <1>1 DEF AgencyRead
  <2> HIDE DEF next
  <2> QED BY <2>1, <2>2, QuietStep
<1>2. CASE PayoutRead(c, r, a, status)
  <2> DEFINE next == [pc |-> "payout", r |-> r, a |-> a, status |-> status]
  <2>1. next \in Call /\ next.pc = "payout" BY DEF Call
  <2>2. Goto(c, next) /\ UNCHANGED <<wallet, ledger, payouts, refunded>> BY <1>2 DEF PayoutRead
  <2> HIDE DEF next
  <2> QED BY <2>1, <2>2, QuietStep
<1> QED BY <1>1, <1>2

(* A payout with no row of its own in the ledger is not a paid one. *)
LEMMA DeleteReadStep ==
    ASSUME PInv, NEW c \in Caller, NEW i \in PayoutId, DeleteRead(c, i) PROVE PInv'
<1> DEFINE next == [pc |-> "delete", i |-> i]
<1>1. next \in Call /\ next.pc = "delete" /\ next.i = i BY DEF Call
<1>2. Goto(c, next) /\ UNCHANGED <<wallet, ledger, payouts, refunded>> BY DEF DeleteRead
<1>3. i \in DOMAIN payouts /\ payouts[i].status # "paid"
  BY DEF PInv, PaidPayoutIsDebited, DeleteRead, HasWalletTx
<1> HIDE DEF next
<1>4. /\ call' \in [Caller -> Call] /\ call'[c] = next
      /\ \A d \in Caller : d # c => call'[d] = call[d]
  BY <1>1, <1>2, GotoIs DEF PInv
<1>5. TypeOK' BY <1>2, <1>4 DEF PInv, TypeOK
<1>6. DebitIsRecorded'
  <2>1. ASSUME NEW d \in Caller, At(d, "manualcredit")'
        PROVE ledger'[<<"debit", call'[d].r>>] # NoEntry
    <3>1. call'[d] = call[d] /\ At(d, "manualcredit") BY <1>1, <1>4, <2>1 DEF At
    <3> QED BY <1>2, <3>1 DEF PInv, DebitIsRecorded
  <2> QED BY <2>1 DEF DebitIsRecorded
<1>7. DeletesUnpaid'
  <2>1. ASSUME NEW d \in Caller, At(d, "delete")'
        PROVE call'[d].i \in DOMAIN payouts' /\ payouts'[call'[d].i].status # "paid"
    <3>1. CASE d = c BY <1>1, <1>2, <1>3, <1>4, <3>1
    <3>2. CASE d # c
      <4>1. call'[d] = call[d] /\ At(d, "delete") BY <1>4, <2>1, <3>2 DEF At
      <4> QED BY <1>2, <4>1 DEF PInv, DeletesUnpaid
    <3> QED BY <3>1, <3>2
  <2> QED BY <2>1 DEF DeletesUnpaid
<1> QED BY <1>2, <1>5, <1>6, <1>7
    DEF PInv, DebitReachesAgency, DebitComesFirst, PaidPayoutIsDebited, OnePerRef

LEMMA RefundStep ==
    ASSUME PInv, NEW a \in Amounts, Refund(a) PROVE PInv'
<1>1. a \in Nat /\ brand \in Owner /\ MaxBalance \in Nat /\ MaxRefund \in Nat BY PayoutsAssumption
<1>2. wallet \in Wallets /\ refunded \in 0 .. MaxRefund BY DEF PInv, TypeOK, Wallets
<1>3. wallet' \in Wallets
  <2>1. wallet[brand].available + a \in 0 .. MaxBalance
    BY <1>1, <1>2 DEF Refund, Balance, Wallets
  <2> QED BY <1>1, <1>2, <2>1 DEF Refund, Wallets
<1>4. refunded' \in 0 .. MaxRefund BY <1>1, <1>2 DEF Refund
<1>5. UNCHANGED <<ledger, payouts, call>> BY DEF Refund
<1>6. TypeOK' BY <1>3, <1>4, <1>5 DEF PInv, TypeOK, Wallets
<1> QED BY <1>5, <1>6
    DEF PInv, DebitReachesAgency, DebitComesFirst, DebitIsRecorded, PaidPayoutIsDebited,
        DeletesUnpaid, OnePerRef, At

(* A deleted wallet keeps its balance. *)
LEMMA DeletionKeepsBalances ==
    ASSUME TypeOK, NEW w \in Owner, DeleteWallet(w)
    PROVE  wallet' \in Wallets /\ \A v \in Owner : wallet'[v].available = wallet[v].available
<1>1. wallet \in Wallets BY DEF TypeOK, Wallets
<1>2. wallet' = [wallet EXCEPT ![w].status = "deleted"] BY DEF DeleteWallet
<1>3. "deleted" \in L!WalletStatus BY DEF L!WalletStatus
<1> QED BY <1>1, <1>2, <1>3 DEF Wallets

LEMMA DeleteWalletStep ==
    ASSUME PInv, NEW w \in Owner, DeleteWallet(w) PROVE PInv'
<1>1. UNCHANGED <<ledger, payouts, refunded, call>> BY DEF DeleteWallet
<1>2. wallet' \in Wallets BY DeletionKeepsBalances DEF PInv
<1>3. TypeOK' BY <1>1, <1>2 DEF PInv, TypeOK, Wallets
<1> QED BY <1>1, <1>3
    DEF PInv, DebitReachesAgency, DebitComesFirst, DebitIsRecorded, PaidPayoutIsDebited,
        DeletesUnpaid, OnePerRef, At

(* What a ledger that has grown keeps of the payouts table. *)
LEMMA PayoutsStay ==
    ASSUME PInv, UNCHANGED payouts, \A k \in Key : ledger[k] # NoEntry => ledger'[k] # NoEntry
    PROVE  PaidPayoutIsDebited' /\ OnePerRef'
<1>1. \A i \in DOMAIN payouts : <<"payout_complete", i>> \in Key
  <2>1. payouts \in Seq(Payout) /\ Len(payouts) <= MaxPayouts /\ MaxPayouts \in Nat
    BY PayoutsAssumption DEF PInv, TypeOK
  <2>2. DOMAIN payouts \subseteq PayoutId BY <2>1 DEF PayoutId
  <2> QED BY <2>2 DEF Key
<1> QED BY <1>1 DEF PInv, PaidPayoutIsDebited, OnePerRef

(* payoutAgency, its transaction: both rows, or one that replays the other's. *)
LEMMA AgencyPayStep ==
    ASSUME PInv, NEW c \in Caller, AgencyPay(c) PROVE PInv'
<1> DEFINE k == call[c]
           d == AgencyDebit(k.r, k.a)
           e == AgencyCredit(k.r, k.a)
           res == L!ApplyBatch(wallet, ledger, <<d, e>>)
           left == [k EXCEPT !.pc = "manualdebit"]
<1>1. k.pc = "pay" /\ k \in Call /\ k.r \in Ref /\ k.a \in Amounts
  BY DEF AgencyPay, At, PInv, TypeOK, Call, Idle
<1>2. left \in Call /\ left.pc = "manualdebit"
  <2>1. k \in [pc : {"pay", "manualdebit", "manualcredit"}, r : Ref, a : Amounts, hit : BOOLEAN]
    BY <1>1 DEF Call, Idle
  <2>2. left \in [pc : {"pay", "manualdebit", "manualcredit"}, r : Ref, a : Amounts, hit : BOOLEAN]
    BY <2>1
  <2>3. left.pc = "manualdebit" BY <2>1
  <2> QED BY <2>2, <2>3 DEF Call
<1>3. d \in Row /\ e \in Row /\ d.key = <<"debit", k.r>> /\ e.key = <<"credit", k.r>>
      /\ e.moved /\ e.amount = d.amount
  <2>1. d \in Row /\ e \in Row BY <1>1, Rows
  <2> QED BY <2>1 DEF AgencyDebit, AgencyCredit, Entry
<1>4. wallet \in Wallets /\ ledger \in Ledgers BY DEF PInv, TypeOK, Wallets, Ledgers
<1>5. \/ res.ok /\ wallet' = res.wallet /\ ledger' = res.ledger /\ Goto(c, Idle)
      \/ UNCHANGED <<wallet, ledger>> /\ (Goto(c, left) \/ Goto(c, Idle))
  BY DEF AgencyPay
<1>6. UNCHANGED <<payouts, refunded>> BY DEF AgencyPay
<1> HIDE DEF d, e, left
<1>7. CASE UNCHANGED <<wallet, ledger>> /\ (Goto(c, left) \/ Goto(c, Idle))
  BY <1>2, <1>6, <1>7, QuietStep, IdleCall
<1>8. CASE res.ok /\ wallet' = res.wallet /\ ledger' = res.ledger /\ Goto(c, Idle)
  <2>1. wallet' \in Wallets /\ ledger' = Kept(Kept(ledger, d), e) BY <1>3, <1>4, <1>8, PairPosts
  <2> HIDE DEF res
  <2>2. PICK mid : mid = Kept(ledger, d) OBVIOUS
  <2>3. /\ mid \in Ledgers /\ mid[d.key] # NoEntry
        /\ mid[d.key] = IF ledger[d.key] = NoEntry THEN d ELSE ledger[d.key]
        /\ \A x \in Key : x # d.key => mid[x] = ledger[x]
    BY <1>3, <1>4, <2>2, KeptAdds
  <2>4. /\ ledger' \in Ledgers /\ ledger'[e.key] # NoEntry
        /\ ledger'[e.key] = IF mid[e.key] = NoEntry THEN e ELSE mid[e.key]
        /\ \A x \in Key : x # e.key => ledger'[x] = mid[x]
    BY <1>3, <2>1, <2>2, <2>3, KeptAdds
  <2>5. d.key # e.key /\ d.key \in Key /\ e.key \in Key BY <1>1, <1>3 DEF Key
  <2>6. \A x \in Key : ledger[x] # NoEntry => ledger'[x] = ledger[x] BY <2>3, <2>4, <2>5
  <2>7. TypeOK' BY <1>6, <1>8, <2>1, <2>4, GotoIs, IdleCall DEF PInv, TypeOK, Wallets, Ledgers
  <2>8. ASSUME NEW r \in Ref
        PROVE  /\ ledger'[<<"credit", r>>] # NoEntry => ledger'[<<"debit", r>>] # NoEntry
               /\ ledger'[<<"debit", r>>] # NoEntry /\ ledger'[<<"debit", r>>].moved
                    => /\ ledger'[<<"credit", r>>] # NoEntry /\ ledger'[<<"credit", r>>].moved
                       /\ ledger'[<<"credit", r>>].amount = ledger'[<<"debit", r>>].amount
    <3>1. <<"credit", r>> \in Key /\ <<"debit", r>> \in Key /\ <<"credit", r>> # <<"debit", r>>
      BY DEF Key
    <3>2. CASE r = k.r
      <4>1. ledger'[d.key] # NoEntry BY <2>3, <2>4, <2>5
      <4>2. CASE ledger[d.key] = NoEntry
        <5>1. ledger[e.key] = NoEntry BY <1>1, <1>3, <4>2 DEF PInv, DebitComesFirst
        <5>2. ledger'[d.key] = d /\ ledger'[e.key] = e BY <2>3, <2>4, <2>5, <4>2, <5>1
        <5> QED BY <1>3, <2>4, <3>2, <4>1, <5>2
      <4>3. CASE ledger[d.key] # NoEntry
        <5>1. ledger'[d.key] = ledger[d.key] BY <2>5, <2>6, <4>3
        <5>2. CASE ledger[d.key].moved
          <6>1. ledger[e.key] # NoEntry /\ ledger[e.key].moved
                /\ ledger[e.key].amount = ledger[d.key].amount
            BY <1>1, <1>3, <4>3, <5>2 DEF PInv, DebitReachesAgency
          <6>2. ledger'[e.key] = ledger[e.key] BY <2>5, <2>6, <6>1
          <6> QED BY <1>3, <3>2, <4>1, <5>1, <6>1, <6>2
        <5>3. CASE ~ledger[d.key].moved BY <1>3, <3>2, <4>1, <5>1, <5>3
        <5> QED BY <5>2, <5>3
      <4> QED BY <4>2, <4>3
    <3>3. CASE r # k.r
      <4>1. /\ <<"credit", r>> # d.key /\ <<"credit", r>> # e.key
            /\ <<"debit", r>> # d.key /\ <<"debit", r>> # e.key
        BY <1>3, <3>3
      <4>2. /\ ledger'[<<"credit", r>>] = ledger[<<"credit", r>>]
            /\ ledger'[<<"debit", r>>] = ledger[<<"debit", r>>]
        BY <2>3, <2>4, <3>1, <4>1
      <4> QED BY <4>2 DEF PInv, DebitComesFirst, DebitReachesAgency
    <3> QED BY <3>2, <3>3
  <2>9. DebitComesFirst' /\ DebitReachesAgency'
    BY <2>8, Zenon DEF DebitComesFirst, DebitReachesAgency
  <2>10. DebitIsRecorded' /\ DeletesUnpaid' BY <1>6, <1>8, <2>6, HandlersKnow, IdleCall
  <2>11. PaidPayoutIsDebited' /\ OnePerRef' BY <1>6, <2>6, PayoutsStay
  <2> QED BY <2>7, <2>9, <2>10, <2>11 DEF PInv
<1> QED BY <1>5, <1>7, <1>8

(* recordManualPayoutLedger: a row that moves nothing, if there was none. *)
LEMMA ManualIs ==
    ASSUME NEW m, m.key \in Key, Manual(m) \in Row, m \in Row, ledger \in Ledgers, Upsert(m)
    PROVE  /\ ledger' \in Ledgers /\ ledger'[m.key] # NoEntry
           /\ ledger[m.key] = NoEntry => ~ledger'[m.key].moved
           /\ \A k \in Key : ledger[k] # NoEntry \/ k # m.key => ledger'[k] = ledger[k]
<1>1. Manual(m) # NoEntry /\ ~Manual(m).moved BY PayoutsAssumption DEF Manual, Row
<1>2. CASE ledger[m.key] = NoEntry
  <2>1. ledger' = [ledger EXCEPT ![m.key] = Manual(m)] BY <1>2 DEF Upsert
  <2> QED BY <1>1, <1>2, <2>1 DEF Ledgers
<1>3. CASE ledger[m.key] # NoEntry BY <1>3 DEF Upsert
<1> QED BY <1>2, <1>3

LEMMA ManualDebitStep ==
    ASSUME PInv, NEW c \in Caller, ManualDebit(c) PROVE PInv'
<1> DEFINE k == call[c]
           d == AgencyDebit(k.r, k.a)
           next == [k EXCEPT !.pc = "manualcredit"]
<1>1. k.r \in Ref /\ k.a \in Amounts
      /\ k \in [pc : {"pay", "manualdebit", "manualcredit"}, r : Ref, a : Amounts, hit : BOOLEAN]
  BY DEF ManualDebit, At, PInv, TypeOK, Call, Idle
<1>2. next \in Call /\ next.pc = "manualcredit" /\ next.r = k.r
  <2>1. next \in [pc : {"pay", "manualdebit", "manualcredit"}, r : Ref, a : Amounts, hit : BOOLEAN]
    BY <1>1
  <2>2. next.pc = "manualcredit" /\ next.r = k.r BY <1>1
  <2> QED BY <2>1, <2>2 DEF Call
<1>3. d \in Row /\ Manual(d) \in Row /\ d.key = <<"debit", k.r>> /\ d.key \in Key
  <2>1. d \in Row /\ Manual(d) \in Row BY <1>1, Rows
  <2>2. d.key = <<"debit", k.r>> BY DEF AgencyDebit, Entry
  <2> QED BY <2>1, <2>2 DEF Row
<1>4. Upsert(d) /\ Goto(c, next) /\ UNCHANGED <<wallet, payouts, refunded>> BY DEF ManualDebit
<1> HIDE DEF d, next
<1>5. /\ ledger' \in Ledgers /\ ledger'[d.key] # NoEntry
      /\ ledger[d.key] = NoEntry => ~ledger'[d.key].moved
      /\ \A x \in Key : ledger[x] # NoEntry \/ x # d.key => ledger'[x] = ledger[x]
  <2>1. ledger \in Ledgers BY DEF PInv, TypeOK, Ledgers
  <2> QED BY <1>3, <1>4, <2>1, ManualIs
<1>6. /\ call' \in [Caller -> Call] /\ call'[c] = next
      /\ \A x \in Caller : x # c => call'[x] = call[x]
  BY <1>2, <1>4, GotoIs DEF PInv
<1>7. TypeOK' BY <1>4, <1>5, <1>6 DEF PInv, TypeOK, Ledgers
<1>8. ASSUME NEW r \in Ref
      PROVE  /\ ledger'[<<"credit", r>>] # NoEntry => ledger'[<<"debit", r>>] # NoEntry
             /\ ledger'[<<"debit", r>>] # NoEntry /\ ledger'[<<"debit", r>>].moved
                  => /\ ledger'[<<"credit", r>>] # NoEntry /\ ledger'[<<"credit", r>>].moved
                     /\ ledger'[<<"credit", r>>].amount = ledger'[<<"debit", r>>].amount
  <2>1. <<"credit", r>> \in Key /\ <<"debit", r>> \in Key /\ <<"credit", r>> # d.key
    BY <1>3 DEF Key
  <2>2. ledger'[<<"credit", r>>] = ledger[<<"credit", r>>] BY <1>5, <2>1
  <2>3. CASE <<"debit", r>> = d.key /\ ledger[d.key] = NoEntry BY <1>5, <2>3
  <2>4. CASE <<"debit", r>> # d.key \/ ledger[d.key] # NoEntry
    <3>1. ledger'[<<"debit", r>>] = ledger[<<"debit", r>>] BY <1>5, <2>1, <2>4
    <3> QED BY <2>2, <3>1 DEF PInv, DebitComesFirst, DebitReachesAgency
  <2> QED BY <2>3, <2>4
<1>9. DebitComesFirst' /\ DebitReachesAgency'
  BY <1>8, Zenon DEF DebitComesFirst, DebitReachesAgency
<1>10. DebitIsRecorded'
  <2>1. ASSUME NEW x \in Caller, At(x, "manualcredit")'
        PROVE ledger'[<<"debit", call'[x].r>>] # NoEntry
    <3>1. CASE x = c BY <1>2, <1>3, <1>5, <1>6, <3>1
    <3>2. CASE x # c
      <4>1. call'[x] = call[x] /\ At(x, "manualcredit") BY <1>6, <2>1, <3>2 DEF At
      <4>2. call[x].r \in Ref BY <4>1 DEF PInv, TypeOK, Call, At, Idle
      <4>3. <<"debit", call[x].r>> \in Key BY <4>2 DEF Key
      <4>4. ledger[<<"debit", call[x].r>>] # NoEntry BY <4>1 DEF PInv, DebitIsRecorded
      <4> QED BY <1>5, <4>1, <4>3, <4>4
    <3> QED BY <3>1, <3>2
  <2> QED BY <2>1 DEF DebitIsRecorded
<1>11. DeletesUnpaid'
  <2>1. ASSUME NEW x \in Caller, At(x, "delete")'
        PROVE call'[x].i \in DOMAIN payouts' /\ payouts'[call'[x].i].status # "paid"
    <3>1. x # c BY <1>2, <1>6, <2>1 DEF At
    <3>2. call'[x] = call[x] /\ At(x, "delete") BY <1>6, <2>1, <3>1 DEF At
    <3> QED BY <1>4, <3>2 DEF PInv, DeletesUnpaid
  <2> QED BY <2>1 DEF DeletesUnpaid
<1>12. PaidPayoutIsDebited' /\ OnePerRef'
  <2>1. \A x \in Key : ledger[x] # NoEntry => ledger'[x] # NoEntry BY <1>5
  <2> QED BY <1>4, <2>1, PayoutsStay
<1> QED BY <1>7, <1>9, <1>10, <1>11, <1>12 DEF PInv

LEMMA ManualCreditStep ==
    ASSUME PInv, NEW c \in Caller, ManualCredit(c) PROVE PInv'
<1> DEFINE k == call[c]
           e == AgencyCredit(k.r, k.a)
<1>1. k.r \in Ref /\ k.a \in Amounts /\ k.pc = "manualcredit"
  BY DEF ManualCredit, At, PInv, TypeOK, Call, Idle
<1>2. e \in Row /\ Manual(e) \in Row /\ e.key = <<"credit", k.r>> /\ e.key \in Key
  <2>1. e \in Row /\ Manual(e) \in Row BY <1>1, Rows
  <2>2. e.key = <<"credit", k.r>> BY DEF AgencyCredit, Entry
  <2> QED BY <2>1, <2>2 DEF Row
<1>3. Upsert(e) /\ Goto(c, Idle) /\ UNCHANGED <<wallet, payouts, refunded>> BY DEF ManualCredit
<1>4. ledger[<<"debit", k.r>>] # NoEntry BY <1>1 DEF PInv, DebitIsRecorded, At
<1> HIDE DEF e
<1>5. /\ ledger' \in Ledgers
      /\ \A x \in Key : ledger[x] # NoEntry \/ x # e.key => ledger'[x] = ledger[x]
  <2>1. ledger \in Ledgers BY DEF PInv, TypeOK, Ledgers
  <2> QED BY <1>2, <1>3, <2>1, ManualIs
<1>6. TypeOK' BY <1>3, <1>5, GotoIs, IdleCall DEF PInv, TypeOK, Ledgers
<1>7. ASSUME NEW r \in Ref
      PROVE  /\ ledger'[<<"credit", r>>] # NoEntry => ledger'[<<"debit", r>>] # NoEntry
             /\ ledger'[<<"debit", r>>] # NoEntry /\ ledger'[<<"debit", r>>].moved
                  => /\ ledger'[<<"credit", r>>] # NoEntry /\ ledger'[<<"credit", r>>].moved
                     /\ ledger'[<<"credit", r>>].amount = ledger'[<<"debit", r>>].amount
  <2>1. <<"credit", r>> \in Key /\ <<"debit", r>> \in Key /\ <<"debit", r>> # e.key
    BY <1>2 DEF Key
  <2>2. ledger'[<<"debit", r>>] = ledger[<<"debit", r>>] BY <1>5, <2>1
  <2>3. CASE <<"credit", r>> = e.key /\ ledger[e.key] = NoEntry
    <3>1. r = k.r BY <1>2, <2>3
    <3>2. ~ledger[<<"debit", r>>].moved BY <1>4, <2>3, <3>1 DEF PInv, DebitReachesAgency
    <3> QED BY <1>4, <2>2, <3>1, <3>2
  <2>4. CASE <<"credit", r>> # e.key \/ ledger[e.key] # NoEntry
    <3>1. ledger'[<<"credit", r>>] = ledger[<<"credit", r>>] BY <1>5, <2>1, <2>4
    <3> QED BY <2>2, <3>1 DEF PInv, DebitComesFirst, DebitReachesAgency
  <2> QED BY <2>3, <2>4
<1>8. DebitComesFirst' /\ DebitReachesAgency'
  BY <1>7, Zenon DEF DebitComesFirst, DebitReachesAgency
<1>9. \A x \in Key : ledger[x] # NoEntry => ledger'[x] # NoEntry BY <1>5
<1>10. DebitIsRecorded' /\ DeletesUnpaid' BY <1>3, <1>9, HandlersKnow, IdleCall
<1>11. PaidPayoutIsDebited' /\ OnePerRef' BY <1>3, <1>9, PayoutsStay
<1> QED BY <1>6, <1>8, <1>10, <1>11 DEF PInv
-----------------------------------------------------------------------------
(* payoutMediator: the row and, for a paid one, the debit under its id. *)
LEMMA PayoutWriteStep ==
    ASSUME PInv, NEW c \in Caller, PayoutWrite(c) PROVE PInv'
<1> DEFINE k == call[c]
           id == Len(payouts) + 1
           m == Entry("debit", <<"payout_complete", id>>, "payout_complete", mediator, k.a)
           batch == IF k.status = "paid" THEN <<m>> ELSE <<>>
           res == L!ApplyBatch(wallet, ledger, batch)
           new == [ref |-> k.r, amount |-> k.a, status |-> k.status, deleted |-> FALSE]
<1>1. k.r \in Ref /\ k.a \in Amounts /\ k.status \in {"paid", "recorded"}
  <2>1. At(c, "payout") BY DEF PayoutWrite
  <2>2. k \in Call BY DEF PInv, TypeOK
  <2> QED BY <2>1, <2>2 DEF At, Call, Idle
<1>2. wallet \in Wallets /\ ledger \in Ledgers /\ payouts \in Seq(Payout)
      /\ Len(payouts) <= MaxPayouts /\ MaxPayouts \in Nat
  BY PayoutsAssumption DEF PInv, TypeOK, Wallets, Ledgers
<1>3. \/ /\ id \in PayoutId /\ ~RefTaken(k.r) /\ res.ok
         /\ payouts' = Append(payouts, new) /\ wallet' = res.wallet /\ ledger' = res.ledger
      \/ UNCHANGED <<payouts, wallet, ledger>>
  BY DEF PayoutWrite
<1>4. Goto(c, Idle) /\ UNCHANGED refunded BY DEF PayoutWrite
<1>5. CASE UNCHANGED <<payouts, wallet, ledger>> BY <1>4, <1>5, QuietStep, IdleCall
<1>6. CASE /\ id \in PayoutId /\ ~RefTaken(k.r) /\ res.ok
           /\ payouts' = Append(payouts, new) /\ wallet' = res.wallet /\ ledger' = res.ledger
  <2>1. m \in Row /\ m.key = <<"payout_complete", id>> /\ m.key \in Key
    <3>1. m \in Row BY <1>1, <1>6, PayoutRow
    <3>2. m.key = <<"payout_complete", id>> BY DEF Entry
    <3> QED BY <3>1, <3>2 DEF Row
  <2>2. new \in Payout /\ new.ref = k.r /\ new.status = k.status /\ ~new.deleted
    BY <1>1 DEF Payout
  <2> HIDE DEF new, m
  <2>3. /\ wallet' \in Wallets /\ ledger' \in Ledgers
        /\ k.status = "paid" => ledger'[m.key] # NoEntry
        /\ \A x \in Key : ledger[x] # NoEntry \/ x # m.key => ledger'[x] = ledger[x]
    <3>1. CASE k.status = "paid"
      <4>1. batch = <<m>> BY <3>1
      <4> HIDE DEF batch
      <4>2. res.wallet \in Wallets /\ res.ledger = Kept(ledger, m)
        <5>1. res = L!ApplyBatch(wallet, ledger, <<m>>) BY <4>1
        <5> HIDE DEF res
        <5> QED BY <1>2, <1>6, <2>1, <5>1, OnePosts
      <4> HIDE DEF res
      <4>3. /\ Kept(ledger, m) \in Ledgers /\ Kept(ledger, m)[m.key] # NoEntry
            /\ Kept(ledger, m)[m.key] = IF ledger[m.key] = NoEntry THEN m ELSE ledger[m.key]
            /\ \A x \in Key : x # m.key => Kept(ledger, m)[x] = ledger[x]
        BY <1>2, <2>1, KeptAdds
      <4> QED BY <1>6, <2>1, <4>2, <4>3
    <3>2. CASE k.status # "paid"
      <4>1. batch = <<>> BY <3>2
      <4> HIDE DEF batch
      <4>2. res.wallet = wallet /\ res.ledger = ledger
        <5>1. res = L!ApplyBatch(wallet, ledger, <<>>) BY <4>1
        <5> HIDE DEF res
        <5> QED BY <5>1, NonePosts
      <4> HIDE DEF res
      <4> QED BY <1>2, <1>6, <3>2, <4>2
    <3> QED BY <3>1, <3>2
  <2> HIDE DEF res
  <2>4. /\ payouts' \in Seq(Payout) /\ Len(payouts') = id /\ payouts'[id] = new
        /\ DOMAIN payouts = 1 .. Len(payouts) /\ DOMAIN payouts' = 1 .. id
        /\ \A i \in DOMAIN payouts : payouts'[i] = payouts[i]
    <3> HIDE DEF id
    <3>1. id = Len(payouts) + 1 /\ Len(payouts) \in Nat BY <1>2 DEF id
    <3> QED BY <1>2, <1>6, <2>2, <3>1
  <2>5. Len(payouts) \in Nat /\ id \in Nat /\ id <= MaxPayouts BY <1>2, <1>6 DEF PayoutId
  <2>6. DOMAIN payouts' = DOMAIN payouts \cup {id} /\ id \notin DOMAIN payouts BY <2>4, <2>5
  <2>7. TypeOK' BY <1>4, <2>3, <2>4, <2>5, GotoIs, IdleCall DEF PInv, TypeOK, Wallets, Ledgers
  <2> HIDE DEF id
  <2>8. \A x \in Key : ledger[x] # NoEntry => ledger'[x] = ledger[x] BY <2>3
  <2>9. \A r \in Ref : /\ ledger'[<<"debit", r>>] = ledger[<<"debit", r>>]
                       /\ ledger'[<<"credit", r>>] = ledger[<<"credit", r>>]
    <3>1. \A r \in Ref : /\ <<"debit", r>> \in Key /\ <<"credit", r>> \in Key
                         /\ <<"debit", r>> # m.key /\ <<"credit", r>> # m.key
      BY <2>1 DEF Key
    <3> QED BY <2>3, <3>1
  <2>10. DebitComesFirst' /\ DebitReachesAgency'
    BY <2>9 DEF PInv, DebitComesFirst, DebitReachesAgency
  <2>11. DebitIsRecorded' /\ DeletesUnpaid' BY <1>4, <2>4, <2>6, <2>8, HandlersKnow, IdleCall
  <2>12. PaidPayoutIsDebited'
    <3>1. ASSUME NEW i \in DOMAIN payouts', payouts'[i].status = "paid"
          PROVE ledger'[<<"payout_complete", i>>] # NoEntry /\ ~payouts'[i].deleted
      <4>1. CASE i = id BY <2>1, <2>2, <2>3, <2>4, <3>1, <4>1
      <4>2. CASE i \in DOMAIN payouts
        <5>1. ledger[<<"payout_complete", i>>] # NoEntry /\ ~payouts[i].deleted
          BY <2>4, <3>1, <4>2 DEF PInv, PaidPayoutIsDebited
        <5>2. <<"payout_complete", i>> \in Key
          BY <1>2, <2>4, <4>2 DEF Key, PayoutId
        <5> QED BY <2>4, <2>8, <4>2, <5>1, <5>2
      <4> QED BY <2>6, <4>1, <4>2
    <3> QED BY <3>1 DEF PaidPayoutIsDebited
  <2>13. OnePerRef'
    <3>1. \A i \in DOMAIN payouts : payouts'[i].ref # payouts'[id].ref
      BY <1>6, <2>2, <2>4 DEF RefTaken
    <3>2. \A i, j \in DOMAIN payouts : payouts'[i].ref = payouts'[j].ref => i = j
      BY <2>4 DEF PInv, OnePerRef
    <3> QED BY <2>6, <3>1, <3>2 DEF OnePerRef
  <2> QED BY <2>7, <2>10, <2>11, <2>12, <2>13 DEF PInv
<1> QED BY <1>3, <1>5, <1>6

(* deletePayout: the row it saw without a debit is none that was paid. *)
LEMMA DeleteWriteStep ==
    ASSUME PInv, NEW c \in Caller, DeleteWrite(c) PROVE PInv'
<1> DEFINE k == call[c]
<1>1. k.i \in DOMAIN payouts /\ payouts[k.i].status # "paid"
  BY DEF DeleteWrite, PInv, DeletesUnpaid
<1>2. payouts \in Seq(Payout) BY DEF PInv, TypeOK
<1>3. payouts' = [payouts EXCEPT ![k.i].deleted = TRUE] BY DEF DeleteWrite
<1>4. Goto(c, Idle) /\ UNCHANGED <<wallet, ledger, refunded>> BY DEF DeleteWrite
<1>5. \A i \in DOMAIN payouts : payouts[i] \in Payout BY <1>2
<1>6. DOMAIN payouts' = DOMAIN payouts BY <1>3
<1>7. \A i \in DOMAIN payouts : /\ payouts'[i] \in Payout
                                /\ payouts'[i].status = payouts[i].status
                                /\ payouts'[i].ref = payouts[i].ref
                                /\ i # k.i => payouts'[i] = payouts[i]
  BY <1>1, <1>3, <1>5 DEF Payout
<1>8. payouts' \in Seq(Payout) /\ Len(payouts') = Len(payouts)
  <2>1. DOMAIN payouts = 1 .. Len(payouts) /\ Len(payouts) \in Nat BY <1>2
  <2>2. payouts' = [i \in 1 .. Len(payouts) |-> payouts'[i]] BY <1>3, <2>1
  <2> QED BY <1>7, <2>1, <2>2
<1>9. TypeOK' BY <1>4, <1>8, GotoIs, IdleCall DEF PInv, TypeOK
<1>10. DebitIsRecorded' /\ DeletesUnpaid'
  <2>1. \A x \in Key : ledger[x] # NoEntry => ledger'[x] # NoEntry BY <1>4
  <2>2. \A i \in DOMAIN payouts : i \in DOMAIN payouts' /\ payouts'[i].status = payouts[i].status
    BY <1>6, <1>7
  <2> QED BY <1>4, <2>1, <2>2, HandlersKnow, IdleCall
<1>11. PaidPayoutIsDebited'
  <2>1. ASSUME NEW i \in DOMAIN payouts', payouts'[i].status = "paid"
        PROVE ledger'[<<"payout_complete", i>>] # NoEntry /\ ~payouts'[i].deleted
    <3>1. i # k.i /\ i \in DOMAIN payouts /\ payouts[i].status = "paid"
      BY <1>1, <1>6, <1>7, <2>1
    <3> QED BY <1>4, <1>7, <3>1 DEF PInv, PaidPayoutIsDebited
  <2> QED BY <2>1 DEF PaidPayoutIsDebited
<1>12. OnePerRef' BY <1>6, <1>7 DEF PInv, OnePerRef
<1> QED BY <1>4, <1>9, <1>10, <1>11, <1>12 DEF PInv, DebitReachesAgency, DebitComesFirst
-----------------------------------------------------------------------------
LEMMA NextKeepsInvariant == PInv /\ [Next]_vars => PInv'
<1> SUFFICES ASSUME PInv, [Next]_vars PROVE PInv' OBVIOUS
<1>1. ASSUME NEW c \in Caller, NEW r \in Ref, NEW a \in Amounts,
             AgencyRead(c, r, a) \/ \E status \in {"paid", "recorded"} : PayoutRead(c, r, a, status)
      PROVE PInv'
  BY <1>1, ReadSteps
<1>2. ASSUME NEW c \in Caller, NEW i \in PayoutId, DeleteRead(c, i) PROVE PInv'
  BY <1>2, DeleteReadStep
<1>3. ASSUME NEW c \in Caller, AgencyPay(c) PROVE PInv' BY <1>3, AgencyPayStep
<1>4. ASSUME NEW c \in Caller, ManualDebit(c) PROVE PInv' BY <1>4, ManualDebitStep
<1>5. ASSUME NEW c \in Caller, ManualCredit(c) PROVE PInv' BY <1>5, ManualCreditStep
<1>6. ASSUME NEW c \in Caller, PayoutWrite(c) PROVE PInv' BY <1>6, PayoutWriteStep
<1>7. ASSUME NEW c \in Caller, DeleteWrite(c) PROVE PInv' BY <1>7, DeleteWriteStep
<1>8. ASSUME NEW c \in Caller, Crash(c) PROVE PInv' BY <1>8, QuietStep, IdleCall DEF Crash
<1>9. ASSUME NEW a \in Amounts, Refund(a) PROVE PInv' BY <1>9, RefundStep
<1>10. ASSUME NEW w \in Owner, DeleteWallet(w) PROVE PInv' BY <1>10, DeleteWalletStep
<1>11. CASE UNCHANGED vars
  <2>1. UNCHANGED <<wallet, ledger, payouts, refunded, call>> BY <1>11 DEF vars
  <2> QED BY <2>1
      DEF PInv, TypeOK, DebitReachesAgency, DebitComesFirst, DebitIsRecorded,
          PaidPayoutIsDebited, DeletesUnpaid, OnePerRef, At
<1> QED BY <1>1, <1>2, <1>3, <1>4, <1>5, <1>6, <1>7, <1>8, <1>9, <1>10, <1>11,
       Zenon DEF Next

-----------------------------------------------------------------------------
(* Balances are what the rows that moved money add up to; the rows are      *)
(* finitely many at any time.                                               *)
BalInv == Finite(ledger) /\ BalancesMatchLedger

LEMMA BalancesAre ==
    ASSUME TypeOK
    PROVE  /\ wallet \in Wallets /\ ledger \in Ledgers
           /\ \A w \in Owner : /\ Balance(w) = wallet[w].available /\ Balance(w) \in Int
                               /\ InitialWallet[w].available \in Int
           /\ refunded \in Int
           /\ BalancesMatchLedger <=> \A w \in Owner :
                 Balance(w) = InitialWallet[w].available
                                + (IF w = brand THEN refunded ELSE 0) + Net(ledger, w)
<1>1. \A w : Moved(w) = MovedIn(ledger, w) BY DEF Moved, MovedIn
<1>2. wallet \in Wallets /\ ledger \in Ledgers /\ refunded \in Int
  BY PayoutsAssumption DEF TypeOK, Wallets, Ledgers
<1>3. \A w \in Owner : /\ Balance(w) = wallet[w].available /\ Balance(w) \in Int
                      /\ InitialWallet[w].available \in Int
  BY <1>2, PayoutsAssumption DEF Wallets, Balance
<1>4. \A w : Net(ledger, w) = SumFunctionOnSet([k \in Key |-> L!Signed(ledger[k])], Moved(w))
  BY <1>1 DEF Net
<1>5. BalancesMatchLedger <=> \A w \in Owner :
                 Balance(w) = InitialWallet[w].available
                                + (IF w = brand THEN refunded ELSE 0) + Net(ledger, w)
  BY <1>4 DEF BalancesMatchLedger
<1> QED BY <1>2, <1>3, <1>5

(* A step whose balances follow the rows. *)
LEMMA FollowingStep ==
    ASSUME PInv, PInv', BalInv, UNCHANGED refunded, Follows(wallet, ledger, wallet', ledger')
    PROVE  BalInv'
<1>1. ASSUME NEW w \in Owner
      PROVE  wallet'[w].available = InitialWallet[w].available
                                    + (IF w = brand THEN refunded ELSE 0) + Net(ledger', w)
  <2>1. /\ Net(ledger, w) \in Int /\ Net(ledger', w) \in Int
        /\ wallet[w].available \in Int /\ wallet'[w].available \in Int
        /\ InitialWallet[w].available \in Int /\ refunded \in Int
    <3>1. ledger' \in Ledgers /\ wallet' \in Wallets
      BY DEF PInv, TypeOK, Ledgers, Wallets
    <3> QED BY <3>1, BalancesAre, NetIsInt, PayoutsAssumption DEF PInv, BalInv, Follows, Wallets, Balance
  <2>2. wallet[w].available = InitialWallet[w].available
                               + (IF w = brand THEN refunded ELSE 0) + Net(ledger, w)
    BY BalancesAre DEF PInv, BalInv, Balance
  <2>3. wallet'[w].available - Net(ledger', w) = wallet[w].available - Net(ledger, w)
    BY DEF Follows
  <2> QED BY <2>1, <2>2, <2>3
<1>2. \A w : Moved(w)' = MovedIn(ledger', w) BY DEF Moved, MovedIn
<1> QED BY <1>1, <1>2 DEF BalInv, BalancesMatchLedger, Balance, Net, Follows

LEMMA InitBalances == Init => BalInv
<1> SUFFICES ASSUME Init PROVE BalInv OBVIOUS
<1>1. \A k \in Key : ledger[k] = NoEntry BY DEF Init
<1>2. {k \in Key : ledger[k] # NoEntry} = {} /\ \A w : Moved(w) = {} BY <1>1 DEF Moved
<1>3. \A w \in Owner : Balance(w) = InitialWallet[w].available /\ Balance(w) \in Int
  BY PayoutsAssumption DEF Init, Balance
<1>4. Finite(ledger) BY <1>2, FS_EmptySet DEF Finite
<1>5. \A w : SumFunctionOnSet([k \in Key |-> L!Signed(ledger[k])], Moved(w)) = 0
  BY <1>2, SumOfNothing
<1>6. refunded = 0 BY DEF Init
<1> QED BY <1>3, <1>4, <1>5, <1>6 DEF BalInv, BalancesMatchLedger

(* What each handler that moves money does to balances and rows. *)
LEMMA AgencyPayFollows ==
    ASSUME PInv, Finite(ledger), NEW c \in Caller, AgencyPay(c)
    PROVE  Follows(wallet, ledger, wallet', ledger')
<1> DEFINE k == call[c]
           d == AgencyDebit(k.r, k.a)
           e == AgencyCredit(k.r, k.a)
           res == L!ApplyBatch(wallet, ledger, <<d, e>>)
<1>1. k.r \in Ref /\ k.a \in Amounts BY DEF AgencyPay, At, PInv, TypeOK, Call, Idle
<1>2. d \in Row /\ e \in Row BY <1>1, Rows
<1>3. d.moved /\ e.moved BY DEF AgencyDebit, AgencyCredit, Entry
<1>4. \/ res.ok /\ wallet' = res.wallet /\ ledger' = res.ledger
      \/ UNCHANGED <<wallet, ledger>>
  BY DEF AgencyPay
<1>5. wallet \in Wallets /\ ledger \in Ledgers BY DEF PInv, TypeOK, Wallets, Ledgers
<1> HIDE DEF d, e
<1>6. res.ok => Follows(wallet, ledger, res.wallet, res.ledger)
  <2> HIDE DEF res
  <2>1. res = L!ApplyBatch(wallet, ledger, <<d, e>>) BY DEF res
  <2> QED BY <1>2, <1>3, <1>5, <2>1, PairPosts
<1>7. Follows(wallet, ledger, wallet, ledger) BY DEF Follows
<1> QED BY <1>4, <1>6, <1>7

LEMMA PayoutWriteFollows ==
    ASSUME PInv, Finite(ledger), NEW c \in Caller, PayoutWrite(c)
    PROVE  Follows(wallet, ledger, wallet', ledger')
<1> DEFINE k == call[c]
           id == Len(payouts) + 1
           m == Entry("debit", <<"payout_complete", id>>, "payout_complete", mediator, k.a)
           batch == IF k.status = "paid" THEN <<m>> ELSE <<>>
           res == L!ApplyBatch(wallet, ledger, batch)
<1>1. k.a \in Amounts
  <2>1. At(c, "payout") BY DEF PayoutWrite
  <2>2. k \in Call BY DEF PInv, TypeOK
  <2> QED BY <2>1, <2>2 DEF At, Call, Idle
<1>2. wallet \in Wallets /\ ledger \in Ledgers BY DEF PInv, TypeOK, Wallets, Ledgers
<1>3. \/ id \in PayoutId /\ res.ok /\ wallet' = res.wallet /\ ledger' = res.ledger
      \/ UNCHANGED <<wallet, ledger>>
  BY DEF PayoutWrite
<1>4. Follows(wallet, ledger, wallet, ledger) BY DEF Follows
<1>5. id \in PayoutId => m \in Row /\ m.moved BY <1>1, PayoutRow DEF Entry
<1> HIDE DEF m
<1>6. CASE k.status = "paid"
  <2>1. batch = <<m>> BY <1>6
  <2> HIDE DEF batch
  <2>2. res = L!ApplyBatch(wallet, ledger, <<m>>) BY <2>1
  <2> HIDE DEF res
  <2> QED BY <1>2, <1>3, <1>4, <1>5, <2>2, OnePosts
<1>7. CASE k.status # "paid"
  <2>1. batch = <<>> BY <1>7
  <2> HIDE DEF batch
  <2>2. res = L!ApplyBatch(wallet, ledger, <<>>) BY <2>1
  <2> HIDE DEF res
  <2>3. res.wallet = wallet /\ res.ledger = ledger BY <2>2, NonePosts
  <2> QED BY <1>3, <1>4, <2>3
<1> QED BY <1>6, <1>7

(* A row recorded without funds is in the ledger and moves no balance. *)
LEMMA ManualFollows ==
    ASSUME PInv, Finite(ledger), NEW c \in Caller, ManualDebit(c) \/ ManualCredit(c)
    PROVE  Follows(wallet, ledger, wallet', ledger')
<1> DEFINE k == call[c]
<1>1. k.r \in Ref /\ k.a \in Amounts
  BY DEF ManualDebit, ManualCredit, At, PInv, TypeOK, Call, Idle
<1>2. PICK m : /\ m \in Row /\ Manual(m) \in Row /\ Upsert(m) /\ UNCHANGED wallet
  BY <1>1, Rows DEF ManualDebit, ManualCredit
<1>3. PICK n : n = Manual(m) OBVIOUS
<1>4. n \in Row /\ n.key = m.key /\ ~n.moved BY <1>2, <1>3 DEF Manual, Row
<1>5. ledger' = Kept(ledger, n) BY <1>2, <1>3, <1>4 DEF Upsert, Kept
<1>6. ledger \in Ledgers /\ \A w \in Owner : wallet[w].available \in Int
  BY BalancesAre DEF PInv
<1>7. Finite(ledger') /\ \A w : Net(ledger', w) = Net(ledger, w) + 0
  BY <1>4, <1>5, <1>6, NetOfKept
<1> QED BY <1>2, <1>6, <1>7, NetIsInt DEF Follows

LEMMA RefundBalances ==
    ASSUME PInv, BalInv, NEW a \in Amounts, Refund(a) PROVE BalInv'
<1>1. a \in Nat /\ brand \in Owner BY PayoutsAssumption
<1>2. UNCHANGED ledger /\ refunded' = refunded + a
      /\ wallet' = [wallet EXCEPT ![brand].available = @ + a]
  BY DEF Refund
<1>3. \A w \in Owner : wallet'[w].available = Balance(w) + (IF w = brand THEN a ELSE 0)
  BY <1>1, <1>2, BalancesAre DEF PInv, Balance, Wallets
<1>4. ASSUME NEW w \in Owner
      PROVE  wallet'[w].available = InitialWallet[w].available
                                    + (IF w = brand THEN refunded' ELSE 0) + Net(ledger, w)
  <2>1. Net(ledger, w) \in Int BY BalancesAre, NetIsInt DEF PInv, BalInv
  <2>2. Balance(w) = InitialWallet[w].available
                       + (IF w = brand THEN refunded ELSE 0) + Net(ledger, w)
    BY BalancesAre DEF PInv, BalInv
  <2> QED BY <1>1, <1>2, <1>3, <2>1, <2>2, BalancesAre DEF PInv
<1>5. \A w : Moved(w)' = MovedIn(ledger, w) BY <1>2 DEF Moved, MovedIn
<1> QED BY <1>2, <1>4, <1>5 DEF BalInv, BalancesMatchLedger, Balance, Net, Finite

LEMMA NextBalances == PInv /\ BalInv /\ [Next]_vars => BalInv'
<1> SUFFICES ASSUME PInv, BalInv, [Next]_vars PROVE BalInv' OBVIOUS
<1>0. PInv' BY NextKeepsInvariant
<1>1. ASSUME UNCHANGED <<wallet, ledger, refunded>> PROVE BalInv'
  BY <1>1 DEF BalInv, Finite, BalancesMatchLedger, Balance, Moved
<1>2. ASSUME NEW c \in Caller, AgencyPay(c) \/ PayoutWrite(c) \/ ManualDebit(c) \/ ManualCredit(c)
      PROVE  BalInv'
  <2>1. UNCHANGED refunded BY <1>2 DEF AgencyPay, PayoutWrite, ManualDebit, ManualCredit
  <2>2. Follows(wallet, ledger, wallet', ledger')
    BY <1>2, AgencyPayFollows, PayoutWriteFollows, ManualFollows DEF BalInv
  <2> QED BY <1>0, <2>1, <2>2, FollowingStep
<1>3. CASE \E c \in Caller :
             \/ \E r \in Ref, a \in Amounts :
                   \/ AgencyRead(c, r, a)
                   \/ \E status \in {"paid", "recorded"} : PayoutRead(c, r, a, status)
             \/ \E i \in PayoutId : DeleteRead(c, i)
             \/ DeleteWrite(c) \/ Crash(c)
  BY <1>1, <1>3 DEF AgencyRead, PayoutRead, DeleteRead, DeleteWrite, Crash
<1>4. ASSUME NEW w \in Owner, DeleteWallet(w) PROVE BalInv'
  <2>1. UNCHANGED <<ledger, refunded>> BY <1>4 DEF DeleteWallet
  <2>2. \A v \in Owner : wallet'[v].available = wallet[v].available
    BY <1>4, DeletionKeepsBalances DEF PInv
  <2> QED BY <2>1, <2>2 DEF BalInv, Finite, BalancesMatchLedger, Balance, Moved
<1>5. CASE UNCHANGED vars BY <1>1, <1>5 DEF vars
<1> QED BY <1>2, <1>3, <1>4, <1>5, RefundBalances, Zenon DEF Next
-----------------------------------------------------------------------------
(* The invariant of payoutAgency, payoutMediator and deletePayout: balances *)
(* stay in range, and the tables keep the order in which rows are written.  *)
THEOREM PayoutsInvariant == Spec => []PInv
<1>1. Init => PInv BY InitInvariant
<1>2. PInv /\ [Next]_vars => PInv' BY NextKeepsInvariant
<1> QED BY <1>1, <1>2, PTL DEF Spec

(* What payoutAgency debits a brand reaches the agency. *)
THEOREM DebitsReachAgencies == Spec => []DebitReachesAgency
<1>1. PInv => DebitReachesAgency BY DEF PInv
<1> QED BY <1>1, PayoutsInvariant, PTL

(* A payout that payoutMediator marks paid is debited, and not deleted. *)
THEOREM PaidPayoutsAreDebited == Spec => []PaidPayoutIsDebited
<1>1. PInv => PaidPayoutIsDebited BY DEF PInv
<1> QED BY <1>1, PayoutsInvariant, PTL

(* A reference pays once, however often payoutMediator is called with it. *)
THEOREM RefsPayOnce == Spec => []RefPaysOnce
<1>1. ASSUME PInv, NEW r \in Ref
      PROVE  Cardinality({i \in DOMAIN payouts : payouts[i].ref = r}) <= 1
  <2> DEFINE S == {i \in DOMAIN payouts : payouts[i].ref = r}
  <2>1. CASE S = {} BY <2>1, FS_EmptySet
  <2>2. CASE S # {}
    <3>1. PICK i \in S : TRUE BY <2>2
    <3>2. S = {i} BY <1>1, <3>1 DEF PInv, OnePerRef
    <3>3. Cardinality({i}) = 1 BY FS_Singleton
    <3> QED BY <3>2, <3>3
  <2> QED BY <2>1, <2>2
<1>2. PInv => RefPaysOnce BY <1>1 DEF RefPaysOnce
<1> QED BY <1>2, PayoutsInvariant, PTL

(* For any number of owners, callers, references and amounts, every balance *)
(* is what the rows that moved money for its owner add up to, with the      *)
(* refunds of the brand: nothing that payoutAgency records without funds,   *)
(* and no transaction that failed, counts.                                  *)
THEOREM BalancesFollowLedger == Spec => []BalancesMatchLedger
<1>1. PInv /\ BalInv => BalancesMatchLedger BY DEF BalInv
<1>2. Init => PInv /\ BalInv BY InitInvariant, InitBalances
<1>3. (PInv /\ BalInv) /\ [Next]_vars => (PInv /\ BalInv)'
  BY NextKeepsInvariant, NextBalances
<1> QED BY <1>1, <1>2, <1>3, PTL DEF Spec
=============================================================================

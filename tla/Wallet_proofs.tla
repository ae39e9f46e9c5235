---------------------------- MODULE Wallet_proofs ----------------------------
(***************************************************************************)
(* The two services that every handler calls.                              *)
(*                                                                         *)
(* The wallet service is safe for every set of wallets, keys, batches and  *)
(* concurrent requests, and every ceiling.                                 *)
(*                                                                         *)
(* IInv is the inductive invariant: BalanceWithinBounds alone is not, for  *)
(* a commit installs a balance computed earlier.  That balance is still in *)
(* range then because its row was locked in between (RowsExclusive), and a *)
(* row under a key is still new because the key was.                       *)
(*                                                                         *)
(* From it follow that balances are sums of ledger rows, and that the      *)
(* transactions implement a service that posts whole batches.              *)
(*                                                                         *)
(* The workflow engine, at the end, moves orders legally and leaves frozen *)
(* ones alone, for every set of orders and callers.                        *)
(***************************************************************************)
EXTENDS Wallet, OrderWorkflow, Sums, TLAPS

USE DEF InTransaction, DeleteStep

(* A mutation a request is at is one of a batch. *)
LEMMA CurrentType ==
    ASSUME IInv, NEW r \in Request, pc[r] \in {"lookup", "write", "insert"}
    PROVE  Current(r) \in Mutation /\ batch[r] \in Batches
           /\ pos[r] \in 1 .. Len(batch[r]) /\ Len(batch[r]) \in Nat
<1>1. InBatch(r) BY DEF IInv
<1>2. batch[r] \in Batches /\ pos[r] \in 1 .. Len(batch[r]) BY <1>1 DEF InBatch
<1>3. batch[r] \in Seq(Mutation) BY <1>2, WalletAssumption
<1>4. batch[r][pos[r]] \in Mutation /\ Len(batch[r]) \in Nat BY <1>2, <1>3
<1> QED BY <1>2, <1>4 DEF Current

(* The fields of a mutation. *)
LEMMA MutationFields ==
    ASSUME NEW m \in Mutation
    PROVE  /\ m.key \in Key /\ m.owner \in Owner /\ m.amount \in Int
           /\ m.op \in {"credit", "debit"} /\ m # NoEntry
           /\ L!Signed(m) \in Int
<1>1. m.amount \in Int BY DEF Mutation, L!Mutation
<1> QED BY <1>1, WalletAssumption DEF Mutation, L!Mutation, L!Signed

(* A balance an update may leave is in range. *)
LEMMA AppliedInRange ==
    ASSUME NEW row, NEW m \in Mutation, row.available \in 0 .. MaxBalance,
           L!ValidInput(m), L!MayApply(row, m)
    PROVE  row.available + L!Signed(m) \in 0 .. MaxBalance
<1>1. m.op \in {"credit", "debit"} /\ m.amount \in Int BY MutationFields
<1>2. MaxBalance \in Nat BY WalletAssumption
<1>3. CASE m.op = "credit"
  BY <1>1, <1>2, <1>3 DEF L!ValidInput, L!MayApply, L!MayCredit, L!Signed
<1>4. CASE m.op = "debit"
  BY <1>1, <1>2, <1>4 DEF L!ValidInput, L!MayApply, L!MayDebit, L!Signed
<1> QED BY <1>1, <1>3, <1>4

(* The initial state. *)
LEMMA InitIInv == Init => IInv
<1> SUFFICES ASSUME Init PROVE IInv OBVIOUS
<1> USE DEF Init
<1>1. \A w \in Owner : wallet[w].available \in 0 .. MaxBalance
      /\ wallet[w].available \in Int
  BY WalletAssumption
<1>2. wallet \in [Owner -> [status : L!WalletStatus, available : Int]]
  BY WalletAssumption
<1>3. TypeOK BY <1>2 DEF TypeOK
<1>4. \A r \in Request : InBatch(r) BY DEF InBatch
<1> QED BY <1>1, <1>3, <1>4 DEF IInv, BalanceWithinBounds, RowsExclusive,
           KeysExclusive, WroteIsNew, DeltaInRange

(* An error releases the locks of its own transaction and no other's. *)
LEMMA RollbackIInv ==
    ASSUME IInv, NEW r \in Request, Rollback(r) PROVE IInv'
<1> USE DEF Rollback
<1>1. TypeOK' BY DEF IInv, TypeOK
<1>2. RowsExclusive' BY DEF IInv, TypeOK, RowsExclusive
<1>3. KeysExclusive' BY DEF IInv, TypeOK, KeysExclusive
<1>4. WroteIsNew' BY DEF IInv, TypeOK, WroteIsNew
<1>5. DeltaInRange' BY DEF IInv, TypeOK, DeltaInRange
<1>6. \A q \in Request : InBatch(q)'
  <2> SUFFICES ASSUME NEW q \in Request PROVE InBatch(q)' OBVIOUS
  <2>1. CASE q = r BY <2>1 DEF IInv, TypeOK, InBatch
  <2>2. CASE q # r
    <3>1. InBatch(q) BY DEF IInv
    <3>2. UNCHANGED <<pc[q], rows[q], wrote[q], batch, pos, ledger>>
      BY <2>2 DEF IInv, TypeOK
    <3> QED BY <3>1, <3>2 DEF InBatch, Posted, Found, Current
  <2> QED BY <2>1, <2>2
<1>7. BalanceWithinBounds' BY DEF IInv, BalanceWithinBounds
<1> QED BY <1>1, <1>2, <1>3, <1>4, <1>5, <1>6, <1>7 DEF IInv

(* An action that leaves the requests and the ledger alone, and every        *)
(* balance. *)
LEMMA StatusIInv ==
    ASSUME IInv, UNCHANGED <<ledger, reqVars>>,
           deleting' \subseteq Owner \X DeleteStep,
           wallet' \in [Owner -> [status : L!WalletStatus, available : Int]],
           \A w \in Owner : wallet'[w].available = wallet[w].available
    PROVE  IInv'
<1> USE DEF reqVars
<1>1. TypeOK' BY DEF IInv, TypeOK
<1>2. RowsExclusive' /\ KeysExclusive' /\ WroteIsNew'
  BY DEF IInv, RowsExclusive, KeysExclusive, WroteIsNew
<1>3. DeltaInRange' BY DEF IInv, DeltaInRange
<1>4. \A r \in Request : InBatch(r)'
  BY DEF IInv, InBatch, Posted, Found, Current
<1>5. BalanceWithinBounds' BY DEF IInv, BalanceWithinBounds
<1> QED BY <1>1, <1>2, <1>3, <1>4, <1>5 DEF IInv

LEMMA BeginIInv ==
    ASSUME IInv, NEW r \in Request, NEW b \in Batches, Begin(r, b) PROVE IInv'
<1> USE DEF Begin
<1>1. TypeOK' BY DEF IInv, TypeOK
<1>2. RowsExclusive' /\ KeysExclusive' /\ WroteIsNew' /\ DeltaInRange' /\ BalanceWithinBounds'
  BY DEF IInv, RowsExclusive, KeysExclusive, WroteIsNew, DeltaInRange, BalanceWithinBounds
<1>3. \A q \in Request : InBatch(q)'
  <2> SUFFICES ASSUME NEW q \in Request PROVE InBatch(q)' OBVIOUS
  <2>1. InBatch(q) BY DEF IInv
  <2>2. CASE q = r
    <3>1. pos[r] = 1 BY <2>1, <2>2 DEF InBatch
    <3>2. b \in Seq(Mutation) /\ b # <<>> BY WalletAssumption
    <3>3. Len(b) \in Nat /\ 1 \in 1 .. Len(b) BY <3>2
    <3>4. pc'[r] = "lookup" /\ batch'[r] = b /\ pos' = pos BY DEF IInv, TypeOK
    <3> QED BY <2>2, <3>1, <3>3, <3>4 DEF InBatch
  <2>3. CASE q # r
    <3>1. UNCHANGED <<pc[q], rows[q], wrote[q], batch[q], pos[q], ledger>>
      BY <2>3 DEF IInv, TypeOK
    <3> QED BY <2>1, <3>1 DEF InBatch, Posted, Found, Current
  <2> QED BY <2>2, <2>3
<1> QED BY <1>1, <1>2, <1>3 DEF IInv

(* What Advance does to the position of the request. *)
LEMMA Advanced ==
    ASSUME IInv, NEW r \in Request, pc[r] \in {"lookup", "insert"}, Advance(r)
    PROVE  /\ pc' \in [Request -> InTransaction \cup {"idle", "done", "failed"}]
           /\ pos' \in [Request -> Nat]
           /\ pos'[r] = pos[r] + 1
           /\ \/ pc'[r] = "commit" /\ pos'[r] > Len(batch[r])
              \/ pc'[r] = "lookup" /\ pos'[r] \in 1 .. Len(batch[r])
           /\ \A q \in Request \ {r} : UNCHANGED <<pc[q], pos[q]>>
<1>1. pos[r] \in 1 .. Len(batch[r]) /\ Len(batch[r]) \in Nat BY CurrentType
<1> QED BY <1>1 DEF IInv, TypeOK, Advance

LEMMA LookupIInv ==
    ASSUME IInv, NEW r \in Request, Lookup(r) PROVE IInv'
<1> DEFINE m == Current(r)
           found == Found(r, m.key)
<1>1. CASE Rollback(r) BY <1>1, RollbackIInv
<1>2. ASSUME ~Rollback(r) PROVE IInv'
  <2>1. /\ L!ValidInput(m) /\ \A e \in found : L!SameOperation(e, m)
        /\ IF found # {} THEN Advance(r)
           ELSE pc' = [pc EXCEPT ![r] = "write"] /\ UNCHANGED pos
        /\ UNCHANGED <<wallet, ledger, batch, delta, rows, wrote, deleting>>
    BY <1>2 DEF Lookup
  <2>2. pc[r] = "lookup" BY DEF Lookup
  <2>3. m \in Mutation /\ pos[r] \in 1 .. Len(batch[r]) /\ Len(batch[r]) \in Nat
    BY <2>2, CurrentType
  <2>4. \A q \in Request \ {r} : UNCHANGED <<pc[q], pos[q]>>
    BY <2>1, <2>2, Advanced DEF IInv, TypeOK
  <2>5. TypeOK'
    <3>1. CASE found # {} BY <2>1, <2>2, <3>1, Advanced DEF IInv, TypeOK
    <3>2. CASE found = {} BY <2>1, <3>2 DEF IInv, TypeOK
    <3> QED BY <3>1, <3>2
  <2>6. RowsExclusive' /\ KeysExclusive' /\ WroteIsNew' /\ DeltaInRange' /\ BalanceWithinBounds'
    BY <2>1 DEF IInv, RowsExclusive, KeysExclusive, WroteIsNew, DeltaInRange, BalanceWithinBounds
  <2>7. \A q \in Request : InBatch(q)'
    <3> SUFFICES ASSUME NEW q \in Request PROVE InBatch(q)' OBVIOUS
    <3>1. InBatch(q) BY DEF IInv
    <3>2. CASE q # r
      BY <2>1, <2>4, <3>1, <3>2 DEF InBatch, Posted, Found, Current
    <3>3. CASE q = r /\ found = {}
      <4>1. pc'[r] = "write" /\ UNCHANGED <<pos, batch, wrote, ledger, rows>>
        BY <2>1, <3>3 DEF IInv, TypeOK
      <4>2. L!ValidInput(Current(r))' BY <2>1, <4>1 DEF Current, L!ValidInput
      <4> QED BY <2>2, <3>1, <3>3, <4>1, <4>2 DEF InBatch, Posted, Found
    <3>4. CASE q = r /\ found # {}
      <4>1. pos'[r] = pos[r] + 1 /\ UNCHANGED <<batch, wrote, ledger, rows>>
            /\ (\/ pc'[r] = "commit" /\ pos'[r] > Len(batch[r])
                \/ pc'[r] = "lookup" /\ pos'[r] \in 1 .. Len(batch[r]))
        BY <2>1, <2>2, <3>4, Advanced
      <4>2. Posted(r, m) BY <2>1, <3>4 DEF Posted
      <4>3. \A i \in 1 .. Len(batch[r]) : i < pos'[r] => Posted(r, batch[r][i])
        BY <2>2, <2>3, <3>1, <3>4, <4>1, <4>2 DEF InBatch, Current
      <4>4. \A i \in 1 .. Len(batch[r]) : i < pos'[r] => Posted(r, batch[r][i])'
        BY <4>1, <4>3 DEF Posted, Found
      <4> QED BY <2>2, <3>1, <3>4, <4>1, <4>4 DEF InBatch
    <3> QED BY <3>2, <3>3, <3>4
  <2> QED BY <2>5, <2>6, <2>7 DEF IInv
<1> QED BY <1>1, <1>2

LEMMA WriteIInv ==
    ASSUME IInv, NEW r \in Request, Write(r) PROVE IInv'
<1> DEFINE m == Current(r)
           w0 == m.owner
<1>1. CASE Rollback(r) BY <1>1, RollbackIInv
<1>2. ASSUME ~Rollback(r) PROVE IInv'
  <2>1. /\ RowFree(r, w0) /\ L!MayApply(Row(r, w0), m) /\ pc[r] = "write"
        /\ rows' = [rows EXCEPT ![r] = @ \cup {w0}]
        /\ delta' = [delta EXCEPT ![r][w0] = @ + L!Signed(m)]
        /\ pc' = [pc EXCEPT ![r] = "insert"]
        /\ UNCHANGED <<wallet, ledger, batch, pos, wrote, deleting>>
    BY <1>2 DEF Write
  <2>2. m \in Mutation BY <2>1, CurrentType
  <2>3. w0 \in Owner /\ L!Signed(m) \in Int BY <2>2, MutationFields
  <2>4. L!ValidInput(m) BY <2>1 DEF IInv, InBatch
  <2>5. TypeOK' BY <2>1, <2>3 DEF IInv, TypeOK
  <2>6. RowsExclusive' BY <2>1, <2>3 DEF IInv, TypeOK, RowsExclusive, RowFree
  <2>7. KeysExclusive' /\ WroteIsNew' /\ BalanceWithinBounds'
    BY <2>1 DEF IInv, KeysExclusive, WroteIsNew, BalanceWithinBounds
  <2>8. DeltaInRange'
    <3>1. Row(r, w0).available = wallet[w0].available + delta[r][w0] BY DEF Row
    <3>2. MaxBalance \in Nat BY WalletAssumption
    <3>3. Row(r, w0).available \in 0 .. MaxBalance
      <4>1. CASE w0 \in rows[r] BY <2>3, <3>1, <4>1 DEF IInv, DeltaInRange
      <4>2. CASE w0 \notin rows[r]
        <5>1. delta[r][w0] = 0 /\ wallet[w0].available \in 0 .. MaxBalance
          BY <2>3, <4>2 DEF IInv, DeltaInRange, BalanceWithinBounds
        <5> QED BY <3>1, <3>2, <5>1
      <4> QED BY <4>1, <4>2
    <3>4. Row(r, w0).available + L!Signed(m) \in 0 .. MaxBalance
      BY <2>1, <2>2, <2>4, <3>3, AppliedInRange
    <3>5. delta'[r][w0] = delta[r][w0] + L!Signed(m) BY <2>1, <2>3 DEF IInv, TypeOK
    <3>6. wallet[w0].available + delta'[r][w0] \in 0 .. MaxBalance
      BY <2>3, <3>1, <3>4, <3>5 DEF IInv, TypeOK
    <3>7. \A q \in Request, w \in Owner : q # r \/ w # w0 =>
             delta'[q][w] = delta[q][w] /\ (w \in rows'[q] <=> w \in rows[q])
      BY <2>1, <2>3 DEF IInv, TypeOK
    <3>8. w0 \in rows'[r] BY <2>1 DEF IInv, TypeOK
    <3> QED BY <2>1, <3>6, <3>7, <3>8 DEF IInv, DeltaInRange
  <2>9. \A q \in Request : InBatch(q)'
    <3> SUFFICES ASSUME NEW q \in Request PROVE InBatch(q)' OBVIOUS
    <3>1. InBatch(q) BY DEF IInv
    <3>2. CASE q # r
      <4>1. UNCHANGED <<pc[q], rows[q], wrote[q], batch[q], pos[q], ledger>>
        BY <2>1, <3>2 DEF IInv, TypeOK
      <4> QED BY <3>1, <4>1 DEF InBatch, Posted, Found, Current
    <3>3. CASE q = r
      <4>1. pc'[r] = "insert" /\ w0 \in rows'[r] /\ UNCHANGED <<batch, pos, wrote, ledger>>
        BY <2>1 DEF IInv, TypeOK
      <4>2. Current(r)' = m BY <4>1 DEF Current
      <4> QED BY <2>1, <3>1, <3>3, <4>1, <4>2 DEF InBatch, Posted, Found
    <3> QED BY <3>2, <3>3
  <2> QED BY <2>5, <2>6, <2>7, <2>8, <2>9 DEF IInv
<1> QED BY <1>1, <1>2

LEMMA InsertIInv ==
    ASSUME IInv, NEW r \in Request, Insert(r) PROVE IInv'
<1> DEFINE m == Current(r)
<1>1. CASE Rollback(r) BY <1>1, RollbackIInv
<1>2. ASSUME ~Rollback(r) PROVE IInv'
  <2>1. /\ KeyFree(r, m.key) /\ Found(r, m.key) = {} /\ pc[r] = "insert"
        /\ wrote' = [wrote EXCEPT ![r] = @ \cup {m}]
        /\ Advance(r)
        /\ UNCHANGED <<wallet, ledger, batch, delta, rows, deleting>>
    BY <1>2 DEF Insert
  <2>2. m \in Mutation /\ pos[r] \in 1 .. Len(batch[r]) /\ Len(batch[r]) \in Nat
    BY <2>1, CurrentType
  <2>3. m.key \in Key /\ m # NoEntry BY <2>2, MutationFields
  <2>4. /\ ledger[m.key] = NoEntry
        /\ \A q \in Request : \A n \in wrote[q] : n.key # m.key
    BY <2>1, <2>3 DEF Found, KeyFree
  <2>5. TypeOK' BY <2>1, <2>2, Advanced DEF IInv, TypeOK
  <2>6. RowsExclusive' /\ DeltaInRange' /\ BalanceWithinBounds'
    BY <2>1 DEF IInv, RowsExclusive, DeltaInRange, BalanceWithinBounds
  <2>7. \A q \in Request : wrote'[q] = IF q = r THEN wrote[r] \cup {m} ELSE wrote[q]
    BY <2>1 DEF IInv, TypeOK
  <2>8. KeysExclusive' BY <2>4, <2>7 DEF IInv, KeysExclusive
  <2>9. WroteIsNew' BY <2>1, <2>4, <2>7 DEF IInv, WroteIsNew
  <2>10. \A q \in Request : InBatch(q)'
    <3> SUFFICES ASSUME NEW q \in Request PROVE InBatch(q)' OBVIOUS
    <3>1. InBatch(q) BY DEF IInv
    <3>2. CASE q # r
      <4>1. UNCHANGED <<pc[q], rows[q], wrote[q], batch[q], pos[q], ledger>>
        BY <2>1, <2>7, <3>2, Advanced DEF IInv, TypeOK
      <4> QED BY <3>1, <4>1 DEF InBatch, Posted, Found, Current
    <3>3. CASE q = r
      <4>1. /\ pos'[r] = pos[r] + 1 /\ UNCHANGED <<batch, ledger, rows>>
            /\ \/ pc'[r] = "commit" /\ pos'[r] > Len(batch[r])
               \/ pc'[r] = "lookup" /\ pos'[r] \in 1 .. Len(batch[r])
        BY <2>1, Advanced
      <4>2. \A n \in Mutation : Posted(r, n) => Posted(r, n)'
        BY <2>1, <2>7 DEF Posted, Found
      <4>3. \A n \in Mutation : n = m => Posted(r, n)'
        BY <2>7 DEF Posted, Found, L!SameOperation
      <4>4. batch[r] \in Seq(Mutation) /\ \A i \in 1 .. Len(batch[r]) : batch[r][i] \in Mutation
        BY <2>1, CurrentType, WalletAssumption
      <4>5. \A i \in 1 .. Len(batch[r]) : i < pos[r] \/ i = pos[r] \/ ~(i < pos'[r])
        BY <2>2, <4>1
      <4>6. \A i \in 1 .. Len(batch[r]) : i < pos'[r] => Posted(r, batch[r][i])'
        BY <2>1, <3>1, <3>3, <4>1, <4>2, <4>3, <4>4, <4>5 DEF InBatch, Current
      <4> QED BY <2>1, <3>1, <3>3, <4>1, <4>6 DEF InBatch
    <3> QED BY <3>2, <3>3
  <2> QED BY <2>5, <2>6, <2>8, <2>9, <2>10 DEF IInv
<1> QED BY <1>1, <1>2

(* A commit installs the balances and the rows of its own transaction.      *)
LEMMA CommitIInv ==
    ASSUME IInv, NEW r \in Request, Commit(r) PROVE IInv'
<1> USE DEF Commit
<1>1. /\ wallet' = [w \in Owner |-> IF w \in rows[r] THEN Row(r, w) ELSE wallet[w]]
      /\ UNCHANGED <<batch, pos, deleting>>
  OBVIOUS
<1>2. \A w \in Owner :
        /\ wallet'[w] \in [status : L!WalletStatus, available : Int]
        /\ wallet'[w].available \in 0 .. MaxBalance
        /\ w \notin rows[r] => wallet'[w] = wallet[w]
  BY WalletAssumption DEF IInv, TypeOK, DeltaInRange, BalanceWithinBounds, Row, L!WalletStatus
<1>3. \A k \in Key :
        \/ \E m \in wrote[r] : m.key = k /\ ledger'[k] = m /\ ledger[k] = NoEntry
        \/ (\A m \in wrote[r] : m.key # k) /\ ledger'[k] = ledger[k]
  BY DEF IInv, WroteIsNew
<1>4. \A m \in wrote[r] : m.key \in Key /\ ledger'[m.key] = m
  <2>1. ASSUME NEW m \in wrote[r] PROVE m.key \in Key /\ ledger'[m.key] = m
    <3>1. m.key \in Key BY <2>1, MutationFields DEF IInv, TypeOK
    <3>2. PICK n \in wrote[r] : n.key = m.key /\ ledger'[m.key] = n BY <1>3, <2>1, <3>1
    <3> QED BY <3>1, <3>2, <2>1 DEF IInv, KeysExclusive
  <2> QED BY <2>1
<1>5. \A q \in Request :
        /\ wrote'[q] = IF q = r THEN {} ELSE wrote[q]
        /\ rows'[q] = IF q = r THEN {} ELSE rows[q]
        /\ pc'[q] = IF q = r THEN "done" ELSE pc[q]
        /\ delta'[q] = IF q = r THEN [w \in Owner |-> 0] ELSE delta[q]
  BY DEF IInv, TypeOK
<1>6. TypeOK'
  <2>1. ledger' \in [Key -> Mutation \cup {NoEntry}]
    <3>1. \A k \in Key : ledger'[k] \in Mutation \cup {NoEntry}
      BY <1>3 DEF IInv, TypeOK
    <3> QED BY <3>1
  <2> QED BY <1>1, <1>2, <2>1 DEF IInv, TypeOK
<1>7. RowsExclusive' BY <1>5 DEF IInv, RowsExclusive
<1>8. KeysExclusive' BY <1>5 DEF IInv, KeysExclusive
<1>9. WroteIsNew'
  <2> SUFFICES ASSUME NEW q \in Request, NEW m \in wrote[q], q # r
               PROVE ledger'[m.key] = NoEntry
    BY <1>5 DEF WroteIsNew
  <2>1. m.key \in Key BY MutationFields DEF IInv, TypeOK
  <2>2. \A n \in wrote[r] : n.key # m.key BY DEF IInv, KeysExclusive
  <2> QED BY <1>3, <2>1, <2>2 DEF IInv, WroteIsNew
<1>10. DeltaInRange'
  <2> SUFFICES ASSUME NEW q \in Request, NEW w \in Owner
               PROVE IF w \in rows'[q]
                     THEN wallet'[w].available + delta'[q][w] \in 0 .. MaxBalance
                     ELSE delta'[q][w] = 0
    BY DEF DeltaInRange
  <2>1. CASE q = r BY <1>5, <2>1
  <2>2. CASE q # r
    <3>1. w \in rows[q] => wallet'[w] = wallet[w]
      BY <1>2, <2>2 DEF IInv, RowsExclusive
    <3> QED BY <1>5, <2>2, <3>1 DEF IInv, DeltaInRange
  <2> QED BY <2>1, <2>2
<1>11. \A q \in Request : InBatch(q)'
  <2> SUFFICES ASSUME NEW q \in Request PROVE InBatch(q)' OBVIOUS
  <2>1. InBatch(q) BY DEF IInv
  <2>2. \A n \in Mutation : Posted(q, n) => Posted(q, n)'
    <3> SUFFICES ASSUME NEW n \in Mutation, NEW e \in Found(q, n.key),
                        L!SameOperation(e, n)
                 PROVE  \E f \in Found(q, n.key)' : L!SameOperation(f, n)
      BY DEF Posted, L!SameOperation
    <3>1. n.key \in Key BY MutationFields
    <3>2. CASE e \in wrote[q] /\ e.key = n.key
      <4>1. CASE q = r
        <5>1. ledger'[e.key] = e BY <1>4, <3>2, <4>1
        <5>2. e # NoEntry BY <3>2, MutationFields DEF IInv, TypeOK
        <5> QED BY <3>2, <5>1, <5>2 DEF Found
      <4>2. CASE q # r BY <1>5, <3>2, <4>2 DEF Found
      <4> QED BY <4>1, <4>2
    <3>3. CASE ledger[n.key] # NoEntry /\ e = ledger[n.key]
      BY <1>3, <3>1, <3>3 DEF Found
    <3> QED BY <3>2, <3>3 DEF Found
  <2>3. batch[q] \in Batches => \A i \in 1 .. Len(batch[q]) : batch[q][i] \in Mutation
    BY WalletAssumption
  <2>4. pc[r] = "commit" OBVIOUS
  <2> QED BY <1>1, <1>5, <2>1, <2>2, <2>3, <2>4 DEF InBatch, Current
<1>12. BalanceWithinBounds' BY <1>2 DEF BalanceWithinBounds
<1> QED BY <1>6, <1>7, <1>8, <1>9, <1>10, <1>11, <1>12 DEF IInv

(* The invariant is inductive. *)
LEMMA NextIInv == IInv /\ [Next]_vars => IInv'
<1> SUFFICES ASSUME IInv, [Next]_vars PROVE IInv' OBVIOUS
<1>1. ASSUME NEW r \in Request, NEW b \in Batches, Begin(r, b) PROVE IInv'
  BY <1>1, BeginIInv
<1>2. ASSUME NEW r \in Request, Step(r) PROVE IInv'
  BY <1>2, LookupIInv, WriteIInv, InsertIInv, CommitIInv DEF Step
<1>3. ASSUME NEW r \in Request, Timeout(r) PROVE IInv'
  BY <1>3, RollbackIInv DEF Timeout
<1>4. ASSUME NEW w \in Owner, EnsureWallet(w) PROVE IInv'
  BY <1>4, StatusIInv DEF EnsureWallet, IInv, TypeOK, L!WalletStatus
<1>5. ASSUME NEW w \in Owner, Delete(w) PROVE IInv'
  <2>1. ASSUME NEW step \in DeleteStep, DeleteCheck(w, step) PROVE IInv'
    BY <2>1, StatusIInv DEF DeleteCheck, IInv, TypeOK
  <2>2. ASSUME DeleteRecheck(w) PROVE IInv'
    BY <2>2, StatusIInv DEF DeleteRecheck, IInv, TypeOK
  <2>3. ASSUME DeleteWrite(w) PROVE IInv'
    BY <2>3, StatusIInv DEF DeleteWrite, IInv, TypeOK, L!WalletStatus
  <2> QED BY <1>5, <2>1, <2>2, <2>3 DEF Delete
<1>6. CASE UNCHANGED vars
  BY <1>6, StatusIInv DEF vars, reqVars, IInv, TypeOK
<1> QED BY <1>1, <1>2, <1>3, <1>4, <1>5, <1>6 DEF Next

(* The invariant holds in every reachable state. *)
THEOREM WalletInvariant == Spec => []IInv
<1> QED BY InitIInv, NextIInv, PTL DEF Spec

(* Balances stay in 0 .. MaxBalance whatever credits and debits overlap:    *)
(* the atomic conditional UPDATEs of applyWalletCredit and applyWalletDebit. *)
THEOREM BalancesAreBounded == Spec => []BalanceWithinBounds
<1>1. IInv => BalanceWithinBounds BY DEF IInv
<1> QED BY <1>1, WalletInvariant, PTL

(* A success answer means the mutations are in the ledger, once each under  *)
(* its key: the idempotent return of applyWalletCredit and applyWalletDebit. *)
THEOREM SuccessIsPosted == Spec => []RepliesMatchLedger
<1>1. IInv => RepliesMatchLedger
  <2> SUFFICES ASSUME IInv, NEW r \in Request, pc[r] = "done",
                      NEW i \in DOMAIN batch[r]
               PROVE  LET m == batch[r][i]
                      IN /\ ledger[m.key] # NoEntry
                         /\ ledger[m.key].type = m.type
                         /\ ledger[m.key].amount = m.amount
    BY DEF RepliesMatchLedger
  <2>1. InBatch(r) BY DEF IInv
  <2>2. batch[r] \in Seq(Mutation) BY <2>1, WalletAssumption DEF InBatch
  <2>3. i \in 1 .. Len(batch[r]) /\ Len(batch[r]) \in Nat BY <2>2
  <2>4. i < pos[r] BY <2>1, <2>3 DEF InBatch, IInv, TypeOK
  <2>5. Posted(r, batch[r][i]) /\ wrote[r] = {} BY <2>1, <2>3, <2>4 DEF InBatch
  <2> QED BY <2>5 DEF Posted, Found, L!SameOperation
<1> QED BY <1>1, WalletInvariant, PTL

(* No step replaces a ledger row: transaction.create runs only for a key    *)
(* that no committed row and no other transaction holds.                    *)
THEOREM LedgerKeepsItsRows == Spec => LedgerIsAppendOnly
<1> DEFINE A == \A k \in Key : ledger[k] # NoEntry => ledger'[k] = ledger[k]
<1>1. IInv /\ [Next]_vars => A
  <2> SUFFICES ASSUME IInv, [Next]_vars PROVE A OBVIOUS
  <2>1. ASSUME NEW r \in Request, Commit(r) PROVE A
    BY <2>1 DEF Commit, IInv, WroteIsNew
  <2>2. ASSUME NEW r \in Request, NEW b \in Batches, Begin(r, b) PROVE A
    BY <2>2 DEF Begin
  <2>3. ASSUME NEW r \in Request, Lookup(r) \/ Write(r) \/ Insert(r) \/ Timeout(r) PROVE A
    BY <2>3 DEF Lookup, Write, Insert, Timeout, Rollback
  <2>4. ASSUME NEW w \in Owner, EnsureWallet(w) \/ Delete(w) PROVE A
    BY <2>4 DEF EnsureWallet, Delete, DeleteCheck, DeleteRecheck, DeleteWrite
  <2>5. CASE UNCHANGED vars BY <2>5 DEF vars
  <2> QED BY <2>1, <2>2, <2>3, <2>4, <2>5 DEF Next, Step
<1>2. IInv /\ [Next]_vars => [A]_vars BY <1>1
<1> QED BY <1>2, WalletInvariant, PTL DEF Spec, LedgerIsAppendOnly
-----------------------------------------------------------------------------
(* What the rows of a ledger add up to, for one owner; the ledger may also  *)
(* be the one of the rows that a transaction has written and not committed, *)
(* which its balances follow up to the row it is about to insert.           *)
Ledgers == [Key -> Mutation \cup {NoEntry}]
RowsOf(led, w) == {k \in Key : led[k] # NoEntry /\ led[k].owner = w}
Net(led, w) == SumFunctionOnSet([k \in Key |-> L!Signed(led[k])], RowsOf(led, w))
Used(led) == {k \in Key : led[k] # NoEntry}
Finite(led) == IsFiniteSet(Used(led))

Rows(ms) == [k \in Key |-> IF \E m \in ms : m.key = k
                           THEN CHOOSE m \in ms : m.key = k ELSE NoEntry]
Own(r) == Rows(wrote[r])
Pending(r, w) == IF pc[r] = "insert" /\ Current(r).owner = w THEN L!Signed(Current(r)) ELSE 0
Accounted(r) == /\ Finite(Own(r))
                /\ \A w \in Owner : delta[r][w] = Net(Own(r), w) + Pending(r, w)

EInv == /\ Finite(ledger)
        /\ LedgerExplainsBalance
        /\ \A r \in Request : Accounted(r)

LEMMA NetIsInt ==
    ASSUME NEW led \in Ledgers, Finite(led), NEW w
    PROVE  /\ IsFiniteSet(RowsOf(led, w)) /\ Net(led, w) \in Int
           /\ \A k \in RowsOf(led, w) : L!Signed(led[k]) \in Int
<1>1. RowsOf(led, w) \subseteq Used(led) BY DEF RowsOf, Used
<1>2. IsFiniteSet(RowsOf(led, w)) BY <1>1, FS_Subset DEF Finite
<1>3. \A k \in RowsOf(led, w) : led[k] \in Mutation BY DEF RowsOf, Ledgers
<1>4. \A k \in RowsOf(led, w) : L!Signed(led[k]) \in Int BY <1>3, MutationFields
<1>5. \A k \in RowsOf(led, w) : [j \in Key |-> L!Signed(led[j])][k] = L!Signed(led[k])
  BY DEF RowsOf
<1> QED BY <1>2, <1>4, <1>5, SumIsInt DEF Net

(* An empty ledger adds up to nothing. *)
LEMMA NetOfNone ==
    ASSUME NEW led, \A k \in Key : led[k] = NoEntry
    PROVE  Finite(led) /\ \A w : Net(led, w) = 0
<1>1. Used(led) = {} /\ \A w : RowsOf(led, w) = {} BY DEF RowsOf, Used
<1> QED BY <1>1, FS_EmptySet, SumOfNothing DEF Finite, Net

(* Two ledgers that have no key in common, put together. *)
Merged(led, own) == [k \in Key |-> IF own[k] # NoEntry THEN own[k] ELSE led[k]]

LEMMA NetOfMerged ==
    ASSUME NEW led \in Ledgers, Finite(led), NEW own \in Ledgers, Finite(own),
           \A k \in Key : own[k] = NoEntry \/ led[k] = NoEntry
    PROVE  /\ Finite(Merged(led, own))
           /\ \A w : Net(Merged(led, own), w) = Net(led, w) + Net(own, w)
<1> DEFINE new == Merged(led, own)
<1>1. new \in Ledgers /\ \A k \in Key : new[k] = IF own[k] # NoEntry THEN own[k] ELSE led[k]
  BY DEF Merged, Ledgers
<1> HIDE DEF new
<1>2. Used(new) = Used(led) \cup Used(own) BY <1>1 DEF Used
<1>3. Finite(new) BY <1>2, FS_Union DEF Finite
<1>4. ASSUME NEW w PROVE Net(new, w) = Net(led, w) + Net(own, w)
  <2> DEFINE S == RowsOf(led, w)
             T == RowsOf(own, w)
             f == [k \in Key |-> L!Signed(led[k])]
             g == [k \in Key |-> L!Signed(own[k])]
             h == [k \in Key |-> L!Signed(new[k])]
  <2>1. IsFiniteSet(S) /\ IsFiniteSet(T) BY NetIsInt
  <2>2. RowsOf(new, w) = S \cup T BY <1>1 DEF RowsOf
  <2>3. S \cap T = {} BY DEF RowsOf
  <2>4. \A k \in S : k \in Key /\ new[k] = led[k] BY <1>1 DEF RowsOf
  <2>5. \A k \in T : k \in Key /\ new[k] = own[k] BY <1>1 DEF RowsOf
  <2>6. \A k \in S : f[k] = h[k] BY <2>4
  <2>7. \A k \in T : g[k] = h[k] BY <2>5
  <2>8. \A k \in S \cup T : h[k] \in Int
    <3>1. \A k \in S \cup T : k \in Key /\ L!Signed(new[k]) \in Int
      BY <1>1, <1>3, <2>2, <2>4, <2>5, NetIsInt
    <3> QED BY <3>1
  <2>9. Net(led, w) = SumFunctionOnSet(f, S) /\ Net(own, w) = SumFunctionOnSet(g, T)
        /\ Net(new, w) = SumFunctionOnSet(h, S \cup T)
    BY <2>2 DEF Net
  <2> HIDE DEF S, T, f, g, h
  <2>10. SumFunctionOnSet(f, S) = SumFunctionOnSet(h, S) BY <2>1, <2>6, SumOfSame
  <2>11. SumFunctionOnSet(g, T) = SumFunctionOnSet(h, T) BY <2>1, <2>7, SumOfSame
  <2>12. SumFunctionOnSet(h, S \cup T) = SumFunctionOnSet(h, S) + SumFunctionOnSet(h, T)
    BY <2>1, <2>3, <2>8, SumOfUnion
  <2> QED BY <2>9, <2>10, <2>11, <2>12
<1> QED BY <1>3, <1>4 DEF new

(* One row under a key that had none. *)
LEMMA NetOfAdded ==
    ASSUME NEW led \in Ledgers, Finite(led), NEW m \in Mutation, led[m.key] = NoEntry,
           NEW new \in Ledgers, \A k \in Key : new[k] = IF k = m.key THEN m ELSE led[k]
    PROVE  /\ Finite(new)
           /\ \A w : Net(new, w) = Net(led, w) + (IF m.owner = w THEN L!Signed(m) ELSE 0)
<1>0. PICK one : one = [k \in Key |-> IF k = m.key THEN m ELSE NoEntry] OBVIOUS
<1>1. m.key \in Key /\ m # NoEntry /\ L!Signed(m) \in Int BY MutationFields
<1>2. one \in Ledgers /\ \A k \in Key : one[k] = IF k = m.key THEN m ELSE NoEntry
  BY <1>0 DEF Ledgers
<1>3. Used(one) = {} \cup {m.key} BY <1>1, <1>2 DEF Used
<1>4. Finite(one) BY <1>3, FS_EmptySet, FS_AddElement DEF Finite
<1>5. new = Merged(led, one)
  <2>1. \A k \in Key : new[k] = Merged(led, one)[k] BY <1>1, <1>2 DEF Merged
  <2> QED BY <2>1, <1>2 DEF Ledgers, Merged
<1>6. ASSUME NEW w PROVE Net(one, w) = IF m.owner = w THEN L!Signed(m) ELSE 0
  <2> DEFINE f == [k \in Key |-> L!Signed(one[k])]
  <2>1. f[m.key] = L!Signed(m) /\ RowsOf(one, w) = IF m.owner = w THEN {m.key} ELSE {}
    BY <1>1, <1>2 DEF RowsOf
  <2>2. Net(one, w) = SumFunctionOnSet(f, RowsOf(one, w)) BY DEF Net
  <2> HIDE DEF f
  <2>3. SumFunctionOnSet(f, {}) = 0 BY SumOfNothing
  <2>4. SumFunctionOnSet(f, {m.key}) = f[m.key] + SumFunctionOnSet(f, {})
    <3>1. {} \cup {m.key} = {m.key} /\ m.key \notin {} /\ IsFiniteSet({}) BY FS_EmptySet
    <3>2. \A k \in {} \cup {m.key} : f[k] \in Int BY <1>1, <2>1
    <3>3. SumFunctionOnSet(f, {} \cup {m.key}) = f[m.key] + SumFunctionOnSet(f, {})
      BY <3>1, <3>2, SumWith
    <3> QED BY <3>1, <3>3
  <2> QED BY <1>1, <2>1, <2>2, <2>3, <2>4
<1>7. \A k \in Key : one[k] = NoEntry \/ led[k] = NoEntry BY <1>1, <1>2
<1>8. /\ Finite(Merged(led, one))
      /\ \A w : Net(Merged(led, one), w) = Net(led, w) + Net(one, w)
  BY <1>2, <1>4, <1>7, NetOfMerged
<1> QED BY <1>5, <1>6, <1>8

(* The rows of a transaction as a ledger. *)
KeyedApart(ms) == ms \subseteq Mutation /\ \A m, n \in ms : m.key = n.key => m = n

LEMMA RowsAre ==
    ASSUME NEW ms, KeyedApart(ms)
    PROVE  /\ Rows(ms) \in Ledgers
           /\ \A m \in ms : Rows(ms)[m.key] = m
           /\ \A k \in Key : (\A m \in ms : m.key # k) => Rows(ms)[k] = NoEntry
<1>1. \A m \in ms : m.key \in Key BY MutationFields DEF KeyedApart
<1>2. \A m \in ms : Rows(ms)[m.key] = m BY <1>1 DEF Rows, KeyedApart
<1>3. \A k \in Key : (\A m \in ms : m.key # k) => Rows(ms)[k] = NoEntry BY DEF Rows
<1>4. \A k \in Key : Rows(ms)[k] \in Mutation \cup {NoEntry}
  BY <1>2, <1>3 DEF KeyedApart
<1>5. Rows(ms) \in Ledgers BY <1>4 DEF Rows, Ledgers
<1> QED BY <1>2, <1>3, <1>5

LEMMA OwnApart == ASSUME IInv, NEW r \in Request PROVE KeyedApart(wrote[r])
  BY DEF IInv, TypeOK, KeyedApart, KeysExclusive

(* They are new keys of the committed ledger.                               *)
LEMMA OwnIsNew ==
    ASSUME IInv, NEW r \in Request, NEW k \in Key
    PROVE  \/ \E m \in wrote[r] : m.key = k /\ Own(r)[k] = m /\ m # NoEntry /\ ledger[k] = NoEntry
           \/ (\A m \in wrote[r] : m.key # k) /\ Own(r)[k] = NoEntry
<1>1. KeyedApart(wrote[r]) BY OwnApart
<1>2. CASE \E m \in wrote[r] : m.key = k
  <2>1. PICK m \in wrote[r] : m.key = k BY <1>2
  <2>2. Own(r)[k] = m BY <1>1, <2>1, RowsAre DEF Own
  <2>3. m # NoEntry BY <1>1, MutationFields DEF KeyedApart
  <2>4. ledger[k] = NoEntry BY <2>1 DEF IInv, WroteIsNew
  <2> QED BY <2>1, <2>2, <2>3, <2>4
<1>3. CASE \A m \in wrote[r] : m.key # k BY <1>1, <1>3, RowsAre DEF Own
<1> QED BY <1>2, <1>3

(* A row that a transaction writes joins its own.                           *)
LEMMA OwnGrows ==
    ASSUME IInv, NEW r \in Request, NEW m \in Mutation, wrote'[r] = wrote[r] \cup {m},
           \A n \in wrote[r] : n.key # m.key
    PROVE  /\ Own(r) \in Ledgers /\ Own(r)' \in Ledgers /\ Own(r)[m.key] = NoEntry
           /\ \A k \in Key : Own(r)'[k] = IF k = m.key THEN m ELSE Own(r)[k]
<1> DEFINE old == Rows(wrote[r])
           new == Rows(wrote'[r])
<1>0. m.key \in Key BY MutationFields
<1>1. KeyedApart(wrote[r]) BY OwnApart
<1>2. KeyedApart(wrote'[r]) BY <1>1 DEF KeyedApart
<1>3. old \in Ledgers /\ new \in Ledgers BY <1>1, <1>2, RowsAre
<1>4. old[m.key] = NoEntry BY <1>0, <1>1, RowsAre
<1>5. \A k \in Key : new[k] = IF k = m.key THEN m ELSE old[k]
  <2> SUFFICES ASSUME NEW k \in Key PROVE new[k] = IF k = m.key THEN m ELSE old[k]
    OBVIOUS
  <2>1. CASE k = m.key BY <1>2, <2>1, RowsAre
  <2>2. CASE k # m.key /\ \E n \in wrote[r] : n.key = k
    <3>1. PICK n \in wrote[r] : n.key = k BY <2>2
    <3>2. old[n.key] = n /\ n \in wrote'[r] BY <1>1, RowsAre
    <3>3. new[n.key] = n BY <1>2, <3>2, RowsAre
    <3> QED BY <2>2, <3>1, <3>2, <3>3
  <2>3. CASE k # m.key /\ \A n \in wrote[r] : n.key # k
    <3>1. \A n \in wrote'[r] : n.key # k BY <2>3
    <3> QED BY <1>1, <1>2, <2>3, <3>1, RowsAre
  <2> QED BY <2>1, <2>2, <2>3
<1> HIDE DEF old, new
<1>6. Own(r) = old /\ Own(r)' = new BY DEF Own, old, new
<1> QED BY <1>3, <1>4, <1>5, <1>6

(* A commit adds them to the committed ones.                                *)
LEMMA LedgerInstalled ==
    ASSUME IInv, NEW r \in Request, Commit(r) PROVE ledger' = Merged(ledger, Own(r))
<1>1. \A k \in Key : ledger'[k] = Merged(ledger, Own(r))[k]
  BY OwnIsNew DEF Commit, Merged, Own, Rows
<1> QED BY <1>1 DEF Commit, Merged

(* What a request has accounted for does not change in a step that leaves   *)
(* its rows and its changes alone, and neither starts nor ends an insert.   *)
LEMMA StaysAccounted ==
    ASSUME NEW r \in Request, Accounted(r), UNCHANGED <<wrote[r], delta[r]>>,
           \/ UNCHANGED <<pc[r], batch[r], pos[r]>>
           \/ pc[r] # "insert" /\ pc'[r] # "insert"
    PROVE  Accounted(r)'
<1>1. \A w : Pending(r, w)' = Pending(r, w) BY DEF Pending, Current
<1>2. Own(r)' = Own(r) BY DEF Own
<1> QED BY <1>1, <1>2 DEF Accounted

(* So in a step that moves no money. *)
LEMMA StaysExplained ==
    ASSUME EInv, ledger' = ledger, \A w \in Owner : wallet'[w].available = wallet[w].available,
           \A r \in Request : Accounted(r)'
    PROVE  EInv'
  BY DEF EInv, LedgerExplainsBalance, PostedTo

LEMMA RollbackExplained ==
    ASSUME IInv, EInv, NEW r \in Request, Rollback(r) PROVE EInv'
<1>1. \A q \in Request : Accounted(q)'
  <2> SUFFICES ASSUME NEW q \in Request PROVE Accounted(q)' OBVIOUS
  <2>1. CASE q # r
    <3>1. UNCHANGED <<wrote[q], delta[q], pc[q], batch[q], pos[q]>>
      BY <2>1 DEF Rollback, IInv, TypeOK
    <3> QED BY <3>1, StaysAccounted DEF EInv
  <2>2. CASE q = r
    <3>1. wrote'[r] = {} /\ pc'[r] = "failed" /\ delta'[r] = [w \in Owner |-> 0]
      BY DEF Rollback, IInv, TypeOK
    <3>2. \A k \in Key : Own(r)'[k] = NoEntry BY <3>1 DEF Own, Rows
    <3>3. Finite(Own(r)') /\ \A w : Net(Own(r)', w) = 0 BY <3>2, NetOfNone
    <3>4. \A w : Pending(r, w)' = 0 BY <3>1 DEF Pending
    <3> QED BY <2>2, <3>1, <3>3, <3>4 DEF Accounted
  <2> QED BY <2>1, <2>2
<1> QED BY <1>1, StaysExplained DEF Rollback

LEMMA WriteExplained ==
    ASSUME IInv, EInv, NEW r \in Request, Write(r) PROVE EInv'
<1> DEFINE m == Current(r)
<1>1. CASE Rollback(r) BY <1>1, RollbackExplained
<1>2. ASSUME ~Rollback(r) PROVE EInv'
  <2>1. /\ pc[r] = "write"
        /\ delta' = [delta EXCEPT ![r][m.owner] = @ + L!Signed(m)]
        /\ pc' = [pc EXCEPT ![r] = "insert"]
        /\ UNCHANGED <<wallet, ledger, batch, pos, wrote, deleting>>
    BY <1>2 DEF Write
  <2>2. m \in Mutation BY <2>1, CurrentType
  <2>3. m.owner \in Owner /\ L!Signed(m) \in Int BY <2>2, MutationFields
  <2>4. \A q \in Request : Accounted(q)'
    <3> SUFFICES ASSUME NEW q \in Request PROVE Accounted(q)' OBVIOUS
    <3>1. CASE q # r
      <4>1. UNCHANGED <<wrote[q], delta[q], pc[q], batch[q], pos[q]>>
        BY <2>1, <3>1 DEF IInv, TypeOK
      <4> QED BY <4>1, StaysAccounted DEF EInv
    <3>2. CASE q = r
      <4>1. Own(r)' = Own(r) BY <2>1 DEF Own
      <4>2. \A w : Pending(r, w) = 0 BY <2>1 DEF Pending
      <4>3. \A w : Pending(r, w)' = IF m.owner = w THEN L!Signed(m) ELSE 0
        BY <2>1 DEF Pending, Current, IInv, TypeOK
      <4>4. \A w \in Owner : delta[r][w] \in Int /\
                delta'[r][w] = delta[r][w] + (IF m.owner = w THEN L!Signed(m) ELSE 0)
        BY <2>1, <2>3 DEF IInv, TypeOK
      <4>5. Own(r) \in Ledgers BY OwnApart, RowsAre DEF Own
      <4>6. Accounted(r) BY DEF EInv
      <4>7. \A w \in Owner : Net(Own(r), w) \in Int BY <4>5, <4>6, NetIsInt DEF Accounted
      <4>8. \A w \in Owner : delta'[r][w] = Net(Own(r)', w) + Pending(r, w)'
        BY <2>3, <4>1, <4>2, <4>3, <4>4, <4>6, <4>7 DEF Accounted
      <4> QED BY <3>2, <4>1, <4>6, <4>8 DEF Accounted
    <3> QED BY <3>1, <3>2
  <2> QED BY <2>1, <2>4, StaysExplained
<1> QED BY <1>1, <1>2

LEMMA InsertExplained ==
    ASSUME IInv, EInv, IInv', NEW r \in Request, Insert(r) PROVE EInv'
<1> DEFINE m == Current(r)
<1>1. CASE Rollback(r) BY <1>1, RollbackExplained
<1>2. ASSUME ~Rollback(r) PROVE EInv'
  <2>1. /\ pc[r] = "insert" /\ Found(r, m.key) = {}
        /\ wrote' = [wrote EXCEPT ![r] = @ \cup {m}]
        /\ Advance(r)
        /\ UNCHANGED <<wallet, ledger, batch, delta, rows, deleting>>
    BY <1>2 DEF Insert
  <2>2. m \in Mutation BY <2>1, CurrentType
  <2>3. m.owner \in Owner /\ m.key \in Key /\ L!Signed(m) \in Int BY <2>2, MutationFields
  <2>4. \A q \in Request : Accounted(q)'
    <3> SUFFICES ASSUME NEW q \in Request PROVE Accounted(q)' OBVIOUS
    <3>1. CASE q # r
      <4>1. UNCHANGED <<wrote[q], delta[q], pc[q], batch[q], pos[q]>>
        BY <2>1, <3>1, Advanced DEF IInv, TypeOK
      <4> QED BY <4>1, StaysAccounted DEF EInv
    <3>2. CASE q = r
      <4> DEFINE old == Own(r)
                 new == Own(r)'
      <4>1. wrote'[r] = wrote[r] \cup {m} BY <2>1 DEF IInv, TypeOK
      <4>2. \A n \in wrote[r] : n.key # m.key BY <2>1 DEF Found
      <4>3. /\ old \in Ledgers /\ new \in Ledgers /\ old[m.key] = NoEntry
            /\ \A k \in Key : new[k] = IF k = m.key THEN m ELSE old[k]
        BY <2>2, <4>1, <4>2, OwnGrows
      <4>4. Accounted(r) BY DEF EInv
      <4>5. Finite(old) BY <4>4 DEF Accounted
      <4> HIDE DEF old, new
      <4>6. /\ Finite(new)
             /\ \A w : Net(new, w) = Net(old, w) + (IF m.owner = w THEN L!Signed(m) ELSE 0)
        BY <2>2, <4>3, <4>5, NetOfAdded
      <4>7. Own(r) = old /\ Own(r)' = new BY DEF old, new
      <4>8. \A w : Pending(r, w) = IF m.owner = w THEN L!Signed(m) ELSE 0
        BY <2>1 DEF Pending
      <4>9. \A w : Pending(r, w)' = 0
        <5>1. pc'[r] # "insert" BY <2>1, Advanced
        <5> QED BY <5>1 DEF Pending
      <4>10. \A w \in Owner : Net(new, w) \in Int BY <4>3, <4>6, NetIsInt
      <4>11. \A w \in Owner : delta[r][w] = Net(new, w)
        <5> SUFFICES ASSUME NEW w \in Owner PROVE delta[r][w] = Net(new, w) OBVIOUS
        <5>1. delta[r][w] = Net(old, w) + Pending(r, w) BY <4>4, <4>7 DEF Accounted
        <5> QED BY <4>6, <4>8, <5>1
      <4>12. \A w \in Owner : delta'[r][w] = Net(new, w) + 0 BY <2>1, <4>10, <4>11
      <4> QED BY <3>2, <4>6, <4>7, <4>9, <4>12 DEF Accounted
    <3> QED BY <3>1, <3>2
  <2> QED BY <2>1, <2>4, StaysExplained
<1> QED BY <1>1, <1>2

LEMMA CommitExplained ==
    ASSUME IInv, EInv, NEW r \in Request, Commit(r) PROVE EInv'
<1>1. \A q \in Request : Accounted(q)'
  <2> SUFFICES ASSUME NEW q \in Request PROVE Accounted(q)' OBVIOUS
  <2>1. CASE q # r
    <3>1. UNCHANGED <<wrote[q], delta[q], pc[q], batch[q], pos[q]>>
      BY <2>1 DEF Commit, IInv, TypeOK
    <3> QED BY <3>1, StaysAccounted DEF EInv
  <2>2. CASE q = r
    <3>1. wrote'[r] = {} /\ pc'[r] = "done" /\ delta'[r] = [w \in Owner |-> 0]
      BY DEF Commit, IInv, TypeOK
    <3>2. \A k \in Key : Own(r)'[k] = NoEntry BY <3>1 DEF Own, Rows
    <3>3. Finite(Own(r)') /\ \A w : Net(Own(r)', w) = 0 BY <3>2, NetOfNone
    <3>4. \A w : Pending(r, w)' = 0 BY <3>1 DEF Pending
    <3> QED BY <2>2, <3>1, <3>3, <3>4 DEF Accounted
  <2> QED BY <2>1, <2>2
<1>2. KeyedApart(wrote[r]) BY OwnApart
<1>3. ledger \in Ledgers /\ Own(r) \in Ledgers BY <1>2, RowsAre DEF IInv, TypeOK, Ledgers, Own
<1>4. \A k \in Key : Own(r)[k] = NoEntry \/ ledger[k] = NoEntry BY OwnIsNew
<1>5. ledger' = Merged(ledger, Own(r)) BY LedgerInstalled
<1>6. Accounted(r) /\ Finite(ledger) BY DEF EInv
<1>7. \A w : Pending(r, w) = 0 BY DEF Commit, Pending
<1>8. \A w \in Owner : Net(ledger, w) \in Int /\ Net(Own(r), w) \in Int
  BY <1>3, <1>6, NetIsInt DEF Accounted
<1>9. /\ Finite(ledger')
       /\ \A w : Net(ledger', w) = Net(ledger, w) + Net(Own(r), w)
  BY <1>3, <1>4, <1>5, <1>6, NetOfMerged DEF Accounted
<1>10. \A w \in Owner : wallet'[w].available = wallet[w].available + delta[r][w]
  <2> SUFFICES ASSUME NEW w \in Owner
               PROVE  wallet'[w].available = wallet[w].available + delta[r][w]
    OBVIOUS
  <2>1. wallet[w].available \in Int BY DEF IInv, TypeOK
  <2>2. CASE w \in rows[r] BY <2>2 DEF Commit, Row
  <2>3. CASE w \notin rows[r] BY <2>1, <2>3 DEF Commit, IInv, DeltaInRange
  <2> QED BY <2>2, <2>3
<1>11. \A w \in Owner : wallet'[w].available = InitialWallet[w].available + Net(ledger', w)
  <2> SUFFICES ASSUME NEW w \in Owner
               PROVE  wallet'[w].available = InitialWallet[w].available + Net(ledger', w)
    OBVIOUS
  <2>1. wallet[w].available = InitialWallet[w].available + Net(ledger, w)
    BY DEF EInv, LedgerExplainsBalance, PostedTo, Net, RowsOf
  <2>2. delta[r][w] = Net(Own(r), w) + 0 BY <1>6, <1>7 DEF Accounted
  <2>3. InitialWallet[w].available \in Int BY WalletAssumption
  <2> QED BY <1>8, <1>9, <1>10, <2>1, <2>2, <2>3
<1> QED BY <1>1, <1>9, <1>11 DEF EInv, LedgerExplainsBalance, PostedTo, Net, RowsOf

LEMMA InitEInv == Init => EInv
<1> SUFFICES ASSUME Init PROVE EInv OBVIOUS
<1>1. \A r \in Request : Accounted(r)
  <2> SUFFICES ASSUME NEW r \in Request PROVE Accounted(r) OBVIOUS
  <2>1. wrote[r] = {} /\ pc[r] = "idle" /\ delta[r] = [w \in Owner |-> 0] BY DEF Init
  <2>2. \A k \in Key : Own(r)[k] = NoEntry BY <2>1 DEF Own, Rows
  <2>3. Finite(Own(r)) /\ \A w : Net(Own(r), w) = 0 BY <2>2, NetOfNone
  <2>4. \A w : Pending(r, w) = 0 BY <2>1 DEF Pending
  <2> QED BY <2>1, <2>3, <2>4 DEF Accounted
<1>2. Finite(ledger) /\ \A w : Net(ledger, w) = 0 BY NetOfNone DEF Init
<1>3. \A w \in Owner : wallet[w].available = InitialWallet[w].available + Net(ledger, w)
  BY <1>2, WalletAssumption DEF Init
<1> QED BY <1>1, <1>2, <1>3 DEF EInv, LedgerExplainsBalance, PostedTo, Net, RowsOf

LEMMA NextEInv == IInv /\ IInv' /\ EInv /\ [Next]_vars => EInv'
<1> SUFFICES ASSUME IInv, IInv', EInv, [Next]_vars PROVE EInv' OBVIOUS
<1>1. ASSUME NEW r \in Request, NEW b \in Batches, Begin(r, b) PROVE EInv'
  <2>1. ASSUME NEW q \in Request PROVE Accounted(q)'
    <3>1. UNCHANGED <<wrote[q], delta[q]>> BY <1>1 DEF Begin
    <3>2. CASE q # r
      <4>1. UNCHANGED <<pc[q], batch[q], pos[q]>> BY <1>1, <3>2 DEF Begin, IInv, TypeOK
      <4> QED BY <3>1, <4>1, StaysAccounted DEF EInv
    <3>3. CASE q = r
      <4>1. pc[q] # "insert" /\ pc'[q] # "insert" BY <1>1, <3>3 DEF Begin, IInv, TypeOK
      <4> QED BY <3>1, <4>1, StaysAccounted DEF EInv
    <3> QED BY <3>2, <3>3
  <2> QED BY <1>1, <2>1, StaysExplained DEF Begin
<1>2. ASSUME NEW r \in Request, Lookup(r) PROVE EInv'
  <2>1. CASE Rollback(r) BY <2>1, RollbackExplained
  <2>2. ASSUME ~Rollback(r) PROVE EInv'
    <3>1. /\ pc[r] = "lookup"
          /\ Advance(r) \/ (pc' = [pc EXCEPT ![r] = "write"] /\ UNCHANGED pos)
          /\ UNCHANGED <<wallet, ledger, batch, delta, rows, wrote, deleting>>
      BY <1>2, <2>2 DEF Lookup
    <3>2. pc'[r] # "insert" /\ \A q \in Request \ {r} : UNCHANGED <<pc[q], pos[q]>>
      BY <3>1, Advanced DEF IInv, TypeOK
    <3>3. ASSUME NEW q \in Request PROVE Accounted(q)'
      <4>1. CASE q # r BY <3>1, <3>2, <4>1, StaysAccounted DEF EInv
      <4>2. CASE q = r BY <3>1, <3>2, <4>2, StaysAccounted DEF EInv
      <4> QED BY <4>1, <4>2
    <3> QED BY <3>1, <3>3, StaysExplained
  <2> QED BY <2>1, <2>2
<1>3. ASSUME NEW r \in Request, Step(r) PROVE EInv'
  BY <1>2, <1>3, WriteExplained, InsertExplained, CommitExplained DEF Step
<1>4. ASSUME NEW r \in Request, Timeout(r) PROVE EInv'
  BY <1>4, RollbackExplained DEF Timeout
<1>5. ASSUME UNCHANGED <<ledger, reqVars>>,
             \A w \in Owner : wallet'[w].available = wallet[w].available
      PROVE  EInv'
  <2>1. \A q \in Request : Accounted(q)' BY <1>5, StaysAccounted DEF reqVars, EInv
  <2> QED BY <1>5, <2>1, StaysExplained
<1>6. ASSUME NEW w \in Owner, EnsureWallet(w) PROVE EInv'
  BY <1>5, <1>6 DEF EnsureWallet, IInv, TypeOK
<1>7. ASSUME NEW w \in Owner, Delete(w) PROVE EInv'
  <2>1. ASSUME NEW step \in DeleteStep, DeleteCheck(w, step) PROVE EInv'
    BY <1>5, <2>1 DEF DeleteCheck
  <2>2. ASSUME DeleteRecheck(w) PROVE EInv' BY <1>5, <2>2 DEF DeleteRecheck
  <2>3. ASSUME DeleteWrite(w) PROVE EInv'
    BY <1>5, <2>3 DEF DeleteWrite, IInv, TypeOK
  <2> QED BY <1>7, <2>1, <2>2, <2>3 DEF Delete
<1>8. CASE UNCHANGED vars BY <1>5, <1>8 DEF vars, reqVars
<1> QED BY <1>1, <1>3, <1>4, <1>6, <1>7, <1>8 DEF Next

(* Every balance is what the ledger rows of its wallet add up to, whatever  *)
(* transactions overlap, roll back or time out: the update of the balance   *)
(* and the insert of its row are one transaction, and a row under a key is  *)
(* inserted once.                                                           *)
THEOREM BalancesAreExplained == Spec => []LedgerExplainsBalance
<1>1. Init => IInv /\ EInv BY InitIInv, InitEInv
<1>2. (IInv /\ EInv) /\ [Next]_vars => (IInv /\ EInv)' BY NextIInv, NextEInv
<1>3. IInv /\ EInv => LedgerExplainsBalance BY DEF EInv
<1> QED BY <1>1, <1>2, <1>3, PTL DEF Spec
-----------------------------------------------------------------------------
(* A batch of any length is posted by applying its mutations one after the  *)
(* other: the fold of the library, which takes its indices from a set, the  *)
(* highest last, goes through them in order.                                *)
Applied(st, m) == L!ApplyMutation(st, m)
Top(s) == L!Max(s)
Below == {ss \in Nat \X Nat : ss[1] < ss[2]}

LEMMA LeastOf == ASSUME NEW T \in SUBSET Nat, T # {} PROVE \E x \in T : \A y \in T : x <= y
<1>1. IsWellFoundedOn(Below, Nat) BY NatLessThanWellFounded DEF OpToRel, Below
<1>2. PICK x \in T : \A y \in T : <<y, x>> \notin Below BY <1>1, WFMin
<1>3. \A y \in T : ~(y < x) BY <1>2 DEF Below
<1> QED BY <1>3

LEMMA TopIsGreatest ==
    ASSUME NEW n \in Nat, NEW s \in SUBSET (1 .. n), s # {}
    PROVE  Top(s) \in s /\ \A y \in s : Top(s) >= y
<1> DEFINE T == {m \in Nat : \A y \in s : y <= m}
<1>1. n \in T /\ T \in SUBSET Nat OBVIOUS
<1>2. \A m \in T : m \in Nat /\ \A y \in s : y <= m OBVIOUS
<1>3. \A m \in Nat : (\A y \in s : y <= m) => m \in T OBVIOUS
<1> HIDE DEF T
<1>4. PICK m \in T : \A y \in T : m <= y BY <1>1, LeastOf
<1>5. m \in s
  <2>1. ASSUME m \notin s PROVE FALSE
    <3>1. m \in Nat /\ \A y \in s : y <= m /\ y # m /\ y \in Nat /\ y >= 1 BY <1>2, <2>1
    <3>2. m >= 1
      <4>1. PICK y \in s : TRUE OBVIOUS
      <4>2. y \in Nat /\ y >= 1 /\ y <= m BY <3>1, <4>1
      <4> QED BY <3>1, <4>2
    <3>3. m - 1 \in Nat /\ \A y \in s : y <= m - 1 BY <3>1, <3>2
    <3>4. m - 1 \in T BY <1>3, <3>3
    <3> QED BY <1>4, <3>1, <3>4
  <2> QED BY <2>1
<1>6. \A y \in s : m >= y BY <1>2
<1> QED BY <1>5, <1>6, Zenon DEF Top, L!Max

Ordered(S) == IsFiniteSet(S) /\ \A s \in SUBSET S : s # {} => Top(s) \in s

LEMMA OrderedUpTo == ASSUME NEW n \in Nat, NEW S \in SUBSET (1 .. n) PROVE Ordered(S)
<1>1. IsFiniteSet(1 .. n) BY FS_Interval
<1>2. IsFiniteSet(S) BY <1>1, FS_Subset
<1>3. ASSUME NEW s \in SUBSET S, s # {} PROVE Top(s) \in s BY <1>3, TopIsGreatest
<1> QED BY <1>2, <1>3 DEF Ordered

Unrolls(s0, b, s, g) ==
    g = [t \in SUBSET s |-> IF t = {} THEN s0 ELSE Applied(g[t \ {Top(t)}], b[Top(t)])]
Unrolled(s0, b, s) == CHOOSE g : Unrolls(s0, b, s, g)

LEMMA UnrolledOnce ==
    ASSUME NEW S, Ordered(S), NEW T, NEW s0, NEW b, NEW g, NEW h,
           Unrolls(s0, b, S, g), Unrolls(s0, b, T, h)
    PROVE  \A s \in SUBSET (S \cap T) : g[s] = h[s]
<1> DEFINE C == {s \in SUBSET (S \cap T) : g[s] # h[s]}
<1>1. ASSUME C # {} PROVE FALSE
  <2>1. C \in SUBSET SUBSET S OBVIOUS
  <2>2. IsFiniteSet(S) BY DEF Ordered
  <2> HIDE DEF C
  <2>3. PICK s \in C : \A t \in SUBSET s : t # s => t \notin C
    BY <1>1, <2>1, <2>2, SmallestSubset
  <2> USE DEF C
  <2>4. s \in SUBSET S /\ s \in SUBSET T /\ g[s] # h[s] OBVIOUS
  <2>5. g[s] = IF s = {} THEN s0 ELSE Applied(g[s \ {Top(s)}], b[Top(s)])
    BY <2>4 DEF Unrolls
  <2>6. h[s] = IF s = {} THEN s0 ELSE Applied(h[s \ {Top(s)}], b[Top(s)])
    BY <2>4 DEF Unrolls
  <2>7. s # {} BY <2>4, <2>5, <2>6
  <2>8. s \ {Top(s)} \in SUBSET s /\ s \ {Top(s)} # s BY <2>4, <2>7 DEF Ordered
  <2>9. g[s \ {Top(s)}] = h[s \ {Top(s)}] BY <2>3, <2>4, <2>8
  <2> QED BY <2>4, <2>5, <2>6, <2>7, <2>9
<1> QED BY <1>1

LEMMA UnrolledExists ==
    ASSUME NEW n \in Nat, NEW s0, NEW b
    PROVE  Unrolls(s0, b, 1 .. n, Unrolled(s0, b, 1 .. n))
<1> DEFINE S == 1 .. n
           C == {s \in SUBSET S : ~\E g : Unrolls(s0, b, s, g)}
<1>1. ASSUME C # {} PROVE FALSE
  <2>0. C \in SUBSET SUBSET S /\ IsFiniteSet(S) BY FS_Interval
  <2> HIDE DEF C
  <2>1. PICK s \in C : \A t \in SUBSET s : t # s => t \notin C
    BY <1>1, <2>0, SmallestSubset
  <2> USE DEF C
  <2>2. s \in SUBSET S /\ ~\E g : Unrolls(s0, b, s, g) OBVIOUS
  <2>3. ASSUME NEW t \in SUBSET s, t # s PROVE Unrolls(s0, b, t, Unrolled(s0, b, t))
    <3>1. \E g : Unrolls(s0, b, t, g) BY <2>1, <2>2, <2>3
    <3> QED BY <3>1 DEF Unrolled
  <2> DEFINE rest == s \ {Top(s)}
             g == [t \in SUBSET s |->
                     IF t = s THEN IF s = {} THEN s0 ELSE Applied(Unrolled(s0, b, rest)[rest], b[Top(s)])
                              ELSE Unrolled(s0, b, t)[t]]
  <2>4. ASSUME NEW t \in SUBSET s
        PROVE  g[t] = IF t = {} THEN s0 ELSE Applied(g[t \ {Top(t)}], b[Top(t)])
    <3>1. CASE t = s
      <4>1. CASE s = {} BY <3>1, <4>1
      <4>2. CASE s # {}
        <5>1. rest \in SUBSET s /\ rest # s BY <2>2, <4>2, TopIsGreatest
        <5>2. g[rest] = Unrolled(s0, b, rest)[rest] BY <5>1
        <5> QED BY <3>1, <4>2, <5>2
      <4> QED BY <4>1, <4>2
    <3>2. CASE t # s
      <4>1. g[t] = Unrolled(s0, b, t)[t] BY <3>2
      <4>2. Unrolled(s0, b, t)[t] = IF t = {} THEN s0 ELSE Applied(Unrolled(s0, b, t)[t \ {Top(t)}], b[Top(t)])
        BY <2>3, <3>2 DEF Unrolls
      <4>3. ASSUME t # {} PROVE Unrolled(s0, b, t)[t \ {Top(t)}] = g[t \ {Top(t)}]
        <5> DEFINE u == t \ {Top(t)}
        <5>1. u \in SUBSET s /\ u # s /\ u \in SUBSET (t \cap u) BY <2>2, <4>3, TopIsGreatest
        <5>2. Unrolls(s0, b, t, Unrolled(s0, b, t)) /\ Unrolls(s0, b, u, Unrolled(s0, b, u)) BY <2>3, <3>2, <5>1
        <5>3. Ordered(t) BY <2>2, OrderedUpTo
        <5> HIDE DEF u
        <5>4. Unrolled(s0, b, t)[u] = Unrolled(s0, b, u)[u]
          <6>1. PICK g1, h1 : g1 = Unrolled(s0, b, t) /\ h1 = Unrolled(s0, b, u) OBVIOUS
          <6>2. Unrolls(s0, b, t, g1) /\ Unrolls(s0, b, u, h1) BY <5>2, <6>1
          <6> HIDE DEF g, rest, C
          <6>3. g1[u] = h1[u] BY <5>1, <5>3, <6>2, UnrolledOnce
          <6> QED BY <6>1, <6>3
        <5>5. g[u] = Unrolled(s0, b, u)[u] BY <5>1
        <5> QED BY <5>4, <5>5 DEF u
      <4> QED BY <4>1, <4>2, <4>3
    <3> QED BY <3>1, <3>2
  <2>5. Unrolls(s0, b, s, g) BY <2>4 DEF Unrolls
  <2> QED BY <2>2, <2>5
<1>2. \E g : Unrolls(s0, b, S, g) BY <1>1
<1> QED BY <1>2 DEF Unrolled

LEMMA BatchInOrder ==
    ASSUME NEW n \in Nat, NEW b, DOMAIN b = 1 .. n, NEW wal, NEW led, NEW st,
           st[0] = [ok |-> TRUE, wallet |-> wal, ledger |-> led],
           \A i \in 1 .. n : st[i] = Applied(st[i - 1], b[i])
    PROVE  L!ApplyBatch(wal, led, b) = st[n]
<1>1. PICK s0 : s0 = [ok |-> TRUE, wallet |-> wal, ledger |-> led] OBVIOUS
<1>2. PICK it : it = Unrolled(s0, b, 1 .. n) OBVIOUS
<1>3. L!ApplyBatch(wal, led, b) = it[DOMAIN b]
  BY <1>1, <1>2 DEF L!ApplyBatch, L!FoldLeft, L!MapThenFoldSet, Applied, Top, Unrolled, Unrolls
<1>4. Unrolls(s0, b, 1 .. n, it) BY <1>2, UnrolledExists
<1>5. ASSUME NEW i \in 1 .. n PROVE it[1 .. i] = Applied(it[1 .. (i - 1)], b[i])
  <2>0. i \in Nat /\ i >= 1 /\ i \in 1 .. i OBVIOUS
  <2>1. 1 .. i \in SUBSET (1 .. n) /\ 1 .. i # {} BY <2>0
  <2>2. Top(1 .. i) = i
    <3>1. Top(1 .. i) \in 1 .. i /\ Top(1 .. i) >= i BY <2>0, <2>1, TopIsGreatest
    <3> QED BY <3>1
  <2>3. (1 .. i) \ {Top(1 .. i)} = 1 .. (i - 1) BY <2>2
  <2> QED BY <1>4, <2>1, <2>2, <2>3 DEF Unrolls
<1>6. it[1 .. 0] = s0
  <2>1. {} \in SUBSET (1 .. n) /\ 1 .. 0 = {} OBVIOUS
  <2> QED BY <1>4, <2>1 DEF Unrolls
<1> DEFINE T == {i \in 0 .. n : it[1 .. i] # st[i]}
<1>7. ASSUME T # {} PROVE FALSE
  <2>1. T \in SUBSET Nat OBVIOUS
  <2>2. \A i \in T : i \in 0 .. n /\ it[1 .. i] # st[i] OBVIOUS
  <2>3. \A i \in 0 .. n : i \notin T => it[1 .. i] = st[i] OBVIOUS
  <2> HIDE DEF T
  <2>4. PICK i \in T : \A j \in T : i <= j BY <1>7, <2>1, LeastOf
  <2>5. i # 0 BY <1>1, <1>6, <2>2
  <2>6. i \in 1 .. n /\ i - 1 \in 0 .. n /\ i - 1 \notin T BY <2>2, <2>4, <2>5
  <2>7. it[1 .. (i - 1)] = st[i - 1] BY <2>3, <2>6
  <2> QED BY <1>5, <2>2, <2>6, <2>7
<1>8. it[1 .. n] = st[n] BY <1>7
<1> QED BY <1>3, <1>8
-----------------------------------------------------------------------------
(* What the transactions do together is what a service that posts whole     *)
(* batches could do.  The changes a transaction has made so far are those   *)
(* that its mutations make one after the other from the committed tables as *)
(* they are now: a part is what it had changed after some of them, and it   *)
(* has been through one part after the other.  A commit of another request  *)
(* does not disturb that, for the rows and the keys of the parts are locked *)
(* and the rows that were found stay.                                       *)
Parts == [d : [Owner -> Int], p : SUBSET Owner, o : Ledgers]
Nothing == [d |-> [w \in Owner |-> 0], p |-> {}, o |-> [k \in Key |-> NoEntry]]
Mine(r) == [d |-> delta[r], p |-> rows[r], o |-> Own(r)]

RowIn(x, w) == [status |-> IF w \in x.p THEN "live" ELSE wallet[w].status,
                available |-> wallet[w].available + x.d[w]]
View(x) == [ok |-> TRUE, wallet |-> [w \in Owner |-> RowIn(x, w)], ledger |-> Merged(ledger, x.o)]

Changed(x, m) == [d |-> [x.d EXCEPT ![m.owner] = @ + L!Signed(m)],
                  p |-> x.p \cup {m.owner},
                  o |-> x.o]
Inserted(x, m) == [x EXCEPT !.o = [@ EXCEPT ![m.key] = m]]

Passes(x, m) == Merged(ledger, x.o)[m.key] # NoEntry /\ L!SameOperation(Merged(ledger, x.o)[m.key], m)
Goes(x, m) == Merged(ledger, x.o)[m.key] = NoEntry /\ L!MayApply(RowIn(x, m.owner), m)
Turns(x, m, y) == /\ L!ValidInput(m)
                  /\ \/ Passes(x, m) /\ y = x
                     \/ Goes(x, m) /\ y = Inserted(Changed(x, m), m)

Within(r, x) == /\ x.p \subseteq rows[r]
                /\ \A k \in Key : x.o[k] # NoEntry => Own(r)[k] # NoEntry

(* The parts of request r up to its position.                               *)
Passed(r, h) ==
    /\ h \in [0 .. pos[r] - 1 -> Parts]
    /\ h[0] = Nothing
    /\ \A i \in 1 .. pos[r] - 1 : Turns(h[i - 1], batch[r][i], h[i])
    /\ \A i \in 0 .. pos[r] - 1 : Within(r, h[i])
    /\ IF pc[r] = "insert"
       THEN LET x == h[pos[r] - 1]
            IN  /\ Own(r) = x.o
                /\ Mine(r) = Changed(x, Current(r))
                /\ L!ValidInput(Current(r))
                /\ L!MayApply(RowIn(x, Current(r).owner), Current(r))
       ELSE h[pos[r] - 1] = Mine(r)

Follows(r) == pc[r] \in InTransaction =>
                 /\ pos[r] \in 1 .. Len(batch[r]) + 1
                 /\ \E h : Passed(r, h)

DeletingExists == \A w \in Owner, step \in DeleteStep :
                      <<w, step>> \in deleting => wallet[w].status # "none"

PInv == DeletingExists /\ \A r \in Request : Follows(r)

(* One mutation on the tables as a part leaves them.                        *)
LEMMA TurnIsApplied ==
    ASSUME TypeOK, NEW x \in Parts, NEW m \in Mutation, NEW y, Turns(x, m, y)
    PROVE  Applied(View(x), m) = View(y)
<1> DEFINE v == View(x)
<1>1. m.key \in Key /\ m.owner \in Owner /\ m # NoEntry /\ L!Signed(m) \in Int BY MutationFields
<1>2. v.ok /\ v.ledger = Merged(ledger, x.o) /\ v.wallet[m.owner] = RowIn(x, m.owner)
  BY <1>1 DEF View
<1>3. L!ValidInput(m) BY DEF Turns
<1>4. CASE Passes(x, m) /\ y = x
  <2>1. v.ledger[m.key] # NoEntry /\ L!SameOperation(v.ledger[m.key], m)
    BY <1>2, <1>4 DEF Passes
  <2>2. L!SameOperation(v.ledger[m.key], m) = TRUE BY <2>1 DEF L!SameOperation
  <2>3. Applied(v, m) = [v EXCEPT !.ok = v.ok]
    <3> HIDE DEF v
    <3>1. Applied(v, m) = [v EXCEPT !.ok = L!SameOperation(v.ledger[m.key], m)]
      BY <1>2, <1>3, <2>1, Zenon DEF Applied, L!ApplyMutation
    <3>2. PICK t : t = L!SameOperation(v.ledger[m.key], m) OBVIOUS
    <3>3. t = v.ok
      <4>1. PICK W, G : v = [ok |-> TRUE, wallet |-> W, ledger |-> G] BY Zenon DEF View, v
      <4>2. v.ok = TRUE BY <4>1
      <4> QED BY <2>2, <3>2, <4>2
    <3>4. Applied(v, m) = [v EXCEPT !.ok = t] BY <3>1, <3>2, Zenon
    <3> QED BY <3>3, <3>4, Zenon
  <2>4. [v EXCEPT !.ok = v.ok] = v
    <3>1. PICK W, G : v = [ok |-> TRUE, wallet |-> W, ledger |-> G] BY Zenon DEF View
    <3> HIDE DEF v
    <3> QED BY <3>1
  <2> QED BY <1>4, <2>3, <2>4
<1>5. CASE Goes(x, m) /\ y = Inserted(Changed(x, m), m)
  <2>1. v.ledger[m.key] = NoEntry /\ L!MayApply(v.wallet[m.owner], m) BY <1>2, <1>5 DEF Goes
  <2>2. Applied(v, m) = [ok |-> TRUE,
                         wallet |-> [v.wallet EXCEPT ![m.owner] =
                            [status |-> "live",
                             available |-> v.wallet[m.owner].available + L!Signed(m)]],
                         ledger |-> [v.ledger EXCEPT ![m.key] = m]]
    <3> HIDE DEF v
    <3> QED BY <1>2, <1>3, <2>1 DEF Applied, L!ApplyMutation
  <2>3. y.d = [x.d EXCEPT ![m.owner] = x.d[m.owner] + L!Signed(m)]
        /\ y.p = x.p \cup {m.owner} /\ y.o = [x.o EXCEPT ![m.key] = m]
    BY <1>5 DEF Inserted, Changed
  <2>4. [v.ledger EXCEPT ![m.key] = m] = Merged(ledger, y.o)
    BY <1>1, <2>3 DEF View, Merged, Parts, Ledgers
  <2>5. x.d \in [Owner -> Int] BY DEF Parts
  <2>6. v.wallet = [w \in Owner |-> RowIn(x, w)] BY DEF View
  <2>7. \A w \in Owner : w # m.owner => RowIn(y, w) = RowIn(x, w) BY <2>3, <2>5 DEF RowIn
  <2>8. RowIn(y, m.owner) = [status |-> "live",
                             available |-> v.wallet[m.owner].available + L!Signed(m)]
    <3>1. y.d[m.owner] = x.d[m.owner] + L!Signed(m) /\ m.owner \in y.p BY <1>1, <2>3, <2>5
    <3>2. v.wallet[m.owner].available = wallet[m.owner].available + x.d[m.owner]
      BY <1>2 DEF RowIn
    <3>3. wallet[m.owner].available \in Int /\ x.d[m.owner] \in Int BY <1>1, <2>5 DEF TypeOK
    <3>4. wallet[m.owner].available + y.d[m.owner] = v.wallet[m.owner].available + L!Signed(m)
      BY <1>1, <3>1, <3>2, <3>3
    <3> QED BY <3>1, <3>4 DEF RowIn
  <2>9. [v.wallet EXCEPT ![m.owner] = [status |-> "live",
                                       available |-> v.wallet[m.owner].available + L!Signed(m)]]
        = [w \in Owner |-> RowIn(y, w)]
    <3> DEFINE row == [status |-> "live", available |-> v.wallet[m.owner].available + L!Signed(m)]
    <3>1. row = RowIn(y, m.owner) BY <2>8
    <3> HIDE DEF v, row
    <3>2. [v.wallet EXCEPT ![m.owner] = row] = [w \in Owner |-> RowIn(y, w)]
      BY <2>6, <2>7, <3>1
    <3> QED BY <3>2 DEF row
  <2> HIDE DEF v
  <2>10. PICK W : W = [v.wallet EXCEPT ![m.owner] =
                          [status |-> "live",
                           available |-> v.wallet[m.owner].available + L!Signed(m)]]
    OBVIOUS
  <2>11. PICK G : G = [v.ledger EXCEPT ![m.key] = m] OBVIOUS
  <2>12. Applied(v, m) = [ok |-> TRUE, wallet |-> W, ledger |-> G] BY <2>2, <2>10, <2>11
  <2>13. W = [w \in Owner |-> RowIn(y, w)] /\ G = Merged(ledger, y.o) BY <2>4, <2>9, <2>10, <2>11
  <2>14. View(y) = [ok |-> TRUE, wallet |-> W, ledger |-> G] BY <2>13 DEF View
  <2>15. Applied(v, m) = View(y) BY <2>12, <2>14, Zenon
  <2> QED BY <2>15 DEF v
<1> QED BY <1>4, <1>5 DEF Turns

(* A turn stays one in a step that keeps the rows of a request and its keys. *)
Kept(r) == /\ \A w \in rows[r] : wallet'[w] = wallet[w]
           /\ \A k \in Key : ledger[k] # NoEntry => ledger'[k] = ledger[k]
           /\ \A k \in Key : Own(r)[k] # NoEntry => ledger'[k] = NoEntry

LEMMA TurnStays ==
    ASSUME NEW r \in Request, Kept(r), NEW x \in Parts, NEW m \in Mutation, NEW y \in Parts,
           Within(r, y), Turns(x, m, y)
    PROVE  Turns(x, m, y)'
<1>1. m.key \in Key /\ m.owner \in Owner /\ m # NoEntry BY MutationFields
<1>2. L!ValidInput(m) BY DEF Turns
<1>3. CASE Passes(x, m) /\ y = x
  <2>1. Merged(ledger', x.o)[m.key] = Merged(ledger, x.o)[m.key]
    <3>1. Merged(ledger, x.o)[m.key] # NoEntry BY <1>3 DEF Passes
    <3> QED BY <1>1, <3>1 DEF Merged, Kept
  <2>2. Passes(x, m)' BY <1>3, <2>1 DEF Passes, L!SameOperation
  <2> QED BY <1>2, <1>3, <2>2 DEF Turns
<1>4. CASE Goes(x, m) /\ y = Inserted(Changed(x, m), m)
  <2>1. y.p = x.p \cup {m.owner} /\ y.o = [x.o EXCEPT ![m.key] = m]
    BY <1>4 DEF Inserted, Changed
  <2>2. x.o[m.key] = NoEntry BY <1>1, <1>4 DEF Goes, Merged
  <2>3. y.o[m.key] = m BY <1>1, <2>1 DEF Parts, Ledgers
  <2>4. Own(r)[m.key] # NoEntry BY <1>1, <2>3 DEF Within
  <2>5. ledger'[m.key] = NoEntry BY <1>1, <2>4 DEF Kept
  <2>6. Merged(ledger', x.o)[m.key] = NoEntry BY <1>1, <2>2, <2>5 DEF Merged
  <2>7. m.owner \in rows[r] BY <2>1 DEF Within
  <2>8. RowIn(x, m.owner)' = RowIn(x, m.owner) BY <2>7 DEF Kept, RowIn
  <2>9. L!MayApply(RowIn(x, m.owner), m)' BY <1>4, <2>8, Zenon DEF Goes
  <2>10. Goes(x, m)' BY <2>6, <2>9 DEF Goes
  <2>11. (y = Inserted(Changed(x, m), m))' BY <1>4 
  <2> QED BY <1>2, <2>10, <2>11 DEF Turns
<1> QED BY <1>3, <1>4 DEF Turns

(* So does all that a request has been through, in a step of another or in  *)
(* a lookup that finds nothing.                                             *)
Untouched(r) == /\ UNCHANGED <<batch[r], pos[r], delta[r], rows[r], wrote[r]>>
                /\ \/ pc'[r] = pc[r]
                   \/ pc[r] = "lookup" /\ pc'[r] = "write"

LEMMA FollowsStays ==
    ASSUME IInv, NEW r \in Request, Follows(r), Untouched(r), Kept(r)
    PROVE  Follows(r)'
<1>0. pc'[r] \in InTransaction => pc[r] \in InTransaction BY DEF Untouched
<1> SUFFICES ASSUME pc[r] \in InTransaction
             PROVE  /\ pos'[r] \in 1 .. Len(batch'[r]) + 1
                    /\ \E h : Passed(r, h)'
  BY <1>0 DEF Follows
<1>1. pos[r] \in 1 .. Len(batch[r]) + 1 BY DEF Follows
<1>2. PICK h : Passed(r, h) BY DEF Follows
<1>3. PICK n, b, c : n = pos[r] /\ b = batch[r] /\ c = Current(r) OBVIOUS
<1>4. b \in Seq(Mutation) /\ n \in 1 .. Len(b) + 1
  BY <1>1, <1>3, WalletAssumption DEF IInv, InBatch
<1>5. /\ h \in [0 .. n - 1 -> Parts] /\ h[0] = Nothing
      /\ \A i \in 1 .. n - 1 : Turns(h[i - 1], b[i], h[i])
      /\ \A i \in 0 .. n - 1 : Within(r, h[i])
  BY <1>2, <1>3 DEF Passed
<1>6. n = pos[r]' /\ b = batch[r]' /\ c = Current(r)' BY <1>3 DEF Untouched, Current
<1>7. Own(r)' = Own(r) /\ Mine(r)' = Mine(r) BY DEF Untouched, Mine, Own
<1>8. \A i \in 1 .. n - 1 : Turns(h[i - 1], b[i], h[i])'
  <2> SUFFICES ASSUME NEW i \in 1 .. n - 1 PROVE Turns(h[i - 1], b[i], h[i])' OBVIOUS
  <2>1. n \in Nat /\ Len(b) \in Nat /\ i \in 1 .. Len(b) /\ i \in 0 .. n - 1 /\ i - 1 \in 0 .. n - 1
    BY <1>4
  <2>2. PICK x \in Parts, y \in Parts, m \in Mutation : x = h[i - 1] /\ y = h[i] /\ m = b[i]
    BY <1>4, <1>5, <2>1
  <2>3. Turns(x, m, y) /\ Within(r, y) BY <1>5, <2>1, <2>2
  <2>4. Turns(x, m, y)' BY <2>3, TurnStays
  <2> QED BY <2>2, <2>4
<1>9. \A i \in 0 .. n - 1 : Within(r, h[i])' BY <1>5, <1>7 DEF Within, Untouched
<1>10. CASE pc[r] # "insert"
  <2>1. h[n - 1] = Mine(r) BY <1>2, <1>3, <1>10 DEF Passed
  <2>2. pc[r]' # "insert" BY <1>10 DEF Untouched
  <2>3. h[n - 1] = Mine(r)' BY <2>1, <1>7
  <2> QED BY <1>4, <1>5, <1>6, <1>8, <1>9, <2>2, <2>3 DEF Passed
<1>11. CASE pc[r] = "insert"
  <2>1. PICK x : x = h[n - 1] OBVIOUS
  <2>2. /\ Own(r) = x.o /\ Mine(r) = Changed(x, c) /\ L!ValidInput(c)
        /\ L!MayApply(RowIn(x, c.owner), c)
    BY <1>2, <1>3, <1>11, <2>1 DEF Passed
  <2>3. c.owner \in rows[r] BY <1>3, <1>11 DEF IInv, InBatch
  <2>4. RowIn(x, c.owner)' = RowIn(x, c.owner) BY <2>3 DEF Kept, RowIn
  <2>5. L!MayApply(RowIn(x, c.owner), c)' BY <2>2, <2>4, Zenon
  <2>6. pc[r]' = "insert" BY <1>11 DEF Untouched
  <2>7. Own(r)' = x.o /\ Mine(r)' = Changed(x, c) BY <1>7, <2>2
  <2>8. (LET y == h[pos[r] - 1]
         IN  /\ Own(r) = y.o
             /\ Mine(r) = Changed(y, Current(r))
             /\ L!ValidInput(Current(r))
             /\ L!MayApply(RowIn(y, Current(r).owner), Current(r)))'
    <3>1. h[pos[r]' - 1] = x BY <1>6, <2>1
    <3>2. L!ValidInput(c)' BY <2>2
    <3> QED BY <1>6, <2>5, <2>7, <3>1, <3>2, Zenon
  <2> QED BY <1>4, <1>5, <1>6, <1>8, <1>9, <2>6, <2>8 DEF Passed
<1> QED BY <1>10, <1>11

LEMMA QuietKept ==
    ASSUME IInv, NEW r \in Request, ledger' = ledger, \A w \in rows[r] : wallet'[w] = wallet[w]
    PROVE  Kept(r)
<1>1. \A k \in Key : Own(r)[k] # NoEntry => ledger[k] = NoEntry BY OwnIsNew
<1> QED BY <1>1 DEF Kept

(* A commit installs what its transaction sees.                             *)
LEMMA Installed ==
    ASSUME IInv, NEW r \in Request, Commit(r)
    PROVE  /\ wallet' = [w \in Owner |-> RowIn(Mine(r), w)]
           /\ ledger' = Merged(ledger, Own(r))
<1>1. ASSUME NEW w \in Owner PROVE wallet'[w] = RowIn(Mine(r), w)
  <2>1. wallet'[w] = IF w \in rows[r] THEN Row(r, w) ELSE wallet[w] BY DEF Commit
  <2>2. Row(r, w) = RowIn(Mine(r), w) BY DEF Row, RowIn, Mine
  <2>3. ASSUME w \notin rows[r] PROVE wallet[w] = RowIn(Mine(r), w)
    <3>1. delta[r][w] = 0 /\ wallet[w] \in [status : L!WalletStatus, available : Int]
      BY <2>3 DEF IInv, DeltaInRange, TypeOK
    <3>2. wallet[w] = [status |-> wallet[w].status, available |-> wallet[w].available + delta[r][w]]
      BY <3>1
    <3> QED BY <2>3, <3>2 DEF RowIn, Mine
  <2> QED BY <2>1, <2>2, <2>3
<1> QED BY <1>1, LedgerInstalled DEF Commit

(* Another request does not disturb what a transaction has been through.    *)
LEMMA OthersKeep ==
    ASSUME IInv, NEW r \in Request, NEW q \in Request, q # r,
           Step(q) \/ Timeout(q) \/ \E b \in Batches : Begin(q, b)
    PROVE  Untouched(r) /\ Kept(r)
<1>1. Untouched(r)
  <2>1. CASE Rollback(q) BY <2>1 DEF Rollback, Untouched, IInv, TypeOK
  <2>2. CASE Commit(q) BY <2>2 DEF Commit, Untouched, IInv, TypeOK
  <2>3. CASE \E b \in Batches : Begin(q, b) BY <2>3 DEF Begin, Untouched, IInv, TypeOK
  <2>4. CASE Lookup(q) /\ ~Rollback(q)
    BY <2>4 DEF Lookup, Advance, Untouched, IInv, TypeOK
  <2>5. CASE Write(q) /\ ~Rollback(q)
    <3>1. pc[q] = "write" BY <2>5 DEF Write
    <3>2. Current(q).owner \in Owner BY <3>1, CurrentType, MutationFields
    <3> QED BY <2>5 DEF Write, Untouched, IInv, TypeOK
  <2>6. CASE Insert(q) /\ ~Rollback(q)
    BY <2>6 DEF Insert, Advance, Untouched, IInv, TypeOK
  <2> QED BY <2>1, <2>2, <2>3, <2>4, <2>5, <2>6 DEF Step, Timeout
<1>2. CASE ~Commit(q)
  <2>1. UNCHANGED <<wallet, ledger>>
    BY <1>2 DEF Step, Timeout, Begin, Lookup, Write, Insert, Rollback
  <2> QED BY <1>1, <2>1, QuietKept
<1>3. CASE Commit(q)
  <2>1. ASSUME NEW w \in rows[r] PROVE wallet'[w] = wallet[w]
    <3>1. w \notin rows[q] /\ w \in Owner BY DEF IInv, TypeOK, RowsExclusive
    <3> QED BY <1>3, <3>1 DEF Commit
  <2>2. ASSUME NEW k \in Key, ledger[k] # NoEntry PROVE ledger'[k] = ledger[k]
    <3>1. Own(q)[k] = NoEntry BY <2>2, OwnIsNew
    <3> QED BY <1>3, <3>1, Installed DEF Merged
  <2>3. ASSUME NEW k \in Key, Own(r)[k] # NoEntry PROVE ledger'[k] = NoEntry
    <3>1. ledger[k] = NoEntry /\ \E m \in wrote[r] : m.key = k BY <2>3, OwnIsNew
    <3>2. \A m \in wrote[q] : m.key # k BY <3>1 DEF IInv, KeysExclusive
    <3>3. Own(q)[k] = NoEntry BY <3>2, OwnIsNew
    <3> QED BY <1>3, <3>1, <3>3, Installed DEF Merged
  <2> QED BY <1>1, <2>1, <2>2, <2>3 DEF Kept
<1> QED BY <1>2, <1>3

(* The steps of the request itself.                                         *)
LEMMA TurnSame ==
    ASSUME UNCHANGED <<wallet, ledger>>, NEW x, NEW m, NEW y, Turns(x, m, y)
    PROVE  Turns(x, m, y)'
<1>1. RowIn(x, m.owner)' = RowIn(x, m.owner) BY DEF RowIn
<1>2. Merged(ledger, x.o)' = Merged(ledger, x.o) BY DEF Merged
<1>3. L!ValidInput(m)' <=> L!ValidInput(m) BY DEF L!ValidInput
<1>4. (y = Inserted(Changed(x, m), m))' <=> (y = Inserted(Changed(x, m), m)) OBVIOUS
<1>5. L!MayApply(RowIn(x, m.owner), m)' <=> L!MayApply(RowIn(x, m.owner), m) BY <1>1, Zenon
<1>6. Passes(x, m)' <=> Passes(x, m) BY <1>2, Zenon DEF Passes
<1>7. Goes(x, m)' <=> Goes(x, m) BY <1>2, <1>5, Zenon DEF Goes
<1> QED BY <1>3, <1>4, <1>6, <1>7, Zenon DEF Turns

LEMMA FoundIs ==
    ASSUME IInv, NEW r \in Request, NEW k \in Key
    PROVE  /\ Found(r, k) = {} <=> Merged(ledger, Own(r))[k] = NoEntry
           /\ Found(r, k) # {} => Merged(ledger, Own(r))[k] \in Found(r, k)
  BY OwnIsNew DEF Found, Merged

LEMMA NothingIsPart == Nothing \in Parts
  BY DEF Nothing, Parts, Ledgers

LEMMA MineIsPart == ASSUME IInv, NEW r \in Request PROVE Mine(r) \in Parts
<1>1. Own(r) \in Ledgers BY OwnApart, RowsAre DEF Own
<1> QED BY <1>1 DEF IInv, TypeOK, Mine, Parts

LEMMA BeginFollows ==
    ASSUME IInv, NEW r \in Request, NEW b \in Batches, Begin(r, b)
    PROVE  Follows(r)'
<1>1. pos[r] = 1 /\ wrote[r] = {} /\ rows[r] = {} BY DEF Begin, IInv, InBatch
<1>2. delta[r] = [w \in Owner |-> 0] BY <1>1 DEF IInv, TypeOK, DeltaInRange
<1>3. Own(r) = [k \in Key |-> NoEntry] BY <1>1 DEF Own, Rows
<1>4. Mine(r)' = Nothing BY <1>1, <1>2, <1>3 DEF Begin, Mine, Own, Nothing
<1>5. pc'[r] = "lookup" /\ pos'[r] = 1 /\ batch'[r] = b BY <1>1 DEF Begin, IInv, TypeOK
<1>6. b \in Seq(Mutation) /\ Len(b) \in Nat BY WalletAssumption
<1>7. PICK h : h = [i \in 0 .. 0 |-> Nothing] OBVIOUS
<1>8. h \in [0 .. 0 -> Parts] /\ h[0] = Nothing BY <1>7, NothingIsPart
<1>9. Within(r, Nothing)' BY <1>1, <1>3 DEF Within, Nothing
<1>10. Passed(r, h)' BY <1>4, <1>5, <1>8, <1>9 DEF Passed
<1> QED BY <1>5, <1>6, <1>10 DEF Follows

LEMMA FollowsOn ==
    ASSUME IInv, NEW r \in Request, pc[r] \in {"lookup", "insert"}, Advance(r),
           UNCHANGED <<wallet, ledger, batch, delta, rows>>, NEW h, Passed(r, h),
           NEW y \in Parts, y = Mine(r)', Turns(h[pos[r] - 1], Current(r), y),
           \A k \in Key : Own(r)[k] # NoEntry => Own(r)'[k] # NoEntry
    PROVE  Follows(r)'
<1>1. PICK n, b : n = pos[r] /\ b = batch[r] OBVIOUS
<1>2. n \in 1 .. Len(b) /\ Len(b) \in Nat BY <1>1, CurrentType
<1>3. pos'[r] = n + 1 /\ batch'[r] = b /\ pc'[r] # "insert" BY <1>1, Advanced
<1>4. PICK g : g = [i \in 0 .. n |-> IF i = n THEN y ELSE h[i]] OBVIOUS
<1>5. /\ h \in [0 .. n - 1 -> Parts] /\ h[0] = Nothing
      /\ \A i \in 1 .. n - 1 : Turns(h[i - 1], b[i], h[i])
      /\ \A i \in 0 .. n - 1 : Within(r, h[i])
      /\ Turns(h[n - 1], b[n], y)
  BY <1>1 DEF Passed, Current
<1>6. g \in [0 .. n -> Parts] /\ g[0] = Nothing /\ g[n] = y BY <1>2, <1>4, <1>5
<1>7. ASSUME NEW i \in 1 .. n PROVE Turns(g[i - 1], b[i], g[i])'
  <2>1. i - 1 \in 0 .. n /\ i - 1 # n /\ (i # n => i \in 1 .. n - 1) BY <1>2
  <2>2. Turns(g[i - 1], b[i], g[i])
    <3>1. CASE i = n BY <1>4, <1>5, <1>6, <2>1, <3>1
    <3>2. CASE i # n
      <4>1. g[i] = h[i] /\ g[i - 1] = h[i - 1] BY <1>4, <2>1, <3>2
      <4> QED BY <1>5, <2>1, <3>2, <4>1
    <3> QED BY <3>1, <3>2
  <2>3. PICK x, m, z : x = g[i - 1] /\ m = b[i] /\ z = g[i] OBVIOUS
  <2>4. Turns(x, m, z)' BY <2>2, <2>3, TurnSame
  <2> QED BY <2>3, <2>4
<1>8. ASSUME NEW i \in 0 .. n PROVE Within(r, g[i])'
  <2>1. CASE i = n BY <1>6, <2>1 DEF Within, Mine
  <2>2. CASE i # n
    <3>1. i \in 0 .. n - 1 /\ g[i] = h[i] BY <1>2, <1>4, <2>2
    <3>2. Within(r, h[i]) BY <1>5, <3>1
    <3> QED BY <3>1, <3>2 DEF Within
  <2> QED BY <2>1, <2>2
<1>9. Passed(r, g)'
  <2>1. pos'[r] - 1 = n BY <1>2, <1>3
  <2>2. g \in [0 .. pos'[r] - 1 -> Parts] /\ g[pos'[r] - 1] = Mine(r)' BY <1>6, <2>1
  <2>3. \A i \in 1 .. pos'[r] - 1 : Turns(g[i - 1], batch[r][i], g[i])' BY <1>3, <1>7, <2>1
  <2>4. \A i \in 0 .. pos'[r] - 1 : Within(r, g[i])' BY <1>8, <2>1
  <2> QED BY <1>3, <1>6, <2>2, <2>3, <2>4 DEF Passed
<1>10. pos'[r] \in 1 .. Len(batch'[r]) + 1 BY <1>2, <1>3
<1> QED BY <1>9, <1>10 DEF Follows

LEMMA LookupFollows ==
    ASSUME IInv, NEW r \in Request, Follows(r), Lookup(r)
    PROVE  Follows(r)'
<1>1. pc[r] = "lookup" BY DEF Lookup
<1>2. PICK m \in Mutation : m = Current(r) BY <1>1, CurrentType
<1>3. m.key \in Key BY MutationFields
<1>4. CASE Rollback(r)
  <2>1. pc'[r] = "failed" BY <1>4 DEF Rollback, IInv, TypeOK
  <2> QED BY <2>1 DEF Follows
<1>5. CASE ~Rollback(r) /\ Found(r, m.key) = {}
  <2>1. Untouched(r) BY <1>1, <1>2, <1>5 DEF Lookup, Untouched, IInv, TypeOK
  <2>2. UNCHANGED <<wallet, ledger>> BY <1>5 DEF Lookup
  <2>3. Kept(r) BY <2>2, QuietKept
  <2> QED BY <2>1, <2>3, FollowsStays
<1>6. CASE ~Rollback(r) /\ Found(r, m.key) # {}
  <2>1. /\ L!ValidInput(m) /\ \A e \in Found(r, m.key) : L!SameOperation(e, m)
        /\ Advance(r) /\ UNCHANGED <<wallet, ledger, batch, delta, rows, wrote>>
    BY <1>2, <1>6 DEF Lookup
  <2>2. PICK h : Passed(r, h) BY <1>1 DEF Follows
  <2>3. PICK y \in Parts : y = Mine(r) BY MineIsPart
  <2>4. y = Mine(r)' /\ Own(r)' = Own(r) BY <2>1, <2>3 DEF Mine, Own
  <2>5. h[pos[r] - 1] = y BY <1>1, <2>2, <2>3 DEF Passed
  <2>6. y.o = Own(r) BY <2>3 DEF Mine
  <2>7. Passes(y, m) BY <1>3, <1>6, <2>1, <2>6, FoundIs DEF Passes
  <2>8. Turns(y, m, y) BY <2>1, <2>7 DEF Turns
  <2>9. Turns(h[pos[r] - 1], Current(r), y) BY <1>2, <2>5, <2>8
  <2> QED BY <1>1, <2>1, <2>2, <2>4, <2>9, FollowsOn
<1> QED BY <1>4, <1>5, <1>6

LEMMA WriteFollows ==
    ASSUME IInv, NEW r \in Request, Follows(r), Write(r)
    PROVE  Follows(r)'
<1>1. pc[r] = "write" BY DEF Write
<1>2. CASE Rollback(r)
  <2>1. pc'[r] = "failed" BY <1>2 DEF Rollback, IInv, TypeOK
  <2> QED BY <2>1 DEF Follows
<1>3. CASE ~Rollback(r)
  <2>1. PICK m \in Mutation : m = Current(r) BY <1>1, CurrentType
  <2>2. m.owner \in Owner /\ L!Signed(m) \in Int BY MutationFields
  <2>3. /\ L!MayApply(Row(r, m.owner), m)
        /\ rows' = [rows EXCEPT ![r] = @ \cup {m.owner}]
        /\ delta' = [delta EXCEPT ![r][m.owner] = @ + L!Signed(m)]
        /\ pc' = [pc EXCEPT ![r] = "insert"]
        /\ UNCHANGED <<wallet, ledger, batch, pos, wrote>>
    BY <1>3, <2>1 DEF Write
  <2>4. PICK h : Passed(r, h) BY <1>1 DEF Follows
  <2>5. PICK n, b, x : n = pos[r] /\ b = batch[r] /\ x = Mine(r) OBVIOUS
  <2>6. /\ h \in [0 .. n - 1 -> Parts] /\ h[0] = Nothing
        /\ \A i \in 1 .. n - 1 : Turns(h[i - 1], b[i], h[i])
        /\ \A i \in 0 .. n - 1 : Within(r, h[i])
        /\ h[n - 1] = x
    BY <1>1, <2>4, <2>5 DEF Passed
  <2>7. n = pos'[r] /\ b = batch'[r] /\ m = Current(r)' /\ pc'[r] = "insert" /\ Own(r)' = Own(r)
    BY <2>1, <2>3, <2>5 DEF Current, Own, IInv, TypeOK
  <2>8. ASSUME NEW i \in 1 .. n - 1 PROVE Turns(h[i - 1], b[i], h[i])'
    <3>1. PICK u, c, z : u = h[i - 1] /\ c = b[i] /\ z = h[i] OBVIOUS
    <3>2. Turns(u, c, z) BY <2>6, <3>1
    <3>3. Turns(u, c, z)' BY <2>3, <3>2, TurnSame
    <3> QED BY <3>1, <3>3
  <2>9. rows'[r] = rows[r] \cup {m.owner}
        /\ delta'[r] = [delta[r] EXCEPT ![m.owner] = @ + L!Signed(m)]
    BY <2>3 DEF IInv, TypeOK
  <2>10. \A i \in 0 .. n - 1 : Within(r, h[i])' BY <2>6, <2>7, <2>9 DEF Within
  <2>11. Own(r)' = x.o BY <2>5, <2>7 DEF Mine
  <2>12. Mine(r)' = Changed(x, m) BY <2>5, <2>7, <2>9 DEF Mine, Changed
  <2>13. RowIn(x, m.owner)' = Row(r, m.owner) BY <2>3, <2>5 DEF RowIn, Row, Mine
  <2>14. L!MayApply(RowIn(x, m.owner), m)' BY <2>3, <2>13, Zenon
  <2>15. L!ValidInput(m) BY <1>1, <2>1 DEF IInv, InBatch
  <2>16. (LET z == h[pos[r] - 1]
          IN  /\ Own(r) = z.o
              /\ Mine(r) = Changed(z, Current(r))
              /\ L!ValidInput(Current(r))
              /\ L!MayApply(RowIn(z, Current(r).owner), Current(r)))'
    <3>1. h[pos[r]' - 1] = x BY <2>6, <2>7
    <3>2. L!ValidInput(m)' BY <2>15
    <3> QED BY <2>7, <2>11, <2>12, <2>14, <3>1, <3>2, Zenon
  <2>17. Passed(r, h)' BY <2>6, <2>7, <2>8, <2>10, <2>16 DEF Passed
  <2>18. pos[r] \in 1 .. Len(batch[r]) /\ Len(batch[r]) \in Nat BY <1>1, CurrentType
  <2> QED BY <2>3, <2>17, <2>18 DEF Follows
<1> QED BY <1>2, <1>3

LEMMA InsertFollows ==
    ASSUME IInv, NEW r \in Request, Follows(r), Insert(r)
    PROVE  Follows(r)'
<1>1. pc[r] = "insert" BY DEF Insert
<1>2. CASE Rollback(r)
  <2>1. pc'[r] = "failed" BY <1>2 DEF Rollback, IInv, TypeOK
  <2> QED BY <2>1 DEF Follows
<1>3. CASE ~Rollback(r)
  <2>1. PICK m \in Mutation : m = Current(r) BY <1>1, CurrentType
  <2>2. m.key \in Key /\ m # NoEntry /\ m.owner \in Owner BY MutationFields
  <2>3. /\ Found(r, m.key) = {} /\ Advance(r)
        /\ wrote' = [wrote EXCEPT ![r] = @ \cup {m}]
        /\ UNCHANGED <<wallet, ledger, batch, delta, rows>>
    BY <1>3, <2>1 DEF Insert
  <2>4. wrote'[r] = wrote[r] \cup {m} BY <2>3 DEF IInv, TypeOK
  <2>5. \A n \in wrote[r] : n.key # m.key BY <2>3 DEF Found
  <2>6. /\ Own(r) \in Ledgers /\ Own(r)' \in Ledgers
        /\ \A k \in Key : Own(r)'[k] = IF k = m.key THEN m ELSE Own(r)[k]
    BY <2>4, <2>5, OwnGrows
  <2>7. PICK h : Passed(r, h) BY <1>1 DEF Follows
  <2>8. PICK x : x = h[pos[r] - 1] OBVIOUS
  <2>9. /\ Own(r) = x.o /\ Mine(r) = Changed(x, m)
        /\ L!ValidInput(m) /\ L!MayApply(RowIn(x, m.owner), m)
    BY <1>1, <2>1, <2>7, <2>8 DEF Passed
  <2>10. PICK y : y = Mine(r)' OBVIOUS
  <2>11. Own(r)' = [Own(r) EXCEPT ![m.key] = m] BY <2>2, <2>6 DEF Ledgers
  <2>12. y = [d |-> delta[r], p |-> rows[r], o |-> [Own(r) EXCEPT ![m.key] = m]]
    BY <2>3, <2>10, <2>11 DEF Mine
  <2>13. y \in Parts BY <2>6, <2>11, <2>12 DEF Parts, IInv, TypeOK
  <2>14. y = Inserted(Mine(r), m)
    <3>1. PICK o : o = Own(r) OBVIOUS
    <3>2. Mine(r) = [d |-> delta[r], p |-> rows[r], o |-> o] BY <3>1 DEF Mine
    <3>3. Inserted(Mine(r), m) = [d |-> delta[r], p |-> rows[r], o |-> [o EXCEPT ![m.key] = m]]
      BY <3>2 DEF Inserted
    <3> QED BY <2>12, <3>1, <3>3
  <2>15. y = Inserted(Changed(x, m), m) BY <2>9, <2>14
  <2>16. Merged(ledger, x.o)[m.key] = NoEntry BY <2>2, <2>3, <2>9, FoundIs
  <2>17. Turns(x, m, y) BY <2>9, <2>15, <2>16 DEF Turns, Goes
  <2>18. Turns(h[pos[r] - 1], Current(r), y) BY <2>1, <2>8, <2>17
  <2>19. \A k \in Key : Own(r)[k] # NoEntry => Own(r)'[k] # NoEntry BY <2>2, <2>6
  <2> QED BY <1>1, <2>3, <2>7, <2>10, <2>13, <2>18, <2>19, FollowsOn
<1> QED BY <1>2, <1>3

(* The parts follow the requests.                                           *)
LEMMA InitPInv == Init => PInv
<1> SUFFICES ASSUME Init PROVE PInv OBVIOUS
<1>1. DeletingExists BY DEF Init, DeletingExists
<1>2. \A r \in Request : Follows(r) BY DEF Init, Follows
<1> QED BY <1>1, <1>2 DEF PInv

LEMMA StaysExisting ==
    ASSUME IInv, DeletingExists, [Next]_vars
    PROVE  DeletingExists'
<1>1. ASSUME NEW r \in Request, Step(r) \/ Timeout(r) \/ \E b \in Batches : Begin(r, b)
      PROVE  DeletingExists'
  <2>1. deleting' = deleting
    BY <1>1 DEF Step, Timeout, Begin, Lookup, Write, Insert, Commit, Rollback
  <2>2. \A w \in Owner : wallet'[w] = wallet[w] \/ wallet'[w].status \in {"live", wallet[w].status}
    BY <1>1 DEF Step, Timeout, Begin, Lookup, Write, Insert, Commit, Rollback, Row
  <2> QED BY <2>1, <2>2 DEF DeletingExists
<1>2. ASSUME NEW w \in Owner, EnsureWallet(w) PROVE DeletingExists'
  BY <1>2 DEF EnsureWallet, DeletingExists, IInv, TypeOK
<1>3. ASSUME NEW w \in Owner, Delete(w) PROVE DeletingExists'
  <2>1. ASSUME NEW step \in DeleteStep, DeleteCheck(w, step) PROVE DeletingExists'
    <3>1. wallet[w].status = "live" /\ wallet' = wallet /\ deleting' = deleting \cup {<<w, step>>}
      BY <2>1 DEF DeleteCheck
    <3>2. ASSUME NEW u \in Owner, NEW t \in DeleteStep, <<u, t>> \in deleting'
          PROVE  wallet'[u].status # "none"
      <4>1. CASE <<u, t>> \in deleting BY <3>1, <4>1 DEF DeletingExists
      <4>2. CASE <<u, t>> = <<w, step>> BY <3>1, <4>2
      <4> QED BY <3>1, <3>2, <4>1, <4>2
    <3> QED BY <3>2 DEF DeletingExists
  <2>2. CASE DeleteRecheck(w) BY <2>2 DEF DeleteRecheck, DeletingExists
  <2>3. CASE DeleteWrite(w) BY <2>3 DEF DeleteWrite, DeletingExists, IInv, TypeOK
  <2> QED BY <1>3, <2>1, <2>2, <2>3 DEF Delete
<1>4. CASE UNCHANGED vars BY <1>4 DEF vars, DeletingExists
<1> QED BY <1>1, <1>2, <1>3, <1>4 DEF Next

LEMMA NextPInv == IInv /\ PInv /\ [Next]_vars => PInv'
<1> SUFFICES ASSUME IInv, PInv, [Next]_vars PROVE PInv' OBVIOUS
<1>1. DeletingExists' BY StaysExisting DEF PInv
<1>2. ASSUME NEW r \in Request PROVE Follows(r)'
  <2>0. Follows(r) BY DEF PInv
  <2>1. ASSUME NEW q \in Request, q # r, Step(q) \/ Timeout(q) \/ \E b \in Batches : Begin(q, b)
        PROVE  Follows(r)'
    <3>1. Untouched(r) /\ Kept(r) BY <2>1, OthersKeep
    <3> QED BY <2>0, <3>1, FollowsStays
  <2>2. CASE \E b \in Batches : Begin(r, b) BY <2>2, BeginFollows
  <2>3. CASE Step(r)
    <3>1. CASE Lookup(r) BY <2>0, <3>1, LookupFollows
    <3>2. CASE Write(r) BY <2>0, <3>2, WriteFollows
    <3>3. CASE Insert(r) BY <2>0, <3>3, InsertFollows
    <3>4. CASE Commit(r)
      <4>1. pc'[r] = "done" BY <3>4 DEF Commit, IInv, TypeOK
      <4> QED BY <4>1 DEF Follows
    <3> QED BY <2>3, <3>1, <3>2, <3>3, <3>4 DEF Step
  <2>4. CASE Timeout(r)
    <3>1. pc'[r] = "failed" BY <2>4 DEF Timeout, Rollback, IInv, TypeOK
    <3> QED BY <3>1 DEF Follows
  <2>5. ASSUME NEW w \in Owner, EnsureWallet(w) \/ Delete(w) PROVE Follows(r)'
    <3>1. Untouched(r) /\ ledger' = ledger
      BY <2>5 DEF EnsureWallet, Delete, DeleteCheck, DeleteRecheck, DeleteWrite, reqVars, Untouched
    <3>2. \A x \in rows[r] : wallet'[x] = wallet[x]
      <4>1. rows[r] \subseteq Owner BY DEF IInv, TypeOK
      <4>2. CASE EnsureWallet(w) BY <4>1, <4>2 DEF EnsureWallet, IInv, TypeOK
      <4>3. CASE DeleteWrite(w) BY <4>1, <4>3 DEF DeleteWrite, IInv, TypeOK
      <4>4. CASE Delete(w) /\ ~DeleteWrite(w) BY <4>4 DEF Delete, DeleteCheck, DeleteRecheck
      <4> QED BY <2>5, <4>2, <4>3, <4>4
    <3>3. Kept(r) BY <3>1, <3>2, QuietKept
    <3> QED BY <2>0, <3>1, <3>3, FollowsStays
  <2>6. CASE UNCHANGED vars
    <3>1. Untouched(r) /\ ledger' = ledger /\ wallet' = wallet BY <2>6 DEF vars, Untouched
    <3>2. Kept(r) BY <3>1, QuietKept
    <3> QED BY <2>0, <3>1, <3>2, FollowsStays
  <2> QED BY <2>1, <2>2, <2>3, <2>4, <2>5, <2>6 DEF Next
<1> QED BY <1>1, <1>2 DEF PInv

(* Each step is one of the abstract service's, or changes no table.         *)
AbstractStep == [L!Next]_<<wallet, ledger>>

LEMMA CommitPosts ==
    ASSUME IInv, NEW r \in Request, Follows(r), Commit(r)
    PROVE  L!Post(batch[r])
<1>1. pc[r] = "commit" BY DEF Commit
<1>2. PICK h : Passed(r, h) BY <1>1 DEF Follows
<1>3. PICK n, b : n = Len(batch[r]) /\ b = batch[r] OBVIOUS
<1>4. b \in Seq(Mutation) /\ pos[r] \in 1 .. Len(b) + 1 /\ pos[r] > Len(b)
  BY <1>1, <1>3, WalletAssumption DEF IInv, InBatch, Follows
<1>5. n \in Nat /\ pos[r] = n + 1 /\ pos[r] - 1 = n /\ DOMAIN b = 1 .. n BY <1>3, <1>4
<1>6. /\ h \in [0 .. n -> Parts] /\ h[0] = Nothing /\ h[n] = Mine(r)
      /\ \A i \in 1 .. n : Turns(h[i - 1], b[i], h[i])
  BY <1>1, <1>2, <1>3, <1>5 DEF Passed
<1>7. PICK st : st = [i \in 0 .. n |-> View(h[i])] OBVIOUS
<1>8. st[0] = [ok |-> TRUE, wallet |-> wallet, ledger |-> ledger]
  <2>1. st[0] = View(Nothing) BY <1>5, <1>6, <1>7
  <2>2. ASSUME NEW w \in Owner PROVE RowIn(Nothing, w) = wallet[w]
    <3>1. wallet[w] \in [status : L!WalletStatus, available : Int] BY DEF IInv, TypeOK
    <3>2. wallet[w] = [status |-> wallet[w].status, available |-> wallet[w].available + 0]
      BY <3>1
    <3> QED BY <3>2 DEF RowIn, Nothing
  <2>3. wallet = [w \in Owner |-> RowIn(Nothing, w)] BY <2>2 DEF IInv, TypeOK
  <2>4. ledger = Merged(ledger, Nothing.o) BY DEF IInv, TypeOK, Merged, Nothing
  <2> QED BY <2>1, <2>3, <2>4, Zenon DEF View
<1>9. ASSUME NEW i \in 1 .. n PROVE st[i] = Applied(st[i - 1], b[i])
  <2>1. i \in 0 .. n /\ i - 1 \in 0 .. n /\ i \in 1 .. Len(b) BY <1>3, <1>5
  <2>2. PICK x \in Parts, m \in Mutation, y \in Parts : x = h[i - 1] /\ m = b[i] /\ y = h[i]
    BY <1>4, <1>6, <2>1
  <2>3. Turns(x, m, y) BY <1>6, <2>2
  <2>4. Applied(View(x), m) = View(y) BY <2>3, TurnIsApplied DEF IInv
  <2> QED BY <1>7, <2>1, <2>2, <2>4
<1>10. L!ApplyBatch(wallet, ledger, b) = st[n] BY <1>5, <1>8, <1>9, BatchInOrder
<1>11. st[n] = View(Mine(r)) BY <1>5, <1>6, <1>7
<1>12. View(Mine(r)) = [ok |-> TRUE, wallet |-> wallet', ledger |-> ledger']
  <2>1. wallet' = [w \in Owner |-> RowIn(Mine(r), w)] /\ ledger' = Merged(ledger, Own(r))
    BY Installed
  <2>2. Mine(r).o = Own(r) BY DEF Mine
  <2> QED BY <2>1, <2>2 DEF View
<1> QED BY <1>3, <1>10, <1>11, <1>12 DEF L!Post

LEMMA StepIsAbstract == IInv /\ PInv /\ [Next]_vars => AbstractStep
<1> SUFFICES ASSUME IInv, PInv, [Next]_vars PROVE AbstractStep OBVIOUS
<1> USE DEF AbstractStep
<1>1. ASSUME NEW r \in Request, Commit(r) PROVE AbstractStep
  <2>1. L!Post(batch[r]) BY <1>1, CommitPosts DEF PInv
  <2>2. batch[r] \in Batches BY <1>1 DEF Commit, IInv, InBatch
  <2> QED BY <2>1, <2>2 DEF L!Next
<1>2. ASSUME NEW r \in Request,
             Lookup(r) \/ Write(r) \/ Insert(r) \/ Timeout(r) \/ \E b \in Batches : Begin(r, b)
      PROVE  AbstractStep
  BY <1>2 DEF Timeout, Begin, Lookup, Write, Insert, Rollback
<1>3. ASSUME NEW w \in Owner, EnsureWallet(w) PROVE AbstractStep
  BY <1>3 DEF EnsureWallet, L!Next, L!Open
<1>4. ASSUME NEW w \in Owner, Delete(w) PROVE AbstractStep
  <2>1. CASE DeleteWrite(w)
    <3>1. PICK step \in {"deleteWallet", "deleteUserTx"} : <<w, step>> \in deleting
      BY <2>1 DEF DeleteWrite
    <3>2. wallet' = [wallet EXCEPT ![w].status = "deleted"] /\ ledger' = ledger
      BY <2>1 DEF DeleteWrite
    <3>3. wallet[w].status # "none" BY <3>1 DEF PInv, DeletingExists
    <3>4. CASE wallet[w].status = "live" BY <3>2, <3>4 DEF L!Next, L!Delete
    <3>5. CASE wallet[w].status = "deleted"
      <4>1. wallet[w] \in [status : L!WalletStatus, available : Int] BY DEF IInv, TypeOK
      <4>2. [wallet[w] EXCEPT !.status = "deleted"] = wallet[w] BY <3>5, <4>1
      <4>3. wallet' = wallet BY <3>2, <4>2 DEF IInv, TypeOK
      <4> QED BY <3>2, <4>3
    <3> QED BY <3>3, <3>4, <3>5 DEF IInv, TypeOK, L!WalletStatus
  <2>2. CASE ~DeleteWrite(w) BY <1>4, <2>2 DEF Delete, DeleteCheck, DeleteRecheck
  <2> QED BY <2>1, <2>2
<1>5. CASE UNCHANGED vars BY <1>5 DEF vars
<1> QED BY <1>1, <1>2, <1>3, <1>4, <1>5 DEF Next, Step

(* The transactions of applyWalletCredit and applyWalletDebit implement the *)
(* service that posts one whole batch after the other, in their order of    *)
(* commit: PostsAtomically is the specification of module Ledger.           *)
THEOREM TransactionsAreAtomic == Spec => PostsAtomically
<1>1. Init => L!Init BY DEF Init, L!Init
<1>2. IInv /\ PInv /\ [Next]_vars => [L!Next]_<<wallet, ledger>>
  BY StepIsAbstract DEF AbstractStep
<1> QED BY <1>1, <1>2, InitPInv, NextPInv, WalletInvariant, PTL DEF Spec, PostsAtomically, L!Spec
-----------------------------------------------------------------------------
(* The workflow engine.  The update of a transition only tests the status   *)
(* it read, so the argument needs that what it is about to write was legal  *)
(* from that status (CallsAreLegal).                                        *)

(* A caller in the middle of a transition, and one in the middle of another *)
(* read-then-write. *)
LEMMA CallFields ==
    ASSUME EngineTypeOK, NEW c \in Caller
    PROVE  /\ call[c].pc = "move" => /\ call[c].o \in Order
                                     /\ call[c].from \in Status
                                     /\ call[c].to \in Status
                                     /\ call[c].seen \in Seq(Event)
           /\ call[c].pc \in {"reactivate", "note"} => /\ call[c].o \in Order
                                                      /\ call[c].seen \in Seq(Event)
           /\ call[c].pc = "note" => call[c].event \in {Note, Rejection}
  BY DEF EngineTypeOK, Call

(* An answer keeps the type of the calls. *)
LEMMA AnswerType ==
    ASSUME EngineTypeOK, NEW c \in Caller, NEW a \in {"done", "failed"}, Answer(c, a)
    PROVE  /\ call' \in [Caller -> Call]
           /\ \A d \in Caller : call'[d].pc = "move" => call'[d] = call[d]
<1>1. [pc |-> a] \in Call BY DEF Call
<1> QED BY <1>1 DEF EngineTypeOK, Answer

(* What a transition, a reactivation, a note or a rejection writes is an    *)
(* event. *)
LEMMA Events ==
    /\ \A s, t \in Status : Moved(s, t) \in Event
    /\ Reactivated \in Event
    /\ Note \in Event
    /\ Rejection \in Event
  BY DEF Event

LEMMA EngineStarts == EngineInit => EngineInv
<1> SUFFICES ASSUME EngineInit, InitialStatus \subseteq Status PROVE EngineInv
  BY OrderWorkflowAssumption
<1>1. <<>> \in Seq(Event) OBVIOUS
<1>2. EngineTypeOK BY <1>1 DEF EngineInit, EngineTypeOK, Idle, Call
<1> QED BY <1>2 DEF EngineInit, EngineInv, CallsAreLegal, NoFrozenTerminal, Idle

LEMMA TransitionKeeps ==
    ASSUME EngineInv, NEW c \in Caller, NEW o \in Order, NEW from \in Status, NEW to \in Status,
           TransitionRead(c, o, from, to)
    PROVE  EngineInv'
<1>1. CASE Movable(o, from, to)
  <2> DEFINE k == [pc |-> "move", o |-> o, from |-> from, to |-> to, seen |-> order[o].events]
  <2>1. call' = [call EXCEPT ![c] = k] /\ order' = order BY <1>1 DEF TransitionRead
  <2>2. k \in Call BY DEF EngineInv, EngineTypeOK, Call
  <2>3. Legal(from, to) BY <1>1 DEF Movable
  <2> QED BY <2>1, <2>2, <2>3 DEF EngineInv, EngineTypeOK, CallsAreLegal, NoFrozenTerminal
<1>2. CASE ~Movable(o, from, to)
  <2>1. Answer(c, "failed") /\ order' = order BY <1>2 DEF TransitionRead
  <2> QED BY <2>1, AnswerType DEF EngineInv, EngineTypeOK, CallsAreLegal, NoFrozenTerminal
<1> QED BY <1>1, <1>2

LEMMA TransitionWriteKeeps ==
    ASSUME EngineInv, NEW c \in Caller, TransitionWrite(c) PROVE EngineInv'
<1> DEFINE k == call[c]
<1>1. /\ k.pc = "move" /\ k.o \in Order /\ k.from \in Status /\ k.to \in Status
      /\ Append(k.seen, Moved(k.from, k.to)) \in Seq(Event)
  BY CallFields, Events DEF TransitionWrite, EngineInv
<1>2. CASE StillAt(k.o, k.from)
  <2>1. /\ order' = [order EXCEPT ![k.o] =
               [@ EXCEPT !.wf = k.to, !.events = Append(k.seen, Moved(k.from, k.to))]]
        /\ Answer(c, "done") /\ ~order[k.o].frozen
    BY <1>2 DEF TransitionWrite, StillAt
  <2>2. EngineTypeOK' BY <1>1, <2>1, AnswerType DEF EngineInv, EngineTypeOK
  <2>3. CallsAreLegal' BY <2>1, AnswerType DEF EngineInv, CallsAreLegal
  <2>4. NoFrozenTerminal' BY <1>1, <2>1 DEF EngineInv, EngineTypeOK, NoFrozenTerminal
  <2> QED BY <2>2, <2>3, <2>4 DEF EngineInv
<1>3. CASE ~StillAt(k.o, k.from)
  <2>1. Answer(c, "failed") /\ order' = order BY <1>3 DEF TransitionWrite
  <2> QED BY <2>1, AnswerType DEF EngineInv, EngineTypeOK, CallsAreLegal, NoFrozenTerminal
<1> QED BY <1>2, <1>3

LEMMA FreezeKeeps ==
    ASSUME EngineInv, NEW os \in SUBSET Order, Freeze(os) PROVE EngineInv'
<1>1. EngineTypeOK' BY DEF EngineInv, EngineTypeOK, Freeze
<1>2. NoFrozenTerminal' BY DEF EngineInv, EngineTypeOK, Freeze, NoFrozenTerminal, Freezable
<1>3. CallsAreLegal' BY DEF EngineInv, Freeze, CallsAreLegal
<1> QED BY <1>1, <1>2, <1>3 DEF EngineInv

LEMMA ReactivateKeeps ==
    ASSUME EngineInv, NEW c \in Caller,
           ReactivateWrite(c) \/ \E o \in Order : ReactivateRead(c, o)
    PROVE  EngineInv'
<1>1. ASSUME NEW o \in Order, ReactivateRead(c, o) PROVE EngineInv'
  <2> DEFINE k == [pc |-> "reactivate", o |-> o, seen |-> order[o].events]
  <2>1. k \in Call BY DEF EngineInv, EngineTypeOK, Call
  <2>2. CASE call' = [call EXCEPT ![c] = k] /\ order' = order
    BY <2>1, <2>2 DEF EngineInv, EngineTypeOK, CallsAreLegal, NoFrozenTerminal
  <2>3. CASE Answer(c, "failed") /\ order' = order
    BY <2>3, AnswerType DEF EngineInv, EngineTypeOK, CallsAreLegal, NoFrozenTerminal
  <2> QED BY <1>1, <2>2, <2>3 DEF ReactivateRead
<1>2. ASSUME ReactivateWrite(c) PROVE EngineInv'
  <2>1. Append(call[c].seen, Reactivated) \in Seq(Event) /\ call[c].o \in Order
    BY <1>2, CallFields, Events DEF EngineInv, ReactivateWrite
  <2>2. EngineTypeOK' BY <1>2, <2>1, AnswerType DEF EngineInv, EngineTypeOK, ReactivateWrite
  <2>3. CallsAreLegal' BY <1>2, AnswerType DEF EngineInv, CallsAreLegal, ReactivateWrite
  <2>4. NoFrozenTerminal' BY <1>2, <2>1 DEF EngineInv, EngineTypeOK, NoFrozenTerminal, ReactivateWrite
  <2> QED BY <2>2, <2>3, <2>4 DEF EngineInv
<1> QED BY <1>1, <1>2

LEMMA NoteKeeps ==
    ASSUME EngineInv, NEW c \in Caller,
           NoteWrite(c) \/ \E o \in Order, event \in {Note, Rejection} : NoteRead(c, o, event)
    PROVE  EngineInv'
<1>1. ASSUME NEW o \in Order, NEW event \in {Note, Rejection}, NoteRead(c, o, event)
      PROVE  EngineInv'
  <2> DEFINE k == [pc |-> "note", o |-> o, seen |-> order[o].events, event |-> event]
  <2>1. k \in Call BY DEF EngineInv, EngineTypeOK, Call
  <2>2. CASE call' = [call EXCEPT ![c] = k] /\ order' = order
    BY <2>1, <2>2 DEF EngineInv, EngineTypeOK, CallsAreLegal, NoFrozenTerminal
  <2>3. CASE Answer(c, "failed") /\ order' = order
    BY <2>3, AnswerType DEF EngineInv, EngineTypeOK, CallsAreLegal, NoFrozenTerminal
  <2> QED BY <1>1, <2>2, <2>3 DEF NoteRead
<1>2. ASSUME NoteWrite(c) PROVE EngineInv'
  <2>1. Append(call[c].seen, call[c].event) \in Seq(Event) /\ call[c].o \in Order
    BY <1>2, CallFields, Events DEF EngineInv, NoteWrite
  <2>2. EngineTypeOK' BY <1>2, <2>1, AnswerType DEF EngineInv, EngineTypeOK, NoteWrite
  <2>3. CallsAreLegal' BY <1>2, AnswerType DEF EngineInv, CallsAreLegal, NoteWrite
  <2>4. NoFrozenTerminal' BY <1>2, <2>1 DEF EngineInv, EngineTypeOK, NoFrozenTerminal, NoteWrite
  <2> QED BY <2>2, <2>3, <2>4 DEF EngineInv
<1> QED BY <1>1, <1>2

(* The invariant is inductive. *)
LEMMA EngineSteps == EngineInv /\ [EngineNext]_engineVars => EngineInv'
<1> SUFFICES ASSUME EngineInv, [EngineNext]_engineVars PROVE EngineInv' OBVIOUS
<1>1. CASE UNCHANGED engineVars
  BY <1>1 DEF engineVars, EngineInv, EngineTypeOK, CallsAreLegal, NoFrozenTerminal
<1>2. CASE EngineNext
  BY <1>2, TransitionKeeps, TransitionWriteKeeps, FreezeKeeps, ReactivateKeeps, NoteKeeps DEF EngineNext
<1> QED BY <1>1, <1>2

THEOREM WorkflowInvariant == EngineSpec => []EngineInv
<1> QED BY EngineStarts, EngineSteps, PTL DEF EngineSpec

(* An order that has ended is not frozen: transitionOrderWorkflow updates   *)
(* only unfrozen orders, freezeOrders skips the terminal ones.              *)
THEOREM TerminalIsNotFrozen == EngineSpec => []NoFrozenTerminal
<1>1. EngineInv => NoFrozenTerminal BY DEF EngineInv
<1> QED BY <1>1, WorkflowInvariant, PTL

(* What a step may change of an order's status: only a transition's update  *)
(* does, and only of an order that is not frozen.                           *)
LEMMA EngineMoves ==
    ASSUME EngineInv, [EngineNext]_engineVars, NEW o \in Order, order'[o].wf # order[o].wf
    PROVE  ~order[o].frozen /\ Legal(order[o].wf, order'[o].wf)
<1>1. PICK c \in Caller : TransitionWrite(c)
  <2>1. CASE UNCHANGED engineVars BY <2>1 DEF engineVars
  <2>2. ASSUME NEW os \in SUBSET Order, Freeze(os) PROVE FALSE
    BY <2>2 DEF Freeze, EngineInv, EngineTypeOK
  <2>3. ASSUME NEW c \in Caller,
               NoteWrite(c) \/ ReactivateWrite(c)
               \/ \E p \in Order : \/ ReactivateRead(c, p)
                                   \/ \E event \in {Note, Rejection} : NoteRead(c, p, event)
        PROVE  FALSE
    <3>1. CASE NoteWrite(c) BY <3>1, CallFields DEF NoteWrite, EngineInv, EngineTypeOK
    <3>2. CASE ReactivateWrite(c) BY <3>2, CallFields DEF ReactivateWrite, EngineInv, EngineTypeOK
    <3> QED BY <2>3, <3>1, <3>2 DEF ReactivateRead, NoteRead
  <2>4. ASSUME NEW c \in Caller, NEW p \in Order, NEW s \in Status, NEW t \in Status,
               TransitionRead(c, p, s, t)
        PROVE  FALSE
    BY <2>4 DEF TransitionRead
  <2> QED BY <2>1, <2>2, <2>3, <2>4 DEF EngineNext
<1>2. call[c].pc = "move" /\ call[c].o \in Order /\ Legal(call[c].from, call[c].to)
  BY <1>1, CallFields DEF TransitionWrite, EngineInv, CallsAreLegal
<1>3. CASE StillAt(call[c].o, call[c].from)
  BY <1>1, <1>2, <1>3 DEF TransitionWrite, StillAt, EngineInv, EngineTypeOK
<1>4. CASE ~StillAt(call[c].o, call[c].from)
  BY <1>1, <1>4 DEF TransitionWrite
<1> QED BY <1>3, <1>4

(* assertTransition and the conditional update together: whatever callers   *)
(* overlap, an order takes only the moves of the ALLOWED table.             *)
THEOREM MovesAreAllowed == EngineSpec => OnlyAllowedMoves
<1> DEFINE A == \A o \in Order : order'[o].wf # order[o].wf => Legal(order[o].wf, order'[o].wf)
<1>1. EngineInv /\ [EngineNext]_engineVars => [A]_engineVars BY EngineMoves
<1> QED BY <1>1, WorkflowInvariant, PTL DEF EngineSpec, OnlyAllowedMoves

(* A frozen order keeps its status until it is reactivated: the update      *)
(* tests frozen again, after the read did.                                  *)
THEOREM FrozenIsStill == EngineSpec => FrozenOrdersStay
<1> DEFINE A == \A o \in Order : order[o].frozen => order'[o].wf = order[o].wf
<1>1. EngineInv /\ [EngineNext]_engineVars => [A]_engineVars BY EngineMoves
<1> QED BY <1>1, WorkflowInvariant, PTL DEF EngineSpec, FrozenOrdersStay
=============================================================================

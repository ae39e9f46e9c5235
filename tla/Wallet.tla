------------------------------- MODULE Wallet -------------------------------
(***************************************************************************)
(* applyWalletCredit and applyWalletDebit as concurrent requests run them: *)
(* each request executes its batch of mutations inside one interactive     *)
(* PostgreSQL transaction at the default READ COMMITTED level.  For every  *)
(* mutation the transaction looks the idempotency key up, updates the      *)
(* wallet row under a condition, and inserts the ledger row.               *)
(*                                                                         *)
(* An updated row and an inserted key stay locked until the transaction    *)
(* ends, and other transactions do not see them before; a reader is never  *)
(* blocked and sees what was last committed.                               *)
(***************************************************************************)
EXTENDS Integers, Sequences, FiniteSets, Functions

CONSTANTS Owner, Key, MaxBalance, Batches, InitialWallet, NoEntry,
          Request,      \* the requests that post a batch
          DeleteHandlers  \* the handlers an admin may call: deleteWallet, deleteUser

VARIABLES wallet, ledger,  \* the committed tables
          pc,       \* where the request is in its transaction
          batch,    \* the batch it posts
          pos,      \* the mutation it is at
          delta,    \* its uncommitted change of each balance
          rows,     \* the wallet rows it has locked
          wrote,    \* its uncommitted ledger rows
          deleting  \* deletions under way: <<owner, handler step>>

vars == <<wallet, ledger, pc, batch, pos, delta, rows, wrote, deleting>>
reqVars == <<pc, batch, pos, delta, rows, wrote>>

L == INSTANCE Ledger

Mutation == L!Mutation
ASSUME WalletAssumption ==
    /\ MaxBalance \in Nat
    /\ Batches \subseteq Seq(Mutation)
    /\ \A b \in Batches : b # <<>>
    /\ InitialWallet \in [Owner -> [status : L!WalletStatus, available : 0 .. MaxBalance]]
    /\ \A w \in Owner : InitialWallet[w].status # "live" => InitialWallet[w].available = 0
    /\ NoEntry \notin Mutation

InTransaction == {"lookup", "write", "insert", "commit"}
DeleteStep == {"deleteWallet", "deleteUser", "deleteUserTx"}

TypeOK ==
    /\ wallet \in [Owner -> [status : L!WalletStatus, available : Int]]
    /\ ledger \in [Key -> Mutation \cup {NoEntry}]
    /\ pc \in [Request -> InTransaction \cup {"idle", "done", "failed"}]
    /\ batch \in [Request -> Batches \cup {<<>>}]
    /\ pos \in [Request -> Nat]
    /\ delta \in [Request -> [Owner -> Int]]
    /\ rows \in [Request -> SUBSET Owner]
    /\ wrote \in [Request -> SUBSET Mutation]
    /\ deleting \subseteq Owner \X DeleteStep

Init ==
    /\ wallet = InitialWallet
    /\ ledger = [k \in Key |-> NoEntry]
    /\ pc = [r \in Request |-> "idle"]
    /\ batch = [r \in Request |-> <<>>]
    /\ pos = [r \in Request |-> 1]
    /\ delta = [r \in Request |-> [w \in Owner |-> 0]]
    /\ rows = [r \in Request |-> {}]
    /\ wrote = [r \in Request |-> {}]
    /\ deleting = {}
-----------------------------------------------------------------------------
Current(r) == batch[r][pos[r]]

(* The row as the transaction of r sees it. *)
Row(r, w) == [status |-> IF w \in rows[r] THEN "live" ELSE wallet[w].status,
              available |-> wallet[w].available + delta[r][w]]

RowFreeNoLock(r, w) == TRUE
RowFree(r, w) == \A q \in Request \ {r} : w \notin rows[q]
KeyFree(r, k) == \A q \in Request \ {r} : \A m \in wrote[q] : m.key # k

FoundOwnOnly(r, k) == {m \in wrote[r] : m.key = k}
(* What findUnique returns for a key: an own row, or a committed one. *)
Found(r, k) == {m \in wrote[r] : m.key = k}
               \cup (IF ledger[k] = NoEntry THEN {} ELSE {ledger[k]})

Advance(r) == /\ pos' = [pos EXCEPT ![r] = pos[r] + 1]
              /\ pc' = [pc EXCEPT ![r] = IF pos[r] = Len(batch[r])
                                         THEN "commit" ELSE "lookup"]

RollbackKeepsUpdates(r) ==
    /\ pc' = [pc EXCEPT ![r] = "failed"]
    /\ wallet' = [w \in Owner |-> IF w \in rows[r] THEN Row(r, w) ELSE wallet[w]]
    /\ ledger' = [k \in Key |-> IF \E m \in wrote[r] : m.key = k
                                THEN CHOOSE m \in wrote[r] : m.key = k
                                ELSE ledger[k]]
    /\ delta' = [delta EXCEPT ![r] = [w \in Owner |-> 0]]
    /\ rows' = [rows EXCEPT ![r] = {}]
    /\ wrote' = [wrote EXCEPT ![r] = {}]
    /\ UNCHANGED <<batch, pos, deleting>>

(* A thrown error rolls everything back and releases the locks. *)
Rollback(r) == /\ pc' = [pc EXCEPT ![r] = "failed"]
               /\ delta' = [delta EXCEPT ![r] = [w \in Owner |-> 0]]
               /\ rows' = [rows EXCEPT ![r] = {}]
               /\ wrote' = [wrote EXCEPT ![r] = {}]
               /\ UNCHANGED <<wallet, ledger, batch, pos, deleting>>

Begin(r, b) == /\ pc[r] = "idle"
               /\ pc' = [pc EXCEPT ![r] = "lookup"]
               /\ batch' = [batch EXCEPT ![r] = b]
               /\ UNCHANGED <<wallet, ledger, pos, delta, rows, wrote, deleting>>

(* The input checks and the idempotency lookup. *)
Lookup(r) ==
    /\ pc[r] = "lookup"
    /\ LET m == Current(r)
           found == Found(r, m.key)
       IN  IF ~L!ValidInput(m) \/ \E e \in found : ~L!SameOperation(e, m)
           THEN Rollback(r)
           ELSE /\ IF found # {}
                   THEN Advance(r)
                   ELSE pc' = [pc EXCEPT ![r] = "write"] /\ UNCHANGED pos
                /\ UNCHANGED <<wallet, ledger, batch, delta, rows, wrote, deleting>>

(* The conditional UPDATE: it waits for the row, then tests its newest      *)
(* version; a credit has upserted the row first.                            *)
Write(r) ==
    /\ pc[r] = "write"
    /\ LET m == Current(r)
       IN  /\ RowFree(r, m.owner)
           /\ IF L!MayApply(Row(r, m.owner), m)
              THEN /\ rows' = [rows EXCEPT ![r] = @ \cup {m.owner}]
                   /\ delta' = [delta EXCEPT ![r][m.owner] = @ + L!Signed(m)]
                   /\ pc' = [pc EXCEPT ![r] = "insert"]
                   /\ UNCHANGED <<wallet, ledger, batch, pos, wrote, deleting>>
              ELSE Rollback(r)

InsertNoUniqueIndex(r) ==
    /\ pc[r] = "insert"
    /\ wrote' = [wrote EXCEPT ![r] = @ \cup {Current(r)}]
    /\ Advance(r)
    /\ UNCHANGED <<wallet, ledger, batch, delta, rows, deleting>>

(* transaction.create under the unique index: it waits for another          *)
(* transaction's uncommitted row under that key.                            *)
Insert(r) ==
    /\ pc[r] = "insert"
    /\ LET m == Current(r)
       IN  /\ KeyFree(r, m.key)
           /\ IF Found(r, m.key) # {}
              THEN Rollback(r)
              ELSE /\ wrote' = [wrote EXCEPT ![r] = @ \cup {m}]
                   /\ Advance(r)
                   /\ UNCHANGED <<wallet, ledger, batch, delta, rows, deleting>>

Commit(r) ==
    /\ pc[r] = "commit"
    /\ wallet' = [w \in Owner |-> IF w \in rows[r] THEN Row(r, w) ELSE wallet[w]]
    /\ ledger' = [k \in Key |-> IF \E m \in wrote[r] : m.key = k
                                THEN CHOOSE m \in wrote[r] : m.key = k
                                ELSE ledger[k]]
    /\ pc' = [pc EXCEPT ![r] = "done"]
    /\ delta' = [delta EXCEPT ![r] = [w \in Owner |-> 0]]
    /\ rows' = [rows EXCEPT ![r] = {}]
    /\ wrote' = [wrote EXCEPT ![r] = {}]
    /\ UNCHANGED <<batch, pos, deleting>>

TimeoutNever(r) == pc[r] = "lookup" /\ Rollback(r)

(* The 15 s transaction timeout, the database's choice of a deadlock        *)
(* victim, a lost connection.                                               *)
Timeout(r) == pc[r] \in InTransaction /\ Rollback(r)

Step(r) == Lookup(r) \/ Write(r) \/ Insert(r) \/ Commit(r)

(* ensureWallet. *)
EnsureWallet(w) ==
    /\ wallet[w].status = "none"
    /\ \A r \in Request : w \notin rows[r]
    /\ wallet' = [wallet EXCEPT ![w].status = "live"]
    /\ UNCHANGED <<ledger, reqVars, deleting>>

(* deleteWallet and deleteUser read the balance and refuse a wallet with    *)
(* funds; deleteUser reads it again inside its transaction.  Both then      *)
(* update the row by its id.                                                *)
DeleteCheck(w, step) ==
    /\ wallet[w] = [status |-> "live", available |-> 0]
    /\ step \in DeleteHandlers
    /\ deleting' = deleting \cup {<<w, step>>}
    /\ UNCHANGED <<wallet, ledger, reqVars>>

DeleteRecheck(w) ==
    /\ <<w, "deleteUser">> \in deleting
    /\ deleting' = (deleting \ {<<w, "deleteUser">>})
                   \cup (IF wallet[w].available = 0 THEN {<<w, "deleteUserTx">>} ELSE {})
    /\ UNCHANGED <<wallet, ledger, reqVars>>

DeleteWrite(w) ==
    \E step \in {"deleteWallet", "deleteUserTx"} :
        /\ <<w, step>> \in deleting
        /\ \A r \in Request : w \notin rows[r]
        /\ deleting' = deleting \ {<<w, step>>}
        /\ wallet' = [wallet EXCEPT ![w].status = "deleted"]
        /\ UNCHANGED <<ledger, reqVars>>

Delete(w) == \/ \E step \in DeleteStep : DeleteCheck(w, step)
             \/ DeleteRecheck(w)
             \/ DeleteWrite(w)

Next == \/ \E r \in Request : \/ \E b \in Batches : Begin(r, b)
                              \/ Step(r)
                              \/ Timeout(r)
        \/ \E w \in Owner : EnsureWallet(w) \/ Delete(w)

Spec == Init /\ [][Next]_vars

(* A statement that can run does run; a transaction that waits for a lock   *)
(* is ended by the deadlock detector or its timeout at the latest.          *)
Waiting(r) == \/ pc[r] = "write" /\ ~RowFree(r, Current(r).owner)
              \/ pc[r] = "insert" /\ ~KeyFree(r, Current(r).key)
Fairness == \A r \in Request : /\ WF_vars(Step(r))
                               /\ WF_vars(Waiting(r) /\ Timeout(r))
LiveSpec == Spec /\ Fairness
-----------------------------------------------------------------------------
(* How a transaction stands at its commit.  Two transactions never hold one  *)
(* row, nor one key; an uncommitted ledger row is new; the balance a holder  *)
(* will commit is in range; and the mutations it has passed are posted.      *)
RowsExclusive == \A r, q \in Request : r # q => rows[r] \cap rows[q] = {}
KeysExclusive == \A r, q \in Request : \A m \in wrote[r], n \in wrote[q] :
                     m.key = n.key => r = q /\ m = n
WroteIsNew    == \A r \in Request : \A m \in wrote[r] : ledger[m.key] = NoEntry
DeltaInRange  == \A r \in Request : \A w \in Owner :
                     IF w \in rows[r]
                     THEN wallet[w].available + delta[r][w] \in 0 .. MaxBalance
                     ELSE delta[r][w] = 0
Posted(r, m)  == \E e \in Found(r, m.key) : L!SameOperation(e, m)
InBatch(r)    == /\ pc[r] \in InTransaction \cup {"done"} =>
                       /\ batch[r] \in Batches
                       /\ \A i \in 1 .. Len(batch[r]) : i < pos[r] => Posted(r, batch[r][i])
                 /\ pc[r] \in {"lookup", "write", "insert"} => pos[r] \in 1 .. Len(batch[r])
                 /\ pc[r] \in {"commit", "done"} => pos[r] > Len(batch[r])
                 /\ pc[r] = "idle" => pos[r] = 1
                 /\ pc[r] = "write" => L!ValidInput(Current(r))
                 /\ pc[r] = "insert" => Current(r).owner \in rows[r]
                 /\ pc[r] \in {"idle", "done", "failed"} => wrote[r] = {} /\ rows[r] = {}

(* SECURITY.md: "Atomic wallet operations ... with ceiling checks", "Wallet *)
(* balance limits enforced atomically".  No committed balance is negative   *)
(* or above the ceiling, whatever credits and debits overlap.               *)
BalanceWithinBounds == \A w \in Owner : wallet[w].available \in 0 .. MaxBalance

(* The inductive invariant. *)
IInv == /\ TypeOK
        /\ RowsExclusive
        /\ KeysExclusive
        /\ WroteIsNew
        /\ DeltaInRange
        /\ \A r \in Request : InBatch(r)
        /\ BalanceWithinBounds

(* The keys under which the committed ledger has rows of a wallet.          *)
PostedTo(w) == {k \in Key : ledger[k] # NoEntry /\ ledger[k].owner = w}

(* Every committed balance is what the committed ledger rows of the wallet  *)
(* add up to: no money moves without a row, and no row moves it twice.      *)
LedgerExplainsBalance ==
    \A w \in Owner :
        wallet[w].available =
            InitialWallet[w].available
            + SumFunctionOnSet([k \in Key |-> L!Signed(ledger[k])], PostedTo(w))

(* A request that was answered with success finds every mutation it asked   *)
(* for in the ledger, of the type and the amount it asked for, posted by    *)
(* itself or, under the same key, by another.                               *)
RepliesMatchLedger ==
    \A r \in Request : pc[r] = "done" =>
        \A i \in DOMAIN batch[r] :
            LET m == batch[r][i]
            IN  /\ ledger[m.key] # NoEntry
                /\ ledger[m.key].type = m.type
                /\ ledger[m.key].amount = m.amount

(* The ledger is append-only: a row under a key is never replaced.          *)
LedgerIsAppendOnly ==
    [][\A k \in Key : ledger[k] # NoEntry => ledger'[k] = ledger[k]]_vars

(* What the transactions do together is what a service that posts whole     *)
(* batches one after the other could do.                                    *)
PostsAtomically == L!Spec

(* Every request is answered, also when two transactions wait for each      *)
(* other's rows.                                                            *)
EveryRequestEnds ==
    \A r \in Request : pc[r] # "idle" ~> pc[r] \in {"done", "failed"}

(* adminController.deleteUser says its transaction prevents "a race         *)
(* condition where a concurrent request credits the wallet between balance  *)
(* check and soft-delete": a deleted wallet then holds no money.            *)
DeletedWalletIsEmpty ==
    \A w \in Owner : wallet[w].status = "deleted" => wallet[w].available = 0
=============================================================================

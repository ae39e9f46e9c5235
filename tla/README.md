# A verification of the MOBO backend in TLA+

MOBO is a cashback platform. A buyer follows a deal to a marketplace, buys the
product, uploads proofs of the purchase, and is paid a reward when a mediator has
reviewed them; the brand that runs the campaign is debited, and the mediator keeps a
margin. The backend (`src/backend`, Express and Prisma over PostgreSQL) holds all of
the state. This directory models the parts of it where money and order state are at
stake as TLA+ modules, checks them with TLC on small instances, and proves the
properties that matter most with TLAPS for instances of any size.

## 1. The system

| Component | Code | State it keeps | Operations | What is hard about it |
|---|---|---|---|---|
| Wallet service | `services/walletService.ts` | `wallets`, `transactions` (the ledger) | `ensureWallet`, `applyWalletCredit`, `applyWalletDebit`, alone or inside a caller's transaction | concurrent transactions at READ COMMITTED, retries with the same key, batches that fail half way, lock cycles |
| Deletion of users and wallets | `controllers/adminController.ts` | the same, soft-deleted | `deleteUser`, `deleteWallet` | check and update are separate statements |
| Order workflow engine | `services/orderWorkflow.ts`, `services/orderEvents.ts` | `orders.workflow_status`, `frozen`, `events` | `transitionOrderWorkflow`, `freezeOrders`, `reactivateOrder` | read, check, conditional update; freezes in between; whole event arrays are rewritten |
| Proof submission and review | `controllers/ordersController.ts`, `controllers/opsController.ts` | proofs, `verification`, AI results, `affiliate_status`, `campaigns.used_slots` | `createOrder`, `submitClaim`, `autoVerifyStep`, `attemptBulkAutoVerify`, `verifyOrderClaim`, `verifyOrderRequirement`, `verifyAllSteps`, `rejectOrderProof`, `cancelOrderProofs`, `forceApproveOrder`, `cancelOrder` | every handler is several statements with no transaction around them; five ways to approve |
| Settlement | `controllers/opsController.ts` | `payment_status`, `settlement_mode`, wallets, ledger | `settleOrderPayment`, `unsettleOrderPayment` | the wallet transaction and the workflow transitions are separate; keys depend on events read earlier; caps |
| Payouts | `controllers/brandController.ts`, `controllers/opsController.ts` | `payouts`, wallets, ledger | `payoutAgency`, `payoutMediator`, `deletePayout` | repeated references, a fallback outside the transaction |
| Cooling-period settler | `services/coolingPeriodSettler.ts` | a claim in `updated_by` | a periodic run that settles what is due | a claim that the column refuses, keys without a cycle beside counted ones |
| Campaigns, assignments, deals | `controllers/opsController.ts`, `controllers/brandController.ts`, `controllers/productsController.ts` | slots, assignments, deals, locks | create, copy, assign slots, edit, change status, decline, publish a deal, withdraw it, delete, redirect a click | reads, checks and writes by id in statements of their own, slot counters taken in SQL |
| Invites and registration | `services/invites.ts`, `controllers/inviteController.ts`, `controllers/authController.ts` | use counts, users, refresh tokens, lockouts | create, consume, revoke, delete, register, log in | concurrent registrations with one invite, expiry on a second connection |
| Suspension, lineage, caches | `controllers/adminController.ts`, `services/lineage.ts`, `utils/authCache.ts` | user status, frozen orders, cached status | resolve a request's user, suspend, reactivate, cascade | two caches per process with lives of their own, evicted in one process only |
| Tickets | `controllers/ticketsController.ts` | `tickets` | create, update, escalate, delete | an open ticket blocks a settlement |
| AI verification | `services/aiService.ts`, `services/aiExtractionCache.ts` | circuit breaker, OCR workers | chat, verify a proof, extract an order | late answers to a breaker that has changed state, a bounded pool with timeouts |
| Realtime, notifications, push | `services/realtimeHub.ts`, `services/pushNotifications.ts` | subscribers | publish, subscribe | best effort; nothing depends on delivery |
| Exports, media, audit, frontends | `services/sheetsService.ts`, `routes/mediaRoutes.ts`, `services/audit.ts`, `src/apps`, `src/shared` | none that others rely on | | |

How they interact: a request handler reads rows through Prisma, decides, and writes
them in statements of its own. The workflow engine is called by every handler that
moves an order; the wallet service is called by settlements and payouts inside a
transaction of theirs; suspensions call `freezeOrders`; the automatic verification
runs at the end of the buyer's handlers. There is no queue and no lock outside the
database: two handlers on one order are two sequences of statements that interleave
at every `await`, on one Node process or on several.

## 2. What is modelled, and how it maps to the code

Common conventions. A handler in flight is a record `call[c]` (`req[r]`, `reg[c]`): its
program counter, what it works on, and the values it has read and will still use. A
read and each write are separate actions, because between them other requests run. A
request that is refused on what it first reads changes nothing and is no action; one
that is refused later is, since it ends the handler. Where a handler has a
transaction, its statements are one action if no lock or condition of another handler
can tell them apart, and separate actions otherwise. Crashes (`Crash`, `Die`,
`Restart`) end a handler after any of its statements: what its transaction had not
committed is gone, what it wrote is not.

**Ledger** is the abstract specification of the wallet service: a batch of credits and
debits is posted in one step or not at all. Its operators (`MayCredit`, `MayDebit`,
`SameOperation`, `ApplyMutation`, `ApplyBatch`) are the service's rules for one
mutation and are used by every module that moves money.

**Wallet** is the service as it runs: per mutation a lookup of the idempotency key
(`Lookup`), the conditional `UPDATE` of the wallet row (`Write`), the insert of the
ledger row under its unique index (`Insert`), then `Commit`. A row updated and a key
inserted by an open transaction are locked (`rows`, `wrote`); reads see committed
data and the own writes only, as READ COMMITTED gives them. `Write` tests the newest
committed version of the row, which is what PostgreSQL does after waiting for a lock.
`Timeout` stands for the transaction timeout and for the choice of a deadlock victim.
`DeleteCheck`, `DeleteRecheck` and `DeleteWrite` are the statements of `deleteUser` and
`deleteWallet`. The property `PostsAtomically` is the refinement: `Wallet` implements
`Ledger` with the committed tables as its state.

**OrderWorkflow** is the engine: the table `ALLOWED`, the read with its checks
(`TransitionRead`), the conditional update (`TransitionWrite`), `Freeze` over any set
of orders, `reactivateOrder`, and the handlers that only append an event
(`requestMissingProof`, `rejectOrderProof`, `cancelOrder`: `NoteRead`, `NoteWrite`), whose
event may be one of type REJECTED. Events are kept as a sequence of what the cap on
resubmissions and the audit trail look at; the cap counts transitions to REJECTED and
events of type REJECTED alike (`ReproofAllowed`).

What the module shows is true of the engine only. One writer of `workflowStatus` goes
round it: the transaction of `unsettleOrderPayment` (`opsController.ts:2163-2211`) writes
APPROVED by the id of the order, from a status that `ALLOWED` lets end only, and does not
look at `frozen` again. That write is part of `Settlement` (`UnsettleCommit`); neither
`OnlyAllowedMoves` nor `FrozenOrdersStay` speaks of it.

**SettlementBook** says what settling means: an order is paid from the wallets or not,
and the money moved is exactly its own. **Settlement** is the code: `SettleRead`,
`SettleGuard` (the conditional update in the transaction, and the count of the
mediator's settled orders), `SettleCommit` (wallet batch and payment status together,
by `ApplyBatch` of `Ledger`; the row stays locked from the guard on), the two workflow
transitions as read and write, `DisputeWrite`, `OverLimitWrite`, `ExternalWrite`, and
`UnsettleRead` / `UnsettleCommit`. The events of an order appear as `cycle`, the number
of SETTLED events a handler would count: it is read early and written back by every
statement that writes the event array, so a lost event is a lost count. The two
wallets' transactions are one step here; `Wallet` shows that this is sound.

**CoolingSettler** extends `Settlement` by the periodic run, which is one more of its
callers: `Fetch` reads the orders that are due, their deals and tickets; `Claim` is the
`updateMany` that marks an order in `updatedBy`; `AutoCommit`, `AutoOverLimit`,
`AutoFreeze` and `DisputeWrite` are the outcomes of `settleOne`. Its batch is its own
(`AutoBatch`): the keys have no cycle, and the margin is not clamped where a commission is
negative; `Die` is the death of the process; `Manual` are the handlers of `Settlement`.
`ActorAccepted` says whether the column takes the mark the settler writes: in the
schema it is a UUID and does not.

**ProofReview** runs from the tracked pre-order to the approval: `Create` (which upgrades
a pre-order and resets its affiliate status), `SubmitRead` / `SubmitWrite`, the
automatic verification (`AutoRead`, `AutoWrite`, `Refetch`,
`FinalizeWrite`), the reviewer's handlers and the slot counter. A proof is a member
of a set, the AI's verdict one of four classes (no answer, too low, enough for
`attemptBulkAutoVerify`, enough for `autoVerifyStep`); the state `sure` holds the
proofs whose stored verdict is enough for the bulk verification. The settlement is
one step that takes the order out of the module. Settlements that end otherwise (cap,
dispute) are in `Settlement` only. `CancelledIsFinal` speaks of the workflow status REJECTED
of a cancellation, not of what is written about the order beside it.

**Payouts** has `payoutAgency` with its fallback `recordManualPayoutLedger` (two upserts
outside the transaction), `payoutMediator` and `deletePayout`; `Refund` is the credit
of a reversal and gives a brand its funds back between two calls. The fallback is taken
when the brand has too little and also when a wallet is missing, the agency's at the
credit included (`NoWallet`, after `DeleteWallet`).

**Access** follows a request from its token to `granted` or `refused`. `Start` looks in
the auth cache of the process; on a miss `ReadUser`, then for each user above it the
lineage cache (`Check`) or the database (`Query`, `Store`). `Open`, `WriteStatus` and `Evict` are the handlers that change a status (admin, agency and
mediator) and clean the caches of their own process only, and each cleans only what
its code cleans. `Restart` empties the caches of a process. `Tick` is the clock: an
entry carries the ticks it has left. `MaxRun` is a bound on the environment, the ticks a
request may take to resolve. An upstream user is not deleted here, so that the code of
an agency is always found.

**Registration** is `register`, `registerOps` and `registerBrand`: one transaction that
reads the invite, inserts the user, reads the invite again in `consumeInvite` and
updates it on conditions (`Open`, `Create`, `Consume`, `Write`, `Commit`; `Create` and
`Write` wait for the row another transaction holds). `MarkExpired` is the marking of an
expired invite on a connection of its own, which the rolled-back transaction does not
undo. `AdminRead` / `AdminWrite` are `revokeInvite` and `adminDeleteInvite`. A person
stands for a mobile number and a user name.

**AiService** is one process: `breaker` with its three states, and the pool of OCR
workers. `Chat` reports to the breaker and does not ask it; `Verify` asks it, tries
Gemini, and falls back to OCR in up to `Passes` passes; `Extract` asks for the fields
and then reads variants of the picture. An answer without a text counts as a success of
a chat and as a failure of a verification or extraction (`Answered`).
`Acquire`, `Wait`, `CreateWorker`, `Recognize`, `Text`,
`Discard` and `Refill` are the ways of a worker. What Gemini does is a choice of the
model that changes now and then (`GeminiChanges`).

**Campaigns** is one campaign, the deals on it and its orders. Its requests are
`assignSlots`, `updateCampaign`, `updateCampaignStatus`, `declineOffer`,
`deleteCampaign`, `publishDeal`, `deleteDeal`, `trackRedirect`, and the part of
`createOrder` and `cancelOrder` that touches slots; `createCampaign` and `copyCampaign`
are its initial states, and the cascades of a suspension are `SuspendMediator` and
`SuspendBrand`. Only `assignSlots` writes on a condition, the `updatedAt` it has read:
`current` holds the requests for which it would still match. `claimSlot` and the
insert of an order are one step, `OrderCommit`, since they are one transaction and the
claim holds the row. One request grants one mediator, or changes one field.

`PROJECT.json` maps every definition to the lines it models.

## 3. What TLC checks

| Run | Instance | States | What it shows |
|---|---|---|---|
| `wallet` | 3 requests, 4 batches, 2 wallets, 4 keys, ceiling 3, both deletions | 305,476 | the inductive invariant, balances in `0 .. MaxBalance`, balances equal the sum of ledger rows, success means posted, append-only ledger, refinement of `Ledger`, every request is answered |
| `order_workflow` | 3 callers, 2 orders, from REJECTED, UNDER_REVIEW, REWARD_PENDING, cap 1 | 73,386 | the engine makes legal moves only and moves no frozen order; no frozen order has ended |
| `settlement` | handlers one at a time, 2 orders, limit 1, a brand that can pay exactly both | 16,128 | refinement of `SettlementBook`; workflow and payment status agree; what is paid from the wallets is covered by a debit that was not refunded |
| `settlement_overlap` | 2 overlapping handlers, 1 order, 2 payouts, crashes, freezes, tickets | 3,300,268 | money is conserved, each cycle balanced |
| `proof_review` | handlers one at a time, a Rating deal, four verdicts, admin forces, 1 rejection | 3,649 | approved means the whole trail is there, review means there is something to review |
| `proof_review_overlap` | 2 overlapping handlers, crashes, no reset and no admin force | 1,389,556 | approved means all proofs are there; a cancelled order keeps its workflow status |
| `payouts` | 2 overlapping calls, 2 references, 2 amounts, 2 payout rows, refunds, crashes, the deletion of the agency's wallet | 4,087,369 | balances follow the ledger, paid means debited and kept, a reference pays once, what the brand is debited reaches the agency |
| `access` | a buyer under a mediator under an agency, 2 processes, 1 request, 1 handler, changes of status of mediator and buyer, lives of 2 ticks | 980,222 | nobody acts on a standing that ended longer ago than both lives and two resolutions; who is active again gets in again |
| `registration` | 2 registrations, 2 people, an invite for one use and one for two, 1 administrator, expiry, a suspended upstream | 153,148 | one account each, one use admits one, a use is a member, closed is closed, every registration ends |
| `ai` | 2 requests, 3 workers of which 2 may be counted, threshold 2, 2 probes, 2 passes | 1,042,392 | workers are exclusive, the circuit closes after two successes in a row only, and closes when Gemini is back |
| `campaigns` | 2 requests, 2 orders, 1 mediator, capacities 0 to 2, two prices, crashes, suspensions; changes of terms run alone | 936,643 | slots do not leak and are not oversold at the claim, allocations are kept, locked terms stay, a deleted campaign takes no order |
| `cooling_settler` (violation) | the settler and one manual handler, 1 order | 3,360 | an order that is due is not settled: every claim is refused |

*Bounds.* The races here are between two statements of one handler and one other
handler, so two callers suffice; the wallet has a third request so that one can wait
for another that is itself a retry, and the workflow a third caller because its
callers make one call each. Amounts are 1 to 3 with a ceiling or a shortage that both
refuses and admits each of them. `MaxCycle = 2` lets an order be settled, reversed,
settled again and reversed again, which is the first time a key of an earlier cycle
could be met; `MaxRejections = 1` lets an order pass through the whole review twice.
The orders of `Settlement` include one with a negative commission, where the reward is
nothing and the margin is the whole payout. In `Access`, lives of two ticks let an
entry be filled, age and be used once more, and `Horizon = 5` is one more than the bound
it is compared with. In `AiService`, a worker beyond `MaxWorkers` exists so that exceeding
the limit can be seen; `MaxRefills` bounds the replacements in creation. In `Campaigns`,
one mediator suffices for what the run checks; an instance with two mediators, capacity
2 and grants of 1 (8.2 million states) has been checked as well. Symmetry is declared
over callers, orders, prices and the like only where their definitions do not tell
them apart, never with a liveness property.

*Fairness.* `EveryRequestEnds` assumes that a statement that can run does run
(`WF_vars(Step(r))`: the process and the database are alive) and that a transaction
that waits for a lock is ended at the latest by its timeout of 15 seconds or by the
deadlock detector (`WF_vars(Waiting(r) /\ Timeout(r))`). It does not assume that a
transaction that could go on is not timed out. `EveryRegistrationEnds` assumes strong
fairness of the steps of a registration: a statement that waits for a row is queued,
and the database gives the row to the one that waited longest. `AccessReturns` assumes
that time passes and that a request that can go on does; time is strongly fair because
the bound on a request's run stops the clock meanwhile. `Recovers` assumes that timers
fire, that calls end, and that verifications keep arriving (strong fairness of
`\E r : Verify(r)`: chats occupy the model's few requests, not the program's).
`CooledOrdersSettle` assumes that the interval timer fires and that the settler's
statements run, and still fails. No other module states fairness: a buyer or reviewer
need never act.

*Deadlock.* It is checked for `Access`, `Registration` and `AiService`. The other
configurations say `CHECK_DEADLOCK FALSE`: the requests of `Wallet` and `OrderWorkflow` are
one-shot and may all be answered; a deleted campaign without orders accepts nothing
more; the others reach states in which every request is refused or a bound (`MaxCycle`,
`MaxPayouts`, `MaxRejections`) is used up. That transactions waiting for each other do
end is `EveryRequestEnds` and `EveryRegistrationEnds`.

## 4. What does not hold

*The violation run.* `cooling_settler`: the settler claims an order by writing the text
`system:cooling-settler` into `updatedBy`, which `schema.prisma:589` declares as a UUID.
The database refuses the statement, the run catches the error and goes on, and an
order that is due stays APPROVED for ever (`CooledOrdersSettle`). On a column that does
take the mark, the condition `updatedBy` not equal to it would in SQL leave out the rows
whose `updatedBy` is NULL too; `MCCoolingSettlerText.cfg` does not rest on that.

`MCSettlementCrash.cfg` lets the handlers of `settlement` die and deals be republished
(2,405,296 states): `PaidIsCovered` holds there as well, which is what its theorem says,
while the other properties of that run fail, as below.

*Scenarios.* Further claims of the documents and the comments are kept as
configurations that are not among the runs above: TLC refutes each property they
name (where there are several, remove the others to see its behaviour), and the
passing runs leave out exactly the step that causes it.

| Configuration | Property | Claim and behaviour |
|---|---|---|
| `MCWalletDelete.cfg` | `DeletedWalletIsEmpty` | "to prevent race" (`adminController.ts:490`): at READ COMMITTED and without a row lock the second look makes the window smaller and does not close it; a credit that commits after it is lost |
| `MCSettlementRetry.cfg` | `NoDoubleSpend` | money and `payment_status` are committed first, the workflow moves afterwards; after a crash in between the order is APPROVED and Paid, the only guard is the workflow status, and the SETTLED event just written makes the retry's keys new |
| `MCSettlementCap.cfg` | `CapRespected` | the count inside the transaction is not serialised with the settlement of another order: nothing both of them touch is locked before it |
| `MCSettlementStale.cfg` | `PaidIsCovered` | the cycle is read before the transaction; another handler settles and reverses in between, and the keys found are those of the reversed cycle |
| `MCSettlementRepublish.cfg` | `ReversalIsExact` | `publishDeal` changes the payout of a deal that was settled |
| `MCSettlementShort.cfg` | `MoneyIsConserved` | "settlement is conservation-safe" (`MONEY_FLOW.md:64`): a settlement refuses a payout below the reward, its reversal does not; after `publishDeal` has lowered the payout in between, the buyer is debited more than the brand is credited |
| `MCSettlementMargin.cfg` | `CreditsMatchDebit` | the mediator's user is deleted before the settlement, the margin is credited to nobody |
| `MCCoolingSettlerText.cfg` | `NoDoubleSpend` | with a column that takes the mark, the settler's keys without a cycle and the counted keys of a manual settlement both debit the brand |
| `MCOrderWorkflowTrail.cfg` | `TrailLeadsToStatus` | an event array read earlier replaces one with a newer transition |
| `MCProofReviewScenarios.cfg` | `ApprovedHasProofs` | the update that approves is conditional on UNDER_REVIEW, and `rejectOrderProof` clears the proofs before it moves the status |
| | `NoOverselling` | `cancelOrder` decrements `used_slots` for a pre-order too; the transition it then asks for is refused, after the decrement is committed |
| | `ReproofIsCapped` | rejected proofs return the order to ORDERED; the cap is looked at only when proofs are submitted from REJECTED |
| | `ForcedIsApproved` | a crash between the update and the transition of `forceApproveOrder`, then a retry that answers success |
| `MCPayoutsTwice.cfg` | `ReceiptIsFunded` | a retry between the two upserts of a payout recorded without funds |
| `MCRegistrationScenarios.cfg` | `NoOverConsumption` | "Invite over-consumption: Atomic `use_count` check in transaction" (`DATABASE_DOCUMENTATION.md:2561`): the check of an invite for several uses is atomic, the number it writes was computed from an earlier read, and a use is lost |
| | `DeletesOnlyUnused` | "Cannot delete an invite that has been used" (`inviteController.ts:166`): the check is made before the deletion, by a statement of its own |
| `MCAccessImmediate.cfg` | `CachedMayAct` | "Buyer loses access immediately when their mediator or agency is suspended" (`auth.ts:102`): the handler cleans the entry of the suspended user, not those of the users below it |
| `MCAiServiceScenarios.cfg` | `OneProbe` | "allow exactly one probe request" (`aiService.ts:49`): in HALF_OPEN every verification passes |
| | `WorkersAreCapped` | "Maximum total OCR workers … to prevent OOM" (`aiService.ts:250`): a worker that timed out is no longer counted and still runs when its replacement starts |
| | `OpensOnFailures` | "After consecutive Gemini failures" (`aiService.ts:30`): an answer without a text counts as a failure |
| `MCCampaignsOverlap.cfg` | `TermsStayLocked` | "lock campaign mutability after the first order is created" (`brandController.ts:830`): the order comes between the look and the update by id |
| | `DeletedHasNoOrders` | "Cannot delete a campaign with orders" (`opsController.ts:2472`): the same for a deletion |
| | `CapacityRespected` | a smaller capacity is written while slots are allocated or taken |
| | `SoldOutMeansSold` | "sold out for your network" (`ordersController.ts:966`): clicks and cancelled orders count as sales of a mediator |
| | `AllocationRespected` | "Deals have limited slots per mediator" (`SYSTEM_FLOW.md:149`): the sales are counted before the transaction of the order |
| | `DealsFollowStatus` | a deal is published while the campaign is paused, or two changes of status cross |

## 5. What TLAPS proves

All theorems are about the full specifications, for any sets of owners, keys,
requests, orders, users and callers and any bounds, from the assumptions named in the
modules (`WalletAssumption`, `SettlementAssumption` and so on: what kind of value a
constant is, and little more). Where a theorem needs more, its statement says so.

*`Wallet_proofs`.* The invariant `BalanceWithinBounds` is not inductive: what a commit
writes is the committed balance plus an uncommitted change. `IInv` adds why that sum
is in range: a row with an uncommitted change is held by one transaction only
(`RowsExclusive`), so the committed balance under it cannot move, and the conditional
update tested the sum (`DeltaInRange`). For the replies it adds that uncommitted rows
are new and exclusive (`WroteIsNew`, `KeysExclusive`) and that each mutation a
request has passed is in the ledger or among its own rows (`InBatch`). Each action has
a lemma, split along the conjuncts it disturbs. Proved: `WalletInvariant`,
`BalancesAreBounded`, `SuccessIsPosted`, `LedgerKeepsItsRows`. That a balance is the
sum of its rows (`BalancesAreExplained`) needs the same of what is not yet committed
(`Accounted`): the change a transaction holds of a wallet is the sum of its own rows of
that wallet, and of the row it is about to insert, and a commit moves both over at once.

`TransactionsAreAtomic` is the refinement, `PostsAtomically`: what the interleaved
transactions do to the committed tables, a service that posts one whole batch after the
other does. The order is that of the commits, and the difficulty is that a transaction
has looked its keys up and tested its balances earlier, before others committed.
`Follows` says that it might as well do so now: there is a sequence of parts, from
nothing to what the transaction holds, each of which comes from the one before by one
mutation of the batch applied to the committed tables as they are at present (`Turns`).
Another's step keeps this (`FollowsStays`), because the rows of the parts are locked, the
keys they insert are held, and a key that was found in the ledger stays there
(`OthersKeep`, from `IInv`). At the commit the parts, laid over the tables, are the states
of the batch's fold (`TurnIsApplied`), whose result is installed (`CommitPosts`).
`BatchInOrder` is what lets a batch be of any length: the library folds a sequence by a
recursive function on sets of indices, and an induction on these shows that it goes
through the batch in order. The theorem is what entitles `Settlement` and `Payouts` to post
a batch in one step.

The module extends `OrderWorkflow` too, whose definitions carry the prefix `Engine` for
that, and ends with its proofs. The update of a transition tests only the status and the
freeze, so that a move is legal rests on its having been legal when it was read
(`CallsAreLegal`, the part of `EngineInv` that carries the proof). Proved: `WorkflowInvariant`,
`MovesAreAllowed`, `FrozenIsStill`, `TerminalIsNotFrozen`.

*`Sums`.* The facts about sums that the money invariants rest on: a sum over a finite
set is an integer, moves with each of its summands, and is added to by a new element.
The library's sum is a recursive function on the subsets of its set, so that these are
inductions; each is made by looking at a smallest subset of which the claim would fail
(`SmallestSubset`), for which the library's theorem that the strict-subset order is well
founded suffices.

*`Settlement_proofs`.* A settlement posts a batch of at most three mutations by a fold
over it. `FoldOfThree` unfolds that fold once and for all (for batches up to that
length, so no induction is needed), and `ApplyBatch` is then three applications of
`ApplyMutation`, each of which adds one row or finds one. From there: the
credits of a cycle follow its debit, because the batch comes from one reading of the payout and rows are never
replaced (`CreditsAreTheDebit`, which assumes `MediatorsExist`: `MCSettlementMargin.cfg`
shows why). `SettlementTypes` holds without it. Overlap and crashes are included.

The second half of the module proves the refinement (`SettlingKeepsTheBook`) and the
agreement of the two statuses (`StatusesAgree`) under `Sequential`: handlers one at a
time, no crash, mediators that exist and deals that keep their payout, for any finite set
of orders and any limit. `MCSettlementCap.cfg`, `MCSettlementStale.cfg`,
`MCSettlementRetry.cfg`, `MCSettlementRepublish.cfg` and `MCSettlementMargin.cfg` each
lift one of these and show the book broken. The
invariant `QInv` says that what the handler in flight has read is still so (`Knows`),
that every order it is not moving is at rest (`Agrees`), and that the keys the next
settlement and the next reversal will take are free (`Fresh`): only then does a batch
that succeeds move the order's whole share (`BatchMoves`), for a key already in the
ledger would be passed over in silence. Each action then is a step of the book or a
stutter (`BookStep`).

`PaidStaysCovered` says that an order marked paid from the wallets has more debits than
refunds, for any retries after any crashes and any republished deals. A single debit would
not do: a reversal leaves it in the ledger. Its invariant `CInv` says of each order that
every debit is of a cycle the order has counted, and that its refunds, with one more if it
is paid, are at most its debits (`Counted`); and of the handler in flight that what it has
read is still so, a reversal from the wallets being of an order that is paid from them
(`Current`). That needs handlers one at a time (`~Overlap`): `MCSettlementStale.cfg` shows two
that overlap, the later of which settles with the keys of a cycle already reversed and
charges nobody.

The last part proves `SettlementConservesMoney` for overlapping and crashing handlers: a
batch whose credits and debits cancel leaves the sum of the balances alone, because
either all of its keys were in the ledger or none (`AllShared`, by `SumChanges`). It
assumes `MediatorsExist` and `PayoutsCoverRewards`, that no deal is republished below the
reward of its buyers. The second was found by the proof: without it the reversal's batch
does not cancel, as `MCSettlementShort.cfg` shows.

*`ProofReview_proofs`.* The invariant `CInv` says what a handler in flight may carry: none
of them means to move a cancelled order, for the table of the engine would allow it
(`CancelIsFinal`). With `NoneIsForced` (no admin force, and no handler that clears proofs)
`ApprovalsAreComplete` relates what a handler has read to the order as it is: whoever is
about to approve has seen all proofs, and they are still there (`ApprovalHasProofs`).
`ReviewTypes` needs no assumption. `ApprovalIsVerified` and `ReviewsHaveProofs` hold for
handlers one at a time (`OneAtATime`), which is what the run checks too: `Undisturbed`
says of the one handler in flight what it has read of its order, which is still so, and
of every other order what must hold between handlers.

The module ends with the proofs of *AI verification*, whose definitions carry the prefix
`Ai` where they would clash. `Circuit` keeps the breaker's count of successes equal to
those in a row, hence `ProbesCloseTheCircuit`; `Hands` says that the workers in the pool,
in the hands of the requests and those that timed out while recognising are pairwise
disjoint, for any number of each, hence `WorkersServeOne`; `AiTypes` is `AiTypeOK`.

*`Payouts_proofs`.* As for settlements, `FoldOfTwo` unfolds a batch. `PInv` adds to the
properties the order of things: the credit to an agency is recorded after its debit
(`DebitComesFirst`), also in the fallback whose two statements stand outside a
transaction, a handler that is between them has its debit recorded
(`DebitIsRecorded`), and one that is about to delete a payout holds an unpaid row
(`DeletesUnpaid`). Proved: `PayoutsInvariant`, `DebitsReachAgencies`,
`PaidPayoutsAreDebited`, `RefsPayOnce`, and, summing over the rows of a wallet,
`BalancesFollowLedger`.

*`Access_proofs`.* `IInv` says, of each place that can vouch for a user (a lineage entry, a
query under way, a request, an auth entry), how long ago that user may have become
inactive, by the life the entry has left and the age of the request. The lives add up
along the way from the lineage cache to the auth cache, hence the bound of both lives
and two resolutions. Proved: `AccessInvariant`, `StalenessIsBounded`.

*`Registration_proofs`.* `RowsAreHeld`: who waits to commit the row of an invite has
locked it, has tested it as it is, and nobody else holds it; `NumbersAreHeld` is the same
for the unique number. Proved: `RegistrationInvariant`, `AccountsAreUnique`,
`OneUseAdmitsOne`, `UsesAreReal`, `ClosedIsFinal`.

*`Campaigns_proofs`.* `Granted`: an allocation that would still pass its test on
`updatedAt` grants no less than the row holds; `Reserved`: a request that will insert an
order has its id to itself, so that slots and live orders go up together; `Termed`:
under `TermsAlone` a change of terms has found no order, and none comes. Proved:
`CampaignInvariant`, `SlotsAreNotLeaked`, `GrantsAreKept`, `DeletedIsClosed`, and
`LockedTermsStay` and `CapacityIsRespected` from `TermsAlone` (`MCCampaignsOverlap.cfg`
shows why). For the capacity, `Capacity` adds that nothing is allocated before the
campaign is locked (`Unallocated`), so that no change of terms can undercut an
allocation, and that an allocation that may still be written fits (`Fitting`), which is
a sum over all mediators.

*Model-checked only.* Liveness, which is outside the prover's logic: `EveryRequestEnds`,
`EveryRegistrationEnds`, `AccessReturns`, `Recovers`. Every safety property and every
action property of a passing run, and both refinements, are proved. `CoolingSettler` has
a run that is a violation, and no theorem.

## 6. What is not modelled

Formatting, validation schemas, logging, audit records, notifications and exports: no
state of the modelled parts depends on them. The realtime hub and push are best
effort, and a client that reconnects fetches its state again. The frontends, a large
part of the repository's lines, present what the backend holds; the backend checks
what they send and relies on nothing they keep. Routing, configuration, seeds and
tests have no protocol of their own.

Within the modelled parts: the cap of 500 events per order; the velocity limits and the
duplicate marketplace order of `createOrder`; the reviewer-name lock and the
duplicate-image check of `submitClaim`; authorisation, which decides who may call a
handler and not what it does; deletion of orders; frozen pre-orders and settled orders
in `Campaigns`; the failure of the transaction of a suspension cascade, which no call
repeats; the deletion of an upstream user in `Access`; login with its lockout, refresh
tokens and password reset; tickets beyond their being open. Recognised texts and the
scores of the AI are a choice of the model: what a picture says has no specification.
`aiExtractionCache` has no callers.

## 7. Plan

1. The event list with its cap, under `Settlement`'s cycle.
2. The submission that dies between its two transitions, with the liveness of
   `ProofReview`.
3. The transaction of the suspension cascade and its failure, with `Access`.
4. Sessions: refresh tokens, lockout; the escalation of tickets.

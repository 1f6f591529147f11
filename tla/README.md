# Verification of ObsidianExchange: how an order is paid out

ObsidianExchange sells crypto for roubles.  A customer pays an order, and the
exchange sends BTC, LTC or another coin to the customer's address.  These TLA+
modules model the parts of the program where a mistake costs money or a
customer's trust: an order from its creation to its payment or expiry, from the
paid order to the transfer on chain and back to the closed order, the roubles
owed for crypto sold to the exchange, and the notices the bot delivers.  They say
what may happen when processes crash, administrators and loops act on what they
read a moment ago, answers are lost, and people pay by hand beside the machine.

Paths below are relative to `src/`.

## 1. Inventory

The program is several processes over one database (SQLite, or PostgreSQL with
the same stores implemented twice) and a few files.

| component | state it keeps | operations | interacts through |
|---|---|---|---|
| payout intents (`relay/repositories/payout_store.py`, `deploy/sqlite/001_payout_core.sql`) | one row per order: state, amount, attempts, txid | create, claim_next, succeed, review, confirm, requeue, each one transaction | the table; the bot writes debts, the worker claims them |
| payout worker (`payment/payout_worker.py`) | nothing but the intent in hand | `run_once` in a polling loop | claims an intent, calls the signer, writes the outcome |
| payout signer (`relay/services/payout_signer.py`) and BTC/LTC wallet (`relay/wallet/btc_wallet.py`) | the sends file `<coin>-sends.json`: one row per idempotency key | `sign`, `preview_send`, `send`, `inspect_attempt` | a file read whole and written whole; the network |
| wallet command line (`relay/wallet/btc_cli.py`) | none | `transfer` | the same sends file, from another process |
| EVM wallet (`relay/wallet/evm_wallet.py`) | the journal `evm-sends.json` with signed transactions, the lock file `evm-send.lock` | `send`, `_reconcile` | processes that share file and account; public nodes |
| TRON, XRP wallets (`relay/wallet/`) | journals | send | by hand only |
| automatic engine (`bot/main_bot.py` `auto_check_payments`, `process_payout`) | the `payout_triggered` marker, a batch in memory | scan, guard, claim the marker, queue or tell the workers | orders, markers, intents |
| payout guard and circuit (`relay/services/`) | flags, totals of sent orders | verdicts | read by the engine |
| manual payouts (`worker_*`, `/force_payout`, relay `force_payout`) | a form in the chat | open, pay from one's own wallet, type the txid | `mark_sent` |
| administrator commands (`/payout`, `/payout_confirm`, `/payout_requeue`, `/discover`) | what the command read before its await | act on intent or order | `confirm_order_txid`, `requeue_order_absent`, `mark_sent` |
| payout discovery (`relay/core/payout_discovery.py`) | none; reads explorers | `judge`, `candidates_for` | evidence for the closing of orders |
| reconciliation (`relay/repositories/reconciliation_store.py`) | `payout_reconciliations`, outbox | `reconcile_order`, `reconcile_referral`, outbox claim/sent/retry | from succeeded intents to sent orders |
| payment transition (`relay/repositories/payment_transition_store.py`) | order and session status, outbox | `mark_paid` | webhooks, polling |
| order lifecycle (`order_lifecycle_store.py`, `order_workflow_store.py`, `order_creation_store.py`, the loops of `relay-fastapi/main.py`) | orders.status, markers, `order_lifecycle_work` | create, expire, cancel, reopen, reject, `mark_sent`; claim, complete, retry work | bot, relay, providers, Telegram |
| payment sessions (`payment_service.py`, `payment_session_store.py`) | session status and age | create, fail, poll | providers |
| receipts and disputes (`receipt_store.py`, `core/receipts.py`, `core/dispute_watch.py`) | receipts, their reviews | upload, review | a receipt holds its order against expiry |
| sell orders (`core/sell_payout.py`, `sell_order_store.py`, `sell_settlement_store.py`, `bot/sell_guard.py`) | status, reserved deposit, payout number and status; the settlement ledger | check, claim, pay, release, refresh, settle | buttons in the bot, sweep and callback in the relay, the Vertu rail |
| bot notification jobs (`bot_notification_store.py`, `deploy/postgres/proposals/058`-`063`) | jobs, attempts, authorizations, evidence, revocations | enqueue, claim, permit, file evidence, consume, park, reconcile, revoke | several dispatchers, a timer, Telegram |
| rate locks, promo codes, gifts, DCA, limit and swap orders | their tables | | bot |
| E4 owner actions (`relay/core/e4_*`, `repositories/e4_*`) | reservations, one-shot ledger | reserve, hand off, consume | owner's tools |

What makes them hard: the bot's handlers are tasks that interleave at every
await; the worker is another process that may die anywhere; the sends file is
shared by processes with a lock that only threads respect; a transfer can
neither be undone nor, after a crash, be known to have been made; the chain, the
customer and the staff all move on while a command waits.

What must be true of the core, whatever happens:

- the signer pays an order at most once; a key the journal does not show was
  never sent; a settled intent stays settled and names a transfer of its
  amount to its address;
- a debt, once recorded, never changes; two workers never hold the same order;
- the house owes, signs, closes and credits nothing before the payment was confirmed
  (a person may be early: the bot opens a pending order to be paid by hand);
- an order is closed with a transfer that pays it, credited at most once, and
  never reopened; a settled intent has its order closed in the end;
- every queued intent is picked up in the end.

Of the components around it:

- a payment is confirmed once, from money that is there, although webhooks, the
  poll and operators report it several times and late; a closed order stays
  closed; an abandoned one expires; nobody is told anything twice;
- one transaction is signed under a key of the EVM wallet, whoever retries it, and
  no process loses another's row;
- a sold order is paid against a deposit of its own, once, and the settlement
  ledger tells the truth of it;
- a bot message is handed to Telegram once at most, never to a recipient revoked
  before the permission, and no job waits for ever.

## 2. The modules

```
PayOnce                the abstract promise: one debt, one settlement, at most one payment
PayoutStore            the payout_intents table and its compare-and-set transitions
  SignerWallet         the sends file and the chain
    PayoutWorker       run_once, its crashes, the two commands; implements PayOnce
      WalletCli        the wallet command line beside it
      OrderSettlement  engine, people, administrators, reconciliation; implements PayoutWorker
EvmSigner              the EVM wallet's send() with lock, journal and nodes; implements PayOnce
OrderLifecycle         orders, sessions, confirmations, expiry and the relay's durable work
SellPayout             the roubles owed for a sold coin: deposit, button, rail, two readers
NoticeDelivery         the bot's notification jobs in their hardened delivery
X_proofs               theorems about PayoutWorker, WalletCli, OrderSettlement,
                       EvmSigner, OrderLifecycle, SellPayout and NoticeDelivery
MCX                    instances for TLC
```

OrderLifecycle ends where OrderSettlement begins (an order that is paid), so its
`MarkSent` is all it knows of the payout, and OrderSettlement's `MarkPaid` all it
knows of the payment.  SellPayout and NoticeDelivery share no table with the others.

**PayoutStore.**  Each operator is one transaction; its guard is the WHERE
clause.  An operator that is not enabled is a call that changed no row.  A
requeued row keeps its id, so the queue order is by `rowid`, not by age.
Operators named as mutants in their comment are never part of a specification;
they are the plausible mistakes each property is tried against.

**SignerWallet.**  `ledger` is the sends file: under a key there is no row, the
mark `Broadcasting`, the mark `Failed` (a row without txHash) or a txHash.
`chain` holds the transfers that reached the network.  A transfer is a record of
the order whose debt it was made for, who made it, which attempt and the amount;
the record stands for its txid.

**PayoutWorker.**  `pc` follows `run_once` and, inside it, `send`:
`claimed` (before the first look at the file), `checked` (preview taken),
`arming` (file loaded, mark not saved), `armed` (mark saved, nothing broadcast),
`recording` and `saving` (outcome known, file loaded, not saved), `done`,
`error`.  `snap` is the copy of the file a worker loaded and will save.  An
exception goes to `error` and from there to the review of the intent; a crash
leaves every table and file as it is.  `OneWriter` says that no two processes
are between a load and a save; the code guarantees this for one worker process
without the CLI (the unit in `payment/obsidian-payout-worker.service.example` is
a single one) and for nothing more, because `_LOCK` is a lock of threads.
`requeue` is what a `/payout_requeue` command has found before its await.

**OrderSettlement.**  `status`, `paidTx`, `credits`, `reconciled`, `triggered`
are rows; `older` stands for the order's `updated_at`, by which `judge` leaves out
transfers made before the order was paid; `batch`, `engine`, `command` and
`crediting` are what a task of the bot has in memory between two awaits, and are gone
after `BotRestart`.  `sending` are the forms people opened, also for a pending order.
`MarkSent` is guarded as the UPDATE of `mark_sent` is; the credit is booked in a
transaction of its own (`Credit`), while `Reconcile` does everything in one.
The verdicts of the guard and the circuit, the price checks of `process_payout`
and the limits of the scan are choices, so what is shown does not rest on them.

**WalletCli.**  The command line loads and saves the same sends file in a process
of its own, under a key no order has.

**EvmSigner.**  `pc` follows `send`: with the flock held from `inside` to
`broadcasting` and again in `closing`, and `reconciling` when the key has a signed
transaction.  `journal` has under a key no row, the claim `Signing`, or a row with
nonce and status; key and nonce stand for the signed transaction and its hash.
The nodes keep a `pool` of which one transaction per nonce is `mined`; they drop,
replace, refuse, answer "nonce too low" or not at all, and, since `_rpc` asks the
first public node that answers, may disagree about the pending nonce (`OneView`
is FALSE in the run, and no theorem assumes it).  A crash frees the flock, as the
operating system does, and leaves the journal.

**OrderLifecycle.**  `status`, `receipt`, `session`, `audit`, `outbox`, `marker`
and `work` are tables; `deal` is what the provider knows of an invoice, `due` and
`age` what the clock has made of orders and sessions (half an hour, two hours).
`pass` and `item` are the dispatcher's position in a pass, `polled` what the Vertu
poll has read before its await.  The relay is one event loop and a pass never
awaits, so its other handlers run between passes only (`Free`); the bot is
another process and runs any time.  A row left `sending` by a crash is never taken
again, as in the code.  A transaction's new rows are a set; `Queues` are the orders
they may get their ids in: that of the statements, and any among the cancellations
of one order, whose query has no ORDER BY.

**SellPayout.**  `order` has the four columns that decide; `job` is a button's
handler between its calls, `reader` the sweep's or the callback's, `rail` the
payouts that exist at Vertu (`ByRail` are the orders it can pay, the others are
paid by people; `SellForce` is the button that skips the check), `hand` and `volume`
count what people were told to pay and what was credited.  Each action is one call
of a store or of the rail: `sell_confirm`'s look at the order (`SellConfirm`), the
second look of `verify_sell_deposit` with what it finds on the chain (`Verify`, so
the reservation compares with a status read after the button's own check), the
reservation, the claim, `send_rub` up to the rail, the rail's answer,
`record_provider`, the mark, the credit; on the other side the listing, the second
reading of the reference, the answer, the status, the settlement.  The rail may have
paid or declined a payout by the time it answers; the answer may lack the number or
be lost, and the record may raise (`RecordFails`): the button takes the last two for
a refusal and gives the order back.  The sweep lists the first `Batch` unfinished
payouts (100 in the code) whose row was written in the last three days; `aged` are
those whose days are over.  `Unclaim` asks what the store asks, a status and no
number.  `reopened` is a history variable, in no guard: the orders put back, by a
person or by such a button, while a payout of theirs existed or was on its way.

**NoticeDelivery.**  Each action is one transaction of the SQL functions the store
calls, or the call of Telegram between two of them.  A job is claimed once in its
life, so its attempt and token are its own.  `LookUpAttempt` and `WriteAccepted`
are two steps of one function: it locks the attempt, not the job, and goes on with
the job's state it read before it waited.  `Revoke` and `Restore` are the operator's.

Abstractions, beyond the abstraction of data:

- the tolerance of `judge` is narrowed to equality of amounts, its confirmations
  and trusted senders to the transfers in `chain`, which are final;
- an order is paid what was agreed (`Quote`); orders without an agreed amount,
  which are settled at the market's price, are left out;
- people type the txid of a transfer they made: a wrong txid is outside of what
  the code can know (`mark_sent` trusts its caller);
- an order that is cancelled or expires never enters the payout path
  (OrderLifecycle has it);
- in OrderLifecycle an operator's `/payment/callback` is taken at its word, and a
  provider's webhook is authentic;
- in SellPayout the callback is one reader: two callbacks are handled one after the
  other;
- in NoticeDelivery a message Telegram has taken is delivered, and the fifteen
  minutes after which an attempt is stale may pass while its dispatcher still runs;
- BTC and LTC share the code modelled; a coin's file is one `ledger`;
- a damaged sends file, read as empty by `_load_sends`, is not modelled.

## 3. What TLC checks

| run | instance | shows |
|---|---|---|
| `worker_safety` | 2 orders to one address, 2 workers, 2 administrators, 2 amounts, at most 2 attempts before a requeue, one writer of the sends file | `SignerPaysOnce`, `AbsentNeverSent`, `SettledByItsDebt`, `SettledIsFinal`, `DebtIsImmutable`, the refinement `KeepsPromise` of PayOnce, and the inductive invariant `IInv` |
| `wallet_cli` | 2 orders, 1 worker, the command line, a person, no exclusion on the file, fair worker | what survives lost updates: `DebtInv`; and `QueuedIsClaimed` |
| `settlement` | 1 order, 1 worker, 2 engines, 2 administrators, 1 person, fair reconciliation | `SettlementInv`, `BooksBalance`, `NothingBeforePayment`, `OneDecision`, `SentIsFinal`, that it implements PayoutWorker (`KeepsPipeline`), and `SettledIsClosed` |
| `twin_orders` | 2 orders to one address with different amounts; the first may be paid by hand before its payment | `EvidencePays`, `ReconciledFaithfully` |
| `evm_signer` | 2 processes, 2 keys, nodes that disagree | `IInv`, `OneTransferPerKey`, `RowsAreNeverLost`, the refinement `KeepsPromise` of PayOnce, `LockIsReleased` |
| `lifecycle` | 1 order, 2 sessions, fair relay and time | `TypeOK`, `PaidIsProven`, `SaidOnce`, `OrderMovesForward`, `AbandonedExpires` |
| `sell_payout` | 2 orders (one for the rail, one for people), 1 deposit, 2 buttons, both readers, 2 payouts, 1 crash, lost answers and failed records | the inductive invariant `SellInv`, `LedgerIsTrue`, `PaidForADeposit`, `PaidStaysPaid` |
| `sell_sweep` | 1 order, 2 buttons, 3 payouts, the sweep alone, no crash, fair sweep; an order put back too early is not followed | `OneTransfer`, `OutcomeReachesOrder` |
| `notices` | 2 jobs of one recipient, 2 dispatchers, 3 changes by the operator, fair dispatchers and timer | `IInv`, `SubmittedOnce`, `SentIsTrue`, `QuarantineHolds`, `ClosedStaysClosed`, `NothingHangs` |

Three runs end in a violation, each of a sentence the repository says of itself:

| run | property | what happens |
|---|---|---|
| `wallet_cli_lost_update` | `AbsentNeverSent` | the CLI saves its old copy of the sends file over the worker's mark (`relay/wallet/btc_wallet.py:704`) |
| `double_payout` | `PaidOnce` | `process_payout` answers None for an intent it has just queued and the engine tells people to pay by hand (`bot/main_bot.py:9458`) |
| `sell_twice` | `OneTransfer` | one refusal is read twice, by sweep and callback or by two callbacks; the second reading gives back an order that is being paid again (`sell_order_store.py:74`) |

Bounds.  Two of each actor give every pair that can race; the code compares
orders only pairwise (address, amount, txid, deposit, queue position), so two
show what more of them could do to each other.

- PayoutWorker, OrderSettlement: `MaxAttempts = 2` lets an intent be claimed,
  reviewed, requeued, claimed and reviewed again, so an old attempt, an old command
  and a new attempt coexist; with the commands in flight an intent may be claimed a
  third time.  The single-order run has every actor at once; what two orders add,
  evidence that fits both, is `twin_orders`.  There (`OnlyFirstEarly`) only the first
  order is opened by hand before it is paid, and then the second waits for it and is
  left to the machine; otherwise the second is opened once the first is paid.  In
  `settlement` the one order may be opened early beside everything else.  In
  `wallet_cli` people pay the first order only (`FirstByHand`): the orders are alike
  but for that.
- EvmSigner: none but the two sets; nonces are bounded by the keys.
- OrderLifecycle: `MaxSessions = 2` is one session that a later one overtakes.
  Orders meet in the queue of work alone, where they are taken one by one.  Once an
  order has a receipt, or had one rejected, its second session is none of Vertu's
  (`OneDealOnceReviewed`); a receipt holds its order whatever the sessions do.
- SellPayout: `MaxPayouts` 2 or 3 is the payout a late answer speaks of, the one
  made since, and one more.  In `sell_payout` the orders compete for the deposit
  before any payout exists, and from then on the second, which people pay, rests
  (`ReadersOrSecond`): it has nothing to do with the rail.  One crash suffices to
  cut each step from the next; a second one would have to meet what the first left
  behind, which is a row like any other.  `Batch` is 1, and only one order of a run is
  paid by the rail, so that the first hundred hide the rest does not happen there; time
  passes (`aged`) in the runs of one order.  `sell_sweep` and `sell_twice` stop at an
  order put back too early (`NotReopened`): `OneTransfer` says nothing of it, and
  `OutcomeReachesOrder` only of orders that have not left `paying`, as one put back has.
- NoticeDelivery: `MaxChanges = 3` is revoke, restore, revoke.  Jobs of different
  recipients have only the dispatchers in common, hence one recipient.

Symmetry is used where no liveness is checked (`worker_safety`, `sell_payout`,
`sell_twice`).  `CHECK_DEADLOCK FALSE`: orders, attempts, sessions, payouts and jobs are
finitely many, so a system that has settled everything stops; EvmSigner never does,
and there deadlock is checked.

Fairness.

- Worker: weak, on each worker's steps; the unit is restarted on failure and its
  loop waits for nothing but the table.  Crashes stay possible for ever, and nobody
  has to use the command line.
- Reconciliation (`FairSettlement`): weak, for each order; the loop of
  `payout_reconciliation_task` runs every other second.  It assumes that a BTC rate
  is cached in the end (an order with a referrer raises without one) and that no
  more than twenty raising rows stand before an order.
- EvmSigner: weak, on a process inside `send`; every call of the network has a
  timeout.
- OrderLifecycle: weak, on the cleanup, on each part of the dispatch, and on time.
  Customers, staff and providers need not do anything, and the relay may keep dying.
- SellPayout: weak on a button that is pressed and on the sweep's own steps, strong
  on the sweep's coming round to each listed order (it goes through the whole list
  every half minute) and on the rail's answering a question that is asked again and
  again.  Nothing makes the rail decide, call back, or a person press.
- NoticeDelivery: weak on each dispatcher, whose supervisor restarts it, and on the
  reconciler for each job, which a timer starts every minute.  They may die at every
  step.

What the code does not keep, met while modelling and stated by no property:

- `/payout_requeue` acts on a journal read before its await, so the absence it
  proved may be that of an older attempt; `SignerPaysOnce` holds all the same,
  because `send` looks at the mark again.
- Two orders with one address and one amount can be closed on one transfer: the
  txids in use are not read again after the await.  `twin_orders` has different
  amounts for that reason.
- `/payout` closes the order of a settled intent itself, and the reconciliation
  then writes no row for it.
- In the EVM wallet a broadcast that fails leaves a signed row whose nonce the next
  key takes too; of the two only one can be mined, and "nonce too low" then reports
  the other as sent.  `OneTransferPerKey` says that nothing is paid twice, not that
  what is reported is mined.
- The Vertu poll logs and audits an order as marked paid whatever `mark_paid`
  answered.
- The mark `session_dead` is one per order: the death of a second session is told to
  nobody.  A provider's cancellation that never succeeds stays first in the queue of
  work and keeps back the notices behind it.
- `worker_send_start` lets an order through that is still `pending`
  (`bot/main_bot.py:5715`), though nothing offers a worker one: a person may pay it
  before the customer does.  `worker_enter_tx` does not close it before it is paid,
  and from then on `judge` leaves the early transfer out, so the house may pay it
  again.
- The outcome of a sell payout is lost to the sweep if the process dies after the
  final status is written and before the order is closed (`OutcomeReachesOrder` is
  checked without crashes); if the rail declines it in the answer that creates it
  (`relay/providers/vertu.py:329`), as that status is final at once; when nobody has
  written the order for three days; and while more than a hundred unfinished payouts
  come before it.
- An answer of the rail that is lost after the payout was made, or a
  `record_provider` that raises (`relay/core/sell_payout.py:362`, caught at
  `bot/main_bot.py:2948`), gives the order back as unpaid, and the next button pays
  it again.  So may a person who puts an order back while another button's payout is
  on its way: the store asks only for the status and a missing number
  (`sell_order_store.py:75`).  `OneTransfer` excepts these orders (`reopened`).
- A deposit check that began before an order was paid may reserve the order's first
  deposit afterwards, since it reserves under whatever status it reads
  (`bot/sell_guard.py:362`); `PaidStaysPaid` allows that and nothing else.
- The volume can be credited twice when the callback settles before the button has
  marked; an order released by hand after an unclear outcome can still not be paid by
  the rail.
- The statuses an administrator may reopen or reject from ask for no receipt, and
  `failed`, among those that can be reopened, is a status nothing gives an order.
- A notification whose uncertain outcome was filed and not parked stays `sending`:
  `NothingHangs` excepts it.  A second revocation of a recipient fails while a job
  of the first is still being sent, since a job has one quarantine row at most.

## 4. What is proved

TLAPS proves, for any sets of orders, keys, jobs, workers, processes and people and
any number of attempts and sessions:

| theorems | of |
|---|---|
| `ClaimIsExclusive`, `DebtsAreKept`, `DebtNeverChanges`, `SettlementIsRight`, `SettlementIsFinal` | PayoutWorker, however the file is shared |
| `LedgerIsKept`, `PaidAtMostOnce`, `AbsentIsUnsent` | PayoutWorker, assuming `OneWriter` |
| `PipelineKeepsPromise` | PayoutWorker implements PayOnce, assuming `OneWriter` |
| `CliKeepsDebts`, `CliKeepsSettlements` | WalletCli, with no exclusion on the file |
| `SettlementImplementsPipeline` | OrderSettlement implements PayoutWorker |
| `SettlementIsKept`, `BooksAlwaysBalance`, `EvidenceAlwaysPays`, `ReconciliationIsFaithful`, `PaymentComesFirst`, `DecidedByOne`, `SentStaysSent` | OrderSettlement |
| `SettlementPaysOnce`, `SettlementKeepsPromise` | `PaidAtMostOnce` and `PipelineKeepsPromise` carried over by the refinement, assuming `OneWriter` |
| `AlwaysIInv`, `TransfersAreUnique`, `JournalComesFirst`, `JournalIsTrue`, `NothingIsLost` | EvmSigner, whatever the nodes answer |
| `WalletKeepsPromise` | EvmSigner implements PayOnce |
| `PaymentsAreProven`, `OrdersMoveForward`, `ToldOnce`, `LifecycleTypes` | OrderLifecycle |
| `AlwaysSellInv`, `LedgerStaysTrue`, `MoneyForADeposit`, `PaidForGood` | SellPayout, whatever is lost and whoever dies |
| `PaidOnce` | SellPayout, assuming that the sweep alone reads outcomes, of the orders that were not put back while a payout of theirs existed or was on its way |
| `AlwaysIInv`, `NeverSentTwice`, `SentMeansDelivered`, `QuarantineIsKept`, `ClosingIsFinal` | NoticeDelivery |

Two of them are easily read for more than they say.  `SettledByItsDebt` speaks of the
address and the amount of the transfer a settled intent names, not of whether the
network took it: the library may return a txid for one it did not take.  And PayOnce
has no amounts: `PipelineKeepsPromise` says that an order is paid once,
`SettlementIsRight` with what.

The assumptions are those on the constants: `StoreAssumption`,
`WalletAssumption`, `WorkerAssumption`, `SettlementAssumption`, `EvmAssumption`,
`RowAssumption`, `LifecycleAssumption`, `SellAssumption`, `NoticeAssumption`; they say
that a placeholder is not a member of the set it stands outside of, that a table
holds finitely many orders, and that bounds are numbers.

The inductive invariants, each checked by TLC first:

- `ClaimInv`: types, a debt is recorded exactly with its intent, and a busy
  worker holds an order whose row is processing or settled, alone.  This is what
  makes a row in `processing` un-claimable and un-requeueable while somebody
  signs for it, and it needs nothing of the file.
- `DebtInv` adds that every txHash on file, in hand or in a stale copy of the
  file pays the order it is filed under, which is why a lost update can lose a
  payment but never attribute one wrongly.  It rests on the immutable amount.
- PayoutWorker's `IInv` adds, for one writer: from the mark to the record the key
  reads `Broadcasting` and before the broadcast nothing was sent for it; a copy of
  the file between load and save is the file; an absent or failed key was never
  sent.  `SignerPaysOnce` alone is not inductive: that a second attempt is
  refused is known only through the mark of the first.
- `SettlementInv` adds to `DebtInv` that debts are quotes, that what an
  administrator holds is a transfer on chain that pays, and the books.  The
  refinement needs it: a confirmation by `/payout_confirm` is a step of
  PayoutWorker only because the transfer in hand pays the recorded amount.  For
  `NothingBeforePayment` it says that of a pending order the machine and its
  administrators hold nothing, no batch, no command (`PaidFirst`; a person may hold
  the form): the engine acts on a batch it read
  before, so the order's status alone would not do.  For `OneDecision` it says that
  who decides has the marker (`DecidedOnce`).
- WalletCli: `CliInv` is `DebtInv` and that every txHash in the command line's copy
  of the file pays its key's debt.  That copy may be arbitrarily old; debts do not
  change, so it goes on paying.
- EvmSigner's `IInv`: who is between a load and a save holds the flock and has the
  file as it is (`LockProtects`), where a process is tells what the journal says of
  its key (`RowFollowsStep`), and what the nodes have is on file with its nonce
  (`JournalledBeforeSent`).  `OneTransferPerKey` follows from the last, since a
  journal has one nonce under a key; it is not inductive by itself, as it says
  nothing of the transaction a process has signed and not sent.  For the refinement
  of PayOnce it adds that from the broadcast on a process is alone with its key, so
  nobody else records an outcome for it (`ClosesAlone`).
- OrderLifecycle: `PaidIsProven` with the shape of the tables: sessions and deals
  run in parallel and only grow, a paid deal stays paid, and what the poll has read
  is a session of Vertu's.  `SaidOnce` rests on `WorkInv`: a notice in the work has
  its event marked for its order, so no second one is queued; a pending notice has
  not run; and what the dispatcher holds is `sending` and has not run until it says
  so, so none runs twice.
- SellPayout's `SellInv`: a reference in a row, in a button's or a reader's hand is
  that of a payout made for this order (`RefsAreReal`), an answer a reader carries is
  the rail's last word (`AnswersAreTrue`), while a button has a payout's number to
  record nobody else has it (`RecordedOnce`), and a button that is past the check has
  a deposit for its order or skipped it (`DepositFirst`).  `PaidOnce`
  needs `SweepInv` besides: at most one live payout per order, none while the order
  can be claimed (`OneEach`); a button that may yet pay is alone with its order
  (`HoldsAlone`); and while the sweep is at an order nobody gives it back
  (`SweepFollows`).
  Both are needed, the sweep alone and the exception.  With a callback beside the
  sweep it is false, as `sell_twice` shows; and of an order put back while a payout of
  it existed or was on its way the next button makes a second one.
- NoticeDelivery's `IInv`: a job has one dispatcher at most from its claim on, and
  what that one is about to do tells what the job has been through
  (`StepTells`): before `send` it was never submitted.  `SubmittedOnce` rests on it,
  because nothing in the row of a job says whether its message has left.

Only model-checked: the liveness properties (`QueuedIsClaimed`, `SettledIsClosed`,
`LockIsReleased`, `AbandonedExpires`, `OutcomeReachesOrder`, `NothingHangs`), which are
out of the prover's reach, as they need ENABLED and fairness.  Every other property of
the passing runs is a theorem.  The three violations are counterexamples of TLC's;
`SellPayout` and `WalletCli` say above which theorems stop where they begin.

## 5. Plan and limits

Next, if more is proved: what a notification job may at most do as an abstract
specification that NoticeDelivery implements, and that the status of an order in
OrderLifecycle and in OrderSettlement is one and the same machine.  If more is
modelled: referral payouts (reserve a balance, pay through the same intents, deduct
when reconciled) and the one-shot ledger of the owner's actions.

Not modelled, and why:

- **Payout guard and circuit**: their verdicts are free choices of OrderSettlement,
  which allows more than any cap does; the sums over a day behind them need more
  orders than a run can hold.
- **Referral payouts**: they share the transitions of the intents, which are
  modelled; their balances are a ledger of their own.
- **TRON and XRP wallets**: the payout worker never routes to them.
- **Vault, unlocking, balances, fees, amount checks** of the wallets: they refuse a
  payout before it begins, which the models allow at that point anyway.
- **Routing among payment providers and their protocols**: a session has an invoice
  or it has not, whichever provider of the chain gave it out.
- **Receipt review, disputes and `dispute_watch`**: a receipt matters here as what holds
  an order against expiry.
- **Producers, rendering and policy governance of the notification jobs**, and the
  older delivery loop, which is the one that runs until the hardened store is
  switched on (`PostgresB53HardenedBotNotificationStore` is off by default, its SQL
  and its timer are marked as proposals).
- **Rate locks, promo codes, gifts, swap, DCA and limit orders**: single conditional
  updates of small tables, or tables no modelled component reads.
- **E4 owner actions**: a protocol of its own that no payout reads.
- **Web API, lumi runtime, native wallet, admin panel, monitoring**: routing,
  rendering, or other programs.
- **Deployment and its activation ceremonies** (`deploy/postgres/b64_*`,
  `scripts/`): scripts that people run once, by far the largest part of the tree;
  they hold no state of an order.

# Rails: a TLA+ model of the payment paths

Rails turns stablecoins on Sui into local-currency payouts. This directory holds TLA+
specifications of its core, TLC configurations that check them on small instances, and
TLAPS proofs of what matters most for every instance. Paths below are relative to `src/`.

Contents: [The system](#the-system) - [Modules](#modules) - [Correspondence](#correspondence-with-the-code)
- [Runs](#runs) - [Bounds](#bounds) - [Fairness](#fairness) - [Proofs](#proofs) -
[Disagreements](#disagreements-found) - [Not modelled](#not-modelled) - [Plan](#plan)

## The system

A sender's order gets a Sui deposit address. The **deposit watcher** sees the coins and
forwards them into the **gateway contract** as an escrowed order; the **event indexer**
follows the contract's events. From there an order takes one of these ways:

* **Route A** (the default): the indexer settles the escrow to Rails' own aggregator wallet
  ("self-settle"); the **dispatcher** bridges the coins to Base over LiFi or Circle's CCTP,
  and either submits a settlement Gateway order on Base (mode `lp`), or pays out of a bank
  float and reloads that float by a Gateway order later (mode `treasury`).
* **LP network** (mode `lp_network`): a registered LP pays the merchant from a bank account
  and gets the USDC.
* **Route B provider payouts**: a lock order is matched to a provider and paid through a
  bank rail; the escrow is settled to the provider. At this commit nothing creates lock
  orders (see [Not modelled](#not-modelled)).
* **Tapp card**: a cardholder's on-chain spending cap is debited at a merchant's terminal;
  the money then takes Route A.

| Component | State | Operations | Hard behaviour |
|---|---|---|---|
| gateway contract (`contracts/gateway/sources/config.move`, `order.move`) | `Gateway` object, `Order` objects with their escrow | admin setters, `create_order`, `settle_order` (partial), `refund_order` | rounding, overflow, admin changes between two partial settlements |
| Tapp card contract (`tapp_card.move`) | `CardSpendingCap` | `create_cap`, `top_up`, `update_limits`, `set_revoked`, `destroy_and_reclaim`, `debit` | daily counter rolled over lazily, limits changed within a day |
| Route A bridge (`services/route_a_dispatcher.go`, `route_a_cctp.go`, `services/cctp`, `services/lifi`) | `route_a_orders` rows, failure counters, aggregator wallet | tick phases pending / bridging / uncertain, fallback to the other rail | two dispatchers, ambiguous submits, crash before the digest is written, late deliveries |
| Route A dispatch (`route_a_dispatcher.go`, `services/evm`, `services/settlement`) | rows, PaymentOrder, `route_a_events`, Gateway orders on Base | dispatch, poll, retry or refund | double payout, lost receipts, best-effort event counting, overlapping ticks |
| dispatcher loop | Redis lease, `no_active_orders` flag, burst deadline | cron tick, burst tick | lease shorter than a tick, Redis down |
| treasury and float reload (`route_a_treasury.go`) | payout reference, reload state | payout, poll, reload | timeouts taken for refusals, crash between transfer and write |
| LP network (`route_a_lp_network.go`, `controllers/lp/lp.go`) | LP accounts, ledger entries | match, claim, payout, deliver, release | balances under concurrent fills, delivery sent twice |
| Route B payouts (`services/order/execute.go`, `priority_queue.go`, `controllers/baas_webhook.go`, `tasks/tasks.go`) | lock orders, payout status, Redis queues | claim, transfer, webhook, reconcile, reassign | webhook against reconcile, reassign against settlement |
| deposit watcher (`services/sui_deposit_watcher.go`, `services/order/sui.go`) | receive addresses, PaymentOrders | detect, forward, reconcile, expire | overlapping passes, crash between submit and write |
| event indexer (`services/sui_event_indexer.go`) | PaymentOrders, `route_a_events` | created, settled, refunded and card events | a live-only subscription: events lost, late or twice |
| card tap (`controllers/cards`) | cards, nonces, PIN attempts, token on the chip | tap, step-up, token-ack, resync, relink, lock | equal requests at once, torn writes, lost answers |
| accounts, admin, sender API, quotes, live feed | users, tokens, config | requests | little concurrency of their own |

Components talk through the database (guarded updates: `UPDATE ... WHERE status IN (...)`),
through Redis, and by calls to chains and banks whose answers can be lost. The recurring
hazard is one shape: *claim in the database, act outside, record the result*, with crashes,
lost answers and a second worker in between. `PROJECT.json` lists each place.

What makes each component correct: the contracts neither create, lose nor strand coins and
obey the limits users set; a deposit that was detected gets to the aggregator wallet; the
bridge burns a deposit once and says `bridged` only of delivered coins; the dispatch pays a
merchant once and tells the truth about it, through the Gateway or from the float; the LP
network keeps its books in step with what moved; a purchase by card is charged once, and card
and server do not part unnoticed.

## Modules

| Module | What it is |
|---|---|
| `Vault` | abstract specification: an object that holds coins; deposits in, releases out, closing empties it for good |
| `GatewayOrder` | the gateway contract, all entry functions; implements `Vault` |
| `TappCard` | the spending cap, all entry functions; implements `Vault` |
| `Deposits` (`MCDeposits`) | receive address to aggregator wallet: watcher passes, escrow, indexer, reconciler, and the other writers of the same rows |
| `RouteAOrders` | what the dispatcher modules share: rows, workers with snapshots, guarded writes, the lease, crashes |
| `RouteABridge` | `pending` to `bridged` or `failed` on both rails, with deposits and self-settlement |
| `RouteADispatch` | `bridged` to `settled` or `refunded` through Gateway orders on Base, mode `lp` |
| `RouteATreasury` | mode `treasury`: payouts from the float, the float's reload, and the fallback to `RouteADispatch`, whose actions it takes over (`D == INSTANCE RouteADispatch`) on the same rows |
| `Ledger` | abstract specification: a balance that changes only with the entry that justifies it |
| `LpNetwork` | LP accounts, deposits, withdrawals and the dispatcher's fills, with the bank and the USDC wallet; implements `Ledger` |
| `CardTap` (`MCCardTap`) | one card at the terminals: nonces, debits, token rotation, PIN attempts, resync, locks |
| `GatewayOrderProofs`, `TappCardProofs`, `DepositsProofs`, `RouteABridgeProofs`, `RouteADispatchProofs`, `RouteATreasuryProofs`, `LpNetworkProofs`, `CardTapProofs` | the theorems about the eight |

How they fit: `Deposits` shows what `RouteABridge` takes for granted (a recorded self-settle has
a coin of its own in the aggregator wallet, `RecordsAreTrue`), and sees the dispatcher as two writes. `RouteABridge`
hands rows in `bridged` on and never leaves that status (`EndsStay`); `RouteADispatch` and
`RouteATreasury` start there (`Bridged`). `CardTap` takes the chain's answer to a debit as it
comes, `TappCard` says which answers it gives. Definitions marked *Mutant* change one definition
the way a plausible bug would; each shows that one property can fail.

## Correspondence with the code

**Contracts.** A Move entry function commits all its effects or aborts, so it is one action;
every `assert!`, overflow (`Fits`), division by zero and `Balance.split` beyond the balance
is a guard. `paid`, `received`, `released`, `today` and `top` are ghosts. The per-order rate,
recipient and message hash are data no property needs and are left out. In `TappCard` the
Clock is a day number; day 0 never occurs because the real clock is past it, which is what
the contract relies on when it creates a cap with `day_index = 0`.

**Dispatcher.** One worker is one process running `Tick`. A phase queries its rows and then
handles each from that result, so `Fetch` copies the row to `snap` and every later step of
the handler uses the snapshot where the code uses its `order` variable. (A phase fetches all
rows at once; handling of one row touches other rows only through the wallet balance, which
is read live, so fetching them one at a time loses no interleaving of a row.) A step is what
the code does between two points where another process, a crash or an external service can
interfere: a database write is one step, a chain call is one step with one action per
classification the code makes of its answer. `Cas` is ent's
`order.Update().Where(BridgeStatusIn(...))`: when the row has moved on, nothing is written and
`isStaleTransition` ends the handler quietly. A failed database write is a disjunct that
leaves the row.

| Code | Model |
|---|---|
| `acquireLease`, 90 s TTL, fails open | `AcquireLease`, `LeaseExpires`; `LeaseHolds` is TRUE when no tick outlasts its lease and Redis answers |
| `claimForBridging`, `revertBridgingClaim` | `Claim`, `RevertClaim` |
| `startBridge`, `startCCTPBridge` | `StartFails`, `AwaitDeposit`, `Claim`, `SubmitFails / SubmitAmbiguous / SubmitReturns`, `PersistDigest` |
| `advancePending`'s counter, fallback and give-up | `FailAttempt`, `GiveUp`, `Succeed` |
| `pollOneBridge`, `pollOneCCTP`, `advanceUncertain`, `recoverUncertainCCTP` | `PollNothing`, `PollNotFound`, `PollDone`, `PollFailed`, `WindowExpires` |
| `finishCCTPMint` | `Mint`, then `MarkBridged` or `MarkFails` |
| indexer's `handleRouteAIfApplicable` | `SelfSettle`, `RecordSelfSettle` |
| `createOrder`'s three outcomes (`evm/gateway.go:98-117`): not sent, sent without a usable receipt, id in the receipt | `CreateNotSubmitted`, `CreateAmbiguous`, `CreateReturns` |
| `dispatchLP` | `BeginDispatch` to `PersistGatewayId` |
| `TimeSampled`, `LogOnce`, attempts count | `BeginDispatch`, `Record`, `PollReturned` |
| `advanceDispatching` | `FetchDispatching`, `PollSettled`, `PollReturned`, `WriteOutcome` |

The code takes every error of sending `createOrder` for a transaction that is not on chain. A node
that took the transaction and whose answer is lost or late makes the same error, so
`CreateNotSubmitted` has both outcomes and the ghost `unheard` keeps the ids of the second. The
ghost `stale` marks an order whose row took the outcome of an id it no longer had, which the
status-only guard of `WriteOutcome` allows when ticks overlap.

The PaymentOrder has many writers: the indexer marks it settled on the self-settle and on the card
debit, before anything is bridged or paid, and `CancelOrder` and `RefundOrder` write it too. No
handler of the dispatcher reads its status. In `RouteADispatch`, `RouteATreasury` and `LpNetwork` the
variable `told` is therefore not its status but what the handlers of the module wrote to it last, and
the properties that name `told` say that this write was true; what the indexer writes is in `Deposits`
(`OrderSettled`) and `CardTap` (`CardDebited`).

**LP network.** `Claim` and the release are database transactions and so one step each; the
bank's `Transfer`, the Sui transfer, the row, the entry and the PaymentOrder are steps of
their own. A handler keeps of the row it loaded only the payout reference (`attempt`), from which
the code derives the ledger reference as well. `rail` is the bank's view of each transfer,
`sentTo` the bank each was submitted to, `delivered` the USDC transfers that landed, `disowned` the transfers the bank accepted though the
submit call returned an error. A handler asks the bank that is the float's when it begins
(`job.bank`), and the operator may switch it at any time (`SwitchRail`): a bank does not know what was
submitted to the other. Withdrawals always go through one bank (`c.kora`). `overlapped` records that a handler began while another
dispatcher was in one, which the lease and `tickMu` normally exclude (the lease is shorter than a
slow tick and fails open without Redis). Two workers that never overlap are the same as one.

| Code | Model |
|---|---|
| `fillViaLpNetwork` | `FetchPending`, `Match`, `LpNetworkFallback`, `NoClaim`, `Claim`, `SubmitPayout` |
| `releaseLpFill`, `releaseWithdrawal` | `ReleaseLpFill`, `ReleaseWithdrawal`, both through `ReleaseTx` |
| `advanceLpNetworkPayouts`, `finalizeLpFill`, `settleLpFill` | `FetchPayout`, `Poll`, `FinalizeLpFill`, `DeliverUsdc`, `Park`, `PersistDigest`, `ConfirmFill`, `SettleLpFill`, `SettlePaymentOrder` |
| `Withdraw`, the webhooks, `UpdateAccount`, admin `SetStatus`, `SetFloatRail` | `Withdraw`, `Reserve`, `SubmitWithdrawal`, `HandleDeposit`, `HandleWithdrawalFinality`, `UpdateAccount`, `SetStatus`, `SwitchRail` |
| a crash, or a failed write that ends the handler | `Stop`, `RequestStops`, counted in `faults` |

**Treasury mode.** The bank is `rail`: a reference it knows is answered with its first transfer,
which is what the adapters' idempotency gives. A payout reference is the row's id and an attempt
number; `counted` is the number of `started` events behind it. The operator may move the float
to another bank at any time (`SwitchRail`), and every poll asks the bank the float is at then.

| Code | Model |
|---|---|
| `dispatchTreasury` | `FetchTreasury`, `GateFails`, `FallbackToLp`, `ClaimPayout`, `SubmitPayout`, `ReleaseClaim` |
| `advanceTreasuryPayouts`, `finalizeTreasuryPayout` | `FetchPayout`, `PollPayout`, `RetirePayout`, `SettleRow`, `SettlePaymentOrder` |
| `advanceFloatReload`, `submitFloatReload` | `FetchReload`, `ReloadFails`, `ReloadReturns`, `ReloadAmbiguous`, `PersistReload`, `PollReload`, `WriteReload` |
| `dispatchLP` and `advanceDispatching` of an order that fell back | `LpMode` |

**Deposits.** An order on the gateway holds the one coin it was created with, so a coin's name
also serves as the Gateway order id and as the digest of the forward transaction. A pass fetches
an address by its status and works from what it fetched; `CreateOrder` loads order and address
anew, and so does its action. `Dispatch` stands for all the dispatcher may do to row and
PaymentOrder.

| Code | Model |
|---|---|
| `detectDeposits`, `expireStale`, admin `ExtendAddress` | `Detect`, `MarkDeposited`, `ExpireStale`, `ExtendAddress` |
| `forwardDeposits`, `SuiOrderService.CreateOrder` | `FetchDeposited`, `CreateOrder`, `ForwardReturns / ForwardFails / ForwardUnanswered`, `PersistForwarded` |
| `reconcileForwardedRouteA` | `FetchForwarded`, `LookUpGateway`, `SelfSettle*`, `RecordSelfSettle` |
| `handleOrderCreated`, `handleRouteAIfApplicable`, `updateOrderStatusSettled` | `OrderCreated`, `IndexSelfSettle`, `IndexRecord`, `IndexStamp`, `OrderSettled` |
| `RefundOrder`, `CancelOrder` | `EndPayment` |

**Card tap.** A request is a `job`; the card is loaded once (`Lookup`) and judged by that copy,
as `TapCardDebit` does. Tokens are numbered in the order the server and the holder's app make them;
a request shows the chip's, or any token made so far off a copy. The app is external and its
writes to the card are steps of their own: a resync is fetched, written and completed
(`FetchResync`, `WriteResync`, `ResyncComplete`), a relink is written and then posted (`WriteRelink`,
`Relink`), and debits, locks and revokes may come in between, so that `Relink` may be refused
(`RelinkFails`: `no_live_card`). `WriteResync` needs the key the server has on the card, so it cannot
follow a relink that was refused. `paid`, `wrong`, `overlapped`, `copied` and `unlinked` are ghosts.

| Code | Model |
|---|---|
| `TapCardNonce`, `StepUpGrant`, `consumeServerNonce` | `TapCardNonce`, `StepUpGrant`, `ConsumeNonce`, `NonceExpires` |
| `TapCardDebit`, `handlePinFailure`, `persistTapCardPaymentOrder` | `Lookup`, `PinFailure`, `PersistOrder`, `DebitReturns / DebitFails / DebitUnanswered`, `RotateToken` |
| `TapCardTokenAck` | `WriteToken` |
| `handleCardDebited` | `CardDebited` |
| `Resync`, `ResyncComplete`, `Relink`, `Revoke` | `FetchResync`, `ResyncComplete`, `Relink` and `RelinkFails`, `Revoke` |
| the app's writes to the card | `WriteResync`, `WriteRelink` |
| admin `SetStatus`, `Unlock`, `Resync` | `LockCard`, `Revoke`, `Unlock`, `RequestResync` |

A Sui submit that comes back without a clear answer may or may not have landed: both are
outcomes of `SubmitAmbiguous`. A LiFi digest that comes back is stored without looking at
its effects, so it may belong to an aborted transaction (`SubmitReturns`). A sent
`createOrder` that is not seen mined, cannot be parsed or reverted is a `SubmittedError` and
parks the row. Deposits are unit amounts in a shared `wallet` that may also hold `Float`
deposits' worth of the operator's coins.

External, modelled from their use: the bridges (`BridgeResolves`), the settlement network
(`GatewayResolves`), the banks (`RailResolves`), Redis' expiry (`LeaseExpires`), process crashes
(`CrashWorker`, `CrashPass`, `Crash`).

## Runs

| Run | Shows |
|---|---|
| `gateway` | under all interleavings of admin changes, partial settlements and refunds: `FullPercentCloses` (the aggregator always settles with 10 000 and takes the event for the end of the order), and that an order implements `Vault` |
| `card` | `CounterIsExact`: the lazily reset counter is what was debited on the clock's day; `DayWithinItsLimit`: a day never exceeds the highest limit the owner had set that day; implements `Vault` |
| `deposit` | two overlapping passes and an indexer whose events may be lost, late or repeated, one fault: `RecordsAreTrue`, and, if events never come, `ForwardedComesHome`, `DetectedIsForwarded`, `ForwardIsFinal` |
| `bridge` | two dispatchers, no dependable lease (`LeaseHolds = FALSE`), one crash: `BurnOnce`, `BridgedIsDelivered`, `EndsStay`, and `ChasedToTheEnd` (a bridge transaction on record reaches `bridged` or `failed`) |
| `dispatch` | two dispatchers whose ticks overlap as they like (`LeaseHolds = FALSE`), one crash, one lost event write or count, one `createOrder` that lands though it is called not sent: `OnePayout`, `OutcomeIsTrue`, `BridgedOwesAll`, `CreatesAreCounted`, and `FillIsFollowed` |
| `treasury` | with a holding lease, a crash, a switch of the bank or a payout whose answer was lost, and in `lp` mode one `createOrder` called not sent that landed: `PaidOnce`, `SettledIsPaid`, `ReloadedOnce`, and `PayoutIsFollowed` |
| `lp` | two dispatchers that may overlap, a withdrawal and its webhooks, a fault and a disowned transfer: `DepositsCover`, `PaidOnce`, `DeliveredOnce`, `FillIsExchange`, and the books implement `Ledger` |
| `lp_live` | with a switch of the float rail, a fault and a disowned transfer: `PaidIsFinished`, a payout that reached the merchant ends settled or parked, unless the operator leaves its bank |
| `tap` | two requests at once, the app's resync and relink in between, a fault and two resets: `ChargedOnce`, `TokenPaysOnce`, `PinBudget`, `ChipIsTracked` |
| `bridge_own`, `lp_twice`, `treasury_fallback` | expected violations, see below |

`BurnOnce` needs no lease: the guarded claim is enough, and the run and the theorem say so.
Nor do the properties of `dispatch`, but they name what they leave out: `OnePayout` excepts the
Gateway orders called not sent that landed (`unheard`) and the orders that took another id's outcome
(`stale`). TLC finds both necessary: the first within the run's bounds, the second with three ids and
two counted attempts, a bound above the run's (within it `stale` is needed by `OutcomeIsTrue` and
`BridgedOwesAll`, whose violations take one id fewer). `OutcomeIsTrue` has none for settled; for
refunded it has `stale`, and for the PaymentOrder's refund lost counts and overlap too. `PaidOnce` and
`SettledIsPaid` of `treasury` are about a holding lease (their premise). Of the LP network the
ledger, the deposits and `PaidOnce` need no lease either; `DeliveredOnce` and `FillIsExchange` do: each is violated when
its `overlapped` is dropped, as two finalizers send the USDC twice, and a finalizer that loads a
row claimed anew pays for a payout that was not made. `ChargedOnce` needs nothing; the other
statements about the card name what they need (`faults`, `overlapped`, for `ChipIsTracked` also
`copied` and `unlinked`), and each is violated without it.

`DepositsCover` is the LPs' part of the header's "pooled NGN == sum of LP ledger balances"
(`route_a_lp_network.go:20-24`): what LPs may spend, what is reserved and what was paid out is what LPs
deposited. It is no statement about the bank balance, which also pays treasury payouts and the
banks' fees and may be at another bank than the one a fill is paid from.

## Bounds

* `gateway`: one order (orders share only the `Gateway` object and the caps), amounts
  0, 1, 3, 5, 6 with `MAX_BPS = 4` so that shares round and leave remainders, `MaxU64 = 20` so
  that amount times percentage overflows, percentages from 0 to one above the maximum, two
  treasuries.
* `card`: one cap, two users, three days, so that a day without debits can be skipped;
  limits 0 to 3; `MaxFunded` bounds the coins ever put in, `MaxU64 = 5` makes `top_up` overflow.
* `deposit`: one order (orders share nothing but the passes), one coin worth the expected amount
  and one worth less, so that the wrong coin can be forwarded; two passes, enough for one to write
  over the other; one fault.
* `bridge`: one order, two workers, `MaxCrashes = 1`, fallback after 1 failure and give-up
  after 2 (in the code larger, in the same order), `Float = 1` so that a second burn would have
  coins to take. Two workers are enough to race on one row.
* `dispatch`: one order, two workers without a dependable lease, `MaxCrashes = 1`, `MaxAttempts = 1`
  and `SampledFully = 1` (3 and 3 in the code, in the same relation), two Gateway ids, so that one
  create more than allowed is possible, `MaxLosses = 1` failed event write or count,
  `MaxUnheard = 1` create called not sent that lands. The model stops counting `started` at
  `MaxAttempts + MaxLosses`, beyond which no comparison can tell.
* `treasury`: one order, one worker (the lease is taken to hold, and workers that never overlap
  are the same as one), two banks, two payout references, hence one retry, two Gateway ids, one
  fault of any kind and one create called not sent that lands. `MaxAttempts` and `SampledFully` are 1
  and `MaxLosses` 0: attempts in `lp` mode are the matter of `dispatch`. Two workers that overlap
  are out of TLC's reach here (more than six million states without any fault).
* `tap`: two purchases, two requests at once, funds for two debits, one wrong PIN to a lock (5 in the
  code; the theorems are about every number), one fault, two resets (an unlock or a relink each), so
  that a card that was relinked can be relinked again. Purchases and requests
  differ in name only; states are taken up to renaming, which is sound as all properties of the
  run are invariants.
* `lp`: one order, one LP, one deposit of 2, one withdrawal of 2 and a target of 1, so that fill
  and withdrawal exclude each other by balance, fills alone do not; two payout references, hence
  one retry; one other order's USDC in the wallet (`Float = 1`), so that a second delivery can
  land; one fault, one disowned transfer, one bank. `lp_live` leaves the withdrawal out and has two
  banks and one switch.
  `lp_twice` has two LPs and neither fault nor overlap.

## Fairness

Weak fairness of `BeginTick` (the cron fires for ever), of a worker's handler steps (a
goroutine that runs goes on; external calls return or time out), and of the bridges and the
settlement network (they end every transfer one way or the other). Strong fairness of
fetching a row that is waiting (a tick loops over every row of its query), of the status
call giving its answer, and of the write that records it: each can fail any number of times
but not for ever, because every tick tries again. In `dispatch` and `lp_live`, where dispatchers may
overlap, all this is asked of *some* worker and of none in particular: a handler that has begun goes
on somewhere, some tick fetches the row, some poll of a bank or of the aggregator that knows the
reference gives its answer, and in `dispatch` some write of an outcome lands. A bank that
does not know the reference answers nothing, for as long as the float stays there; `PaidIsFinished` and
`PayoutIsFollowed` therefore end where the operator leaves the payout's bank. Nothing is assumed of
the operator's switches or, in `treasury`, of the banks' transfers. In `deposit`: weak
fairness of a pass that has begun, strong fairness of fetching a deposited or forwarded address
and of the two transactions taking effect; nothing of the events, of the customer, the
dispatcher or the operators. No fairness is assumed of crashes, of losses, of senders or of the
lease's expiry during a tick. `treasury` takes `LeaseHolds = TRUE` and one worker.

## Proofs

All by TLAPS, for every value of the constants that satisfies the named assumptions
(`GatewayAssumption`, `CardAssumption`, `DepositsAssumption`, `RouteAAssumption`,
`BridgeAssumption`, `DispatchAssumption`, `TreasuryAssumption`, `LpAssumption`,
`CardTapAssumption`); TLC evaluates the assumptions in each run. Where a module has a theorem about a definition that no run lists
(`Conservation`, `FeesFollowTheProvider`, `NothingStranded`, `SpentIsClaimed`, `DigestIsFinal`,
`PaidInSight`, `EndedByItsOrder`), TLC has agreed to it before and the theorem has taken its place.

* `GatewayOrderProofs`: `Conservation` alone is not inductive. `Account(o)` says for each
  status what the escrow and each kind of payment amount to; for a pending order it adds
  that the fees are smaller than the amount and that the provider's part so far fits.
  That gives `TypeCorrect`, `ConservationHolds`, `FeesFollowHolds`, `NothingStrandedHolds`,
  `FullPercentClosesHolds` (with the lemma `FullShare`) and, step by step, `OrderImplementsVault`.
* `TappCardProofs`: `CardInv(c)` adds that the stored day is never ahead of the clock, without
  which an old counter could meet its own day again, and that the present limit is at most
  the day's highest. That gives `TypeCorrect`, `CounterIsExactHolds`, `DayWithinItsLimitHolds`,
  `CapImplementsVault`.
* `RouteABridgeProofs`: the invariant is `OrderInv(o)` (what a row's status says about burns,
  digest and transfer), `WorkerInv(w)` (a worker in `submit` holds the row it claimed, unspent;
  one in `persist` holds its single burn; one in `mark` a delivered transfer) and `Exclusive`
  (no two workers between claim and record of one order). It never mentions the lease:
  `BurnOnceHolds`, `SpentIsClaimedHolds`, `BridgedIsDeliveredHolds`, `DigestIsFinalHolds` and
  `EndsStayHolds` are true of any number of dispatchers, crashes and orders.

* `LpNetworkProofs`: `IInv` says that credits never wait and that a handler about to write the
  books has an LP, an amount and a reference to write them with; it gives `TypeCorrect` (no
  balance below zero) and `LedgerHolds` (every change of a balance is a step of `Ledger`).
  `PaidOnceHolds` needs `PayInv` on top: the entry of a transfer the bank may still make is in
  force (`Kept`), an entry in force names its row's attempt (`Named`), the reference of a
  handler in `submit` is unspent (`Submitting`), that of one in `release` refused, unused or
  disowned (`Releasing`), and nobody else writes under the reference of a submitter (`Apart`).
  It does not mention the lease: any number of dispatchers may be in a handler at once.
  `FillIsExchangeHolds` adds `XInv`: a handler that delivers holds the reference of a transfer
  that was made, one that confirms that of a delivery (`Handling`), and the digest of a row is
  that of its own reference (`Digested`). What could turn the row to another reference in between
  is a release: by `PayInv` none can where no transfer was disowned, and by `Solo` nobody is there to
  do it where handlers do not overlap. That an order is settled only after its exchange needs one
  more part, `Settlements`: a settled order, and a handler about to settle one, has a fill whose
  transfer was made and whose USDC left. It is carried by `Onward` (neither is ever undone) and by
  `WhoSettles` (only the handler that confirmed the fill settles the order).
  `DepositsCoverHolds` adds `Conserved` (balances and debits in force together are what was credited: the
  lemma for each step of `Ledger` moves that many units) and `Paying` (a credit is a deposit received,
  credited with its amount; a withdrawal in `submit` has its debit in force, one in `release` was not
  made or is disowned). A transfer that was made and is not disowned thus has its debit in
  force, by `PayInv` for fills and by `Paying` for withdrawals, and the sum follows. It mentions no
  lease either.
  `DeliveredOnceHolds` adds `DInv`, where no handlers overlap: a handler on its way to the USDC
  transfer works on an order that is `Open` (dispatching, no digest, not parked), an open order that
  nobody records a transfer of has at most one delivery for each fault, and all deliveries of
  an order are under its row's reference, which changes only while there are none.
  `PaidInSightHolds` is the safe half of `PaidIsFinished`: no step takes a payout that the bank took
  out of the poller's query. Reference and status are `PayInv`'s and need no lease. The mode does, as
  claim and fallback guard the status only (with two handlers TLC finds a claimed row turned to
  `lp`): `MInv` says that a handler about to claim works on a row in mode `lp_network`.

* `DepositsProofs`: a forward needs no lock because everything that names a coin names one of its
  own order: `Own` for rows and work in progress (`RowsOK`, `WorkOK`), and a request about to
  record a self-settle holds a coin that is home, where coins stay. `SInv` adds that no coin
  goes back (`SentStays`) and that a digest or a gateway id is written only for a coin that has
  left (`AddrWrites`, `PoWrites`, `WorkWrites`). That gives `TypeCorrect` and `RecordsAreTrueHolds`
  for any number of passes, coins, orders and faults.
* `RouteADispatchProofs`: nothing is assumed of the lease: any number of dispatchers may be at the same
  order. `ClaimInv` is about the row: of the Gateway orders that are known of and can still pay, all
  are the row's or that of the one handler between claim and record, and a row that is bridged has
  none. `ReadInv` is about snapshots: what a handler polled and is about to write was true of the id
  it polled, and stays true, since Gateway orders never leave an end. An order whose row takes
  the outcome of another id is `stale` from that step on and leaves the invariant. `AloneInv` speaks of what
  was told while ticks did not overlap and no event was lost. That gives `OnePayoutHolds`,
  `BridgedOwesAllHolds`, `OutcomeIsTrueHolds` and, a step at a time, `EndedByItsOrderHolds`.
  `CreatesAreCountedHolds` adds `CountInv`: every order known to have been created on Base, and every
  attempt in a dispatcher's volatile counter that was not reset, has a `started` event or a lost one
  to pay for it, or the events have reached their cap; and a handler about to create has room below it.
* `RouteATreasuryProofs`: `TypeCorrect` holds with or without the lease; the rest goes with
  `Leased` (only the holder of the lease ticks) and follows an order across its change of mode.
  `PayoutOK(o)`: in treasury mode no Gateway order pays the merchant, and every transfer that
  counts (`Live`) is under the row's reference, in a row that is dispatching or settled, or a
  reference was used at two banks. `ReloadOK(o)`: the reload whose id counts (`Kept`) is one, and
  is in the row or in a handler's hands. `LpOK(o)`: an order that fell back before any reload has
  at most the Gateway order of its row, those called not sent aside. `Knows(w)` says at each step what the handler may rely
  on, so that a release, a retirement and a fallback find nothing paid. That gives
  `PaidOnceHolds`, `SettledIsPaidHolds` (both name the lease in the property) and
  `ReloadedOnceHolds`.
* `CardTapProofs`: `ChargeInv` ties each nonce to the one request that consumed it; `Alone` says
  that without overlap at most one request is past the nonce; `PinInv` relates attempts, faults
  and wrong PINs; `TokenInv` says that, without faults, a token that has paid is older than the
  card's, but for a request about to rotate it. `Fresh` says that no token is beyond those made
  and that one the app has just written on the card is not yet the row's,
  `Pending` that what a relink wrote stays on the card until it is posted, `Resynced` that what a
  resync wrote is the row's as long as the row has not changed. That gives `TypeCorrect`, `ChargedOnceHolds`, `TokenPaysOnceHolds`,
  `PinBudgetHolds`, `ChipIsTrackedHolds`.

Sums are counted: `Total(f)` is the cardinality of the set of `f`'s units, so that what a step adds
or takes is a set that comes or goes, and the library's facts about finite cardinalities take
the place of an induction over data.

Model-checked only: liveness (`ChasedToTheEnd`, `FillIsFollowed`, `PaidIsFinished`,
`PayoutIsFollowed`, `ForwardedComesHome`, `DetectedIsForwarded`, `ForwardIsFinal`), since TLAPS does
not reason about fairness here and proves no `ENABLED`. Every safety property of a run is also a
theorem. No recursive definitions are used.

## Disagreements found

* `bridge_own` (`OwnDepositFirst`): a comment promises that no order burns before its own
  deposit has arrived; the code checks the wallet's balance, so an order can burn another's.
* `lp_twice` (`NeverPaidTwice`): a comment takes every error of the payout's `Transfer` for a
  definite no-submit, because the adapter is idempotent on its reference; after a timeout the next
  attempt has a new reference, and the merchant is paid twice.

* `treasury_fallback` (`SettledMeansPaid`): a comment says that the float reload is off the
  merchant's path; an order that falls back to `lp` keeps the reload's Gateway id, which that path
  takes for the merchant's own order and settles on.

Remarks without a run of their own, read off the code while modelling it:

* *Dispatch.* `route_a_dispatcher.go:1390-1394` promises that "racing writers can never
  double-createOrder (= double payout)", and `evm/gateway.go:105-107` that after an error of the submission
  callers "may safely retry / revert their claim". Both are too strong: without its exception for
  `unheard` TLC violates `OnePayout` with one worker (the node took the transaction, its answer was lost,
  the claim is returned, the next tick creates a second order that pays too; the cap of attempts does
  not see it, as it is looked at only where an order comes back), and without the one for `stale` with two that
  overlap, three ids and two attempts (the outcome write is guarded by the status and not by the id that was polled). A reverted `createOrder` parks its row,
  though 1244-1245 promises a retry. What is told of a refund is true only while no event is
  lost: one marked refunded whose row write fails, and whose next count of attempts fails too,
  is submitted again, because a failed count is taken for one attempt.
* *Deposits.* Detection matches any coin worth the expected amount, but the forward takes the
  first coin the address owns (`order/sui.go:188-190` assumes a single one). The PaymentOrder
  becomes settled on the self-settle's own `OrderSettled`, before anything is bridged
  (`sui_event_indexer.go:735-737`). The recovery branch of `CreateOrder` (`order/sui.go:160-171`)
  cannot help after a crash, as digest and status are written by one update. A self-settle that
  took effect without its event row leaves its order in `awaiting_funds` for good. The
  reconciliation job that is to sweep expired addresses (`ent/schema/sui_receive_address.go:59-60`)
  does not exist.
* *Cards.* `merchant_tap.go:280` announces a lock after three mismatches within an hour, and an
  unlock after a day: neither is implemented. A relink writes and verifies the card before it is
  posted; refused with `no_live_card` (locked or revoked meanwhile) or lost, it leaves a token on the card
  that the server has never seen, which nothing flags (`unlinked`). The nonce's card is not compared with the card that is
  debited, though 254 says so. A revoked card comes back through `SetStatus(locked)` and `Unlock`.
  `spent_today` is never reset, and the attempts are not reset by a right PIN.

## Not modelled

*Route B.* No code outside the tests creates a `LockPaymentOrder` row:
`createLockPaymentOrderWithRecipient` (`sui_event_indexer.go:473-566`) only hands a value without
an id to the matching engine, though its comment says that the engine stores it;
`ReassignStaleOrderRequest` never assigns, because the currency it needs is not loaded. No state
of the provider payouts (`order/execute.go`, `controllers/baas_webhook.go`, the reconciling tasks)
is reachable, so a model of them would start from states the program is never in.

*Of the modelled components:* refund events of the indexer; issuing, claiming and first linking of cards,
their reset and limits, and the two branches of a tap that make no debit on Sui; the burst loop of
the dispatcher (a further source of ticks, and ticks are already unrestricted). `ForceState` of
the admin API can put a row anywhere; every statement about rows is about the program without it.
Amounts in `RouteABridge` and `Deposits` are units: that a bridge delivers fewer coins than were
burned matters to the shortfall check in `dispatchLP` only, which is an outcome (`PrepareFails`).
In `LpNetwork` a fill is submitted at the bank its handler began with, also after a switch, as in the
code; bank fees and treasury payouts from the same balance are left out; the rail's minimum amounts are above or below for good, so amounts below are left
out; an operator who clears a parked delivery is outside; LPs exist from the start.

*Others.* Bank adapters, authentication, e-mail, rate limiting, admin screens, quotes and the live
feed have no protocol of their own beyond a request and a write. Most of the repository's lines
are generated (`ent`, protobuf) and are modelled where they are used, as guarded updates.

## Plan

1. Claiming and linking of cards, where a check and the write that follows it are apart.
2. Route B, once something creates its lock orders.

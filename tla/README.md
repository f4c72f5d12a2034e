# Collateral margin: a verification project

TLA+ modules for the collateral and margin stack of this repository, TLC
configurations that check them on small instances, and TLAPS proofs for every
instance. Paths below are relative to the repository's root.

1. [Inventory](#1-inventory) 2. [Modules](#2-modules) 3. [Runs](#3-runs)
4. [Proofs](#4-proofs) 5. [Not modelled](#5-not-modelled) 6. [Plan](#6-plan)

## 1. Inventory

The stack keeps traders' USDC in one vault, sizes the margin of a whole portfolio
in one engine, and surrounds the two with off-chain programs that liquidate,
make markets, index and watch. The trading venues (perps, futures, options) live in
other repositories; here they appear as callers of the vault and the engine.

| part | source | state it keeps | operations |
|---|---|---|---|
| CollateralVault | `contracts/contracts/CollateralVault.sol` | receipts per account and their supply, USDC, insurance debt and its cap, bad debt and capital, the halt, engine, authorized callers, backstop parameters | deposit, withdraw, fund and backstop calls, `settleTransfer`, internal transfers, owner configuration, halt and resume, `initializeV2` |
| PortfolioMarginEngine | `contracts/contracts/PortfolioMarginEngine.sol` | shocks, the market registry, oracle, options engine | all views: IM, MM, `reduceLimits`, `meetsTradeMargin`, `isLiquidatable`; owner configuration |
| Points programme | `contracts/contracts/Points*.sol` | points ledger, formula settings, redemption pool and snapshot | mint on fill and liquidation, tune, finalize, enable, swap, recover |
| Vault indexer | `indexer/src/vault.ts` | vault, account and user entities of a subgraph | one handler per log, plus contract reads |
| Points indexer | `points-indexer/src` | programme and user rows | one handler per log |
| Margin solver | `portfolio-margin/src` | none | the engine's requirements on integers, liquidation prices and sizes of closes by bisection |
| Keeper: executor | `keeper/src/coordinator/queue.ts`, `executor.ts`, `runtime/scheduler.ts` | a queue of underwater accounts, accounts being planned | sweep, price crossings, worker loops, stop |
| Keeper: plan | `keeper/src/coordinator/planner.ts`, `venues/`, `tx/liquidate.ts` | what was read of one account, exhausted venues | cancel orders, close positions, read again |
| Keeper: delivery | `keeper/src/delivery/coordinator.ts`, `discovery/futuresExpiryIndex.ts` | index of open positions, batches in flight, a promise chain | replay, watch, reconcile, sweep, settle |
| Keeper: others | `keeper/src/predict`, `alert`, `backstop`, `tx/unstick.ts`, `discovery` | price thresholds, alerts waiting, tracked accounts | rebuild, notify, unwind, unstick, discover |
| Market maker: loop | `market-maker/src/core/portfolioRunner.ts`, `orderExecutor.ts`, `bookTracker.ts`, `quoter.ts`, `txCoordinator.ts` | a mirror of its own orders, cooldowns, error counts, risk counters | tick: update, gate, diff, batch; resync; halt |
| Market maker: nonces | `market-maker/src/core/nonceManager.ts` | the wallet's cached nonce | submit with replacement, cancel and resync |
| Monitor | `monitor/src` | none between polls | read and publish |

### How they interact

- Venues call the vault: `settleTransfer` moves profit, loss and fees against the
  insurance fund, and the vault calls the engine for the initial margin on every
  exit. A fund that cannot pay a winner borrows: receipts are minted and booked as
  debt, and any later credit to the fund is burned against it (`_update`).
- The engine calls every registered market (`getRiskView`), the options engine
  and the oracle. It reads balances from the vault. A venue reads the limits of a
  trade before it and asks `meetsTradeMargin` after it.
- The indexers see only logs. The vault emits nothing for a borrow or for a
  repayment but a plain mint or burn, so the indexer infers the debt from which
  logs come next to which.
- The keeper's sweep, the price feed's callbacks and the worker loops share the
  queue and the in-flight set in one process; between an `await` and its
  continuation the others run. A worker runs one plan: it reads the account's
  health with the solver's copy of the engine's arithmetic and the venues and the
  engine judge each transaction on their own.
- Delivery follows the futures venue through an index that is replayed from the logs of a
  bounded window at start and kept by four independent watchers; its sweeps share one promise
  chain and one wallet.
- The market maker's markets share the tick, the risk gate and one nonce manager;
  markets of one venue share a transaction.
- The hook mints points in the venue's transaction; the redeemer burns them and
  pays GOV from a pool fixed when redemption was enabled.

### What is hard

- **Vault**: debt, halt and engine are set by different calls in any order. The
  repayment burns inside `_update` under every transfer. The cap is compared
  after the borrow. Correct when: receipts are backed by USDC or booked debt, the
  fund holds nothing while it owes, debt past the cap leaves the vault halted,
  no USDC leaves while halted, and no route leaves an account under its margin.
- **Vault and venues**: winners may close before losers. Correct when the debt in
  between ("timing debt") is owed by losers who are still in the market, and the
  rest is counted as bad debt (`docs/insurance-debt.md`).
- **Engine**: a resting order is filled by somebody else with no margin check, so
  its cost must be reserved. Correct when the initial requirement covers the
  maintenance requirement, a fill costs no more than what was reserved, and the
  account's own actions do not make it liquidatable.
- **Points**: shares are paid one by one while the supply burns down. Correct when
  each user is paid its share of the snapshot once and the pool suffices.
- **Vault indexer**: inference, a stored split, and contract reads as of the end of
  the block. Correct when the entities equal the contract after every block.
- **Solver**: the requirements are piecewise, truncated and not monotone in the price
  or in the size of a close. Correct when no price nearer than a threshold makes
  the account liquidatable, and no larger close than the one found is acceptable.
- **Executor**: late and out-of-order health reads, snapshots kept over a plan, lost
  wake-ups, plans that throw, stop. Correct when one plan runs per account, the
  worst is taken first, no worker waits while work is queued, and an account that
  stays worst is planned again and again.
- **Plan**: every answer may be stale when it is used; two venues, of which one may
  refuse; chunks, an exhausted set and an iteration cap. Correct when each plan
  ends, a quiet market lets it finish the job, a close leaves the account between
  its requirements and bad debt is reported only where there is some.
- **Delivery**: live logs race the replay, the reads back and one another; sweeps
  overlap; a batch that fails falls back to single settlements; receipts are
  not looked at; the process may crash between any two steps. Correct when the
  index follows the chain, no position is in two batches, and a matured position
  is settled.
- **Market maker loop**: a plan is built on a mirror that trails the chain; a batch
  may revert, time out and land later; one venue may refuse while others quote.
  Correct when no plan crosses itself, the books end as quoted, and a breach
  empties them.
- **Nonce manager**: timeouts racing inclusion, evicted and lost transactions, a
  wallet shared with others. Correct when nonces leave no gap, versions of one
  submission replace only each other, what resolved is on the chain, each
  submission lands at most as often as intended, and each one ends.

`PROJECT.json` lists every component with its status and every hazard at its line.

## 2. Modules

| module | models | notes |
|---|---|---|
| `InsuredPool` | what the vault promises, without its calls | abstract specification: cash, shares, a reserve that may owe, a lock |
| `CollateralVault` | `CollateralVault.sol`, every state-changing entry point | one action per call; `UserCall`, `VenueCall`, `FundCall`, `OwnerCall`, `Environment` group them; implements `InsuredPool` (`ImplementsPool`) |
| `VaultMarket` | the vault together with a zero-sum market | extends `CollateralVault`; marks move, losers and winners settle in any order; `gifts` is a history variable for what anybody deposits to the fund |
| `VaultIndexer` | `indexer/src/vault.ts` over the logs of `CollateralVault` | each vault action also emits its logs into a block, which is then handled call by call and log by log (nested folds) |
| `MarginEngine` | `PortfolioMarginEngine.sol`, `libs/MathLib.sol` | operators only; the rounding of every division is kept |
| `MarginedAccount` | one account under the engine | trades, resting orders, fills by others, cancels, deposits, withdrawals, moves of spot, shocks and options |
| `MarginSolver` | `portfolio-margin/src/mm.ts`, `solve.ts` | operators only, next to those of `MarginEngine`, which they are compared with |
| `LiquidationPlan` | `keeper/src/coordinator/planner.ts`, `venues/perps.ts`, `venues/futures.ts`, `tx/liquidate.ts` | extends `MarginSolver`; the keeper computes with the solver, the chain judges with the engine |
| `LiquidationExecutor` | `keeper/src/coordinator/queue.ts`, `executor.ts`, with what `runtime/scheduler.ts` and `predict/coordinator.ts` do to the queue | a step runs from one `await` to the next; a plan is an interval |
| `FuturesExpiryIndex` | `keeper/src/discovery/futuresExpiryIndex.ts` with the venue's positions and logs | replay of the window of the active expiries and the one before (or none, when the venue lists none), watchers that may lose a log, reads back, reconciliation |
| `DeliveryCoordinator` | `keeper/src/delivery/coordinator.ts` | extends the index; sweeps, slices, the promise chain, the fallback |
| `OrderDiff` | `market-maker/src/core/quoter.ts`, `orderExecutor.ts` | operators only: the grid, and what to cancel, reduce and create |
| `PortfolioRunner` | `market-maker/src/core/portfolioRunner.ts`, `bookTracker.ts`, `circuitBreaker.ts`, `txCoordinator.ts`, `adapters/futures/ownOrders.ts` | extends `OrderDiff`; a market has a mirror of its orders (`own`) and, on futures, the cache (`cache`) that a resync copies before it awaits the book; the gate may throw, an update may fail after its resync, and a batch may land twice |
| `NonceManager` | `market-maker/src/core/nonceManager.ts` with the node's pool and chain | a step runs from one `await` to the next |
| `PointsProgram` | `Points.sol`, `PointsHook.sol`, `PointsRedeemer.sol`, user rows of `points-indexer` | |
| `OperatorFacts` | nothing of the code | lemmas about what the models are built from: fixed-point products and quotients, induction over finite sets, folds, recursive functions, sets in an order, sums |
| `*Proofs` | theorems | extend the module they are about and `OperatorFacts`; `VaultSystemProofs` is about the vault, the market and the indexer together, `LiquidationPlanProofs` about the plan and the solver, `MarketMakerProofs` about the nonce manager and the loop |
| `MC*` | instances for TLC | constants, symmetry and starting states |

The modules meet where the programs do. `VaultMarket` and `VaultIndexer` drive
`CollateralVault`'s own actions; `LiquidationPlan` puts the keeper's arithmetic and the
engine's side by side; `DeliveryCoordinator` consumes the changes of the index; and
the time for which a worker of `LiquidationExecutor` is `Planning` (until `PlanReturns` or
`PlanThrows`) is the behaviour of `LiquidationPlan`, which `EveryPlanEnds` shows to be finite.

How state and actions correspond to the code:

- In the contract modules a variable is a storage slot and keeps its name
  (`halted`, `insuranceDebt`, `totalPointsSnapshot`), an ERC-20 balance of the
  contract is one number (`collateral`, `gov`), and an action is a transaction. A
  call that reverts is a step that cannot be taken. Roles and `onlyOwner` are the
  choice of who calls. Amounts that a cast to `int256` would reject revert in the
  code and do not arise at the sizes explored.
- `settleTransfer` is the contract's for every pair of accounts. That no venue settles
  the fund against itself is an assumption on the callers (`VenueSettles`, external: the fund is
  the counterparty of somebody else); the contract does not reject it. With
  such a call the fund would end with receipts and in debt, so `FundEmptyWhileInDebt`,
  `ImplementsPool`, `IndexedStateMatches` and the invariants proved with them rest on the assumption. A withdrawal whose recipient is the vault is a withdrawal and a
  donation. ERC-20 transfers and approvals of receipts are disabled in the code.
- In the TypeScript modules an action is a run of code between two `await`s, and
  what an `await` answers was read when the call was made, so it may be stale.
- Definitions named `...Never`, `...Unchecked`, `...Swapped` and so on, marked
  "Variant", are plausible mistakes in the definition below them. No specification
  uses them; each property is run against one and must fail.

## 3. Runs

| run | configuration | properties | asks |
|---|---|---|---|
| `vault` | `MCCollateralVault.cfg` | `NoUnguardedDebt`, `Backing`, `FundEmptyWhileInDebt`, `SupplyIsSumOfBalances`, `ImplementsPool` | Every entry point of the vault in every order, with the engine set, cleared and its answers moving: the money stays backed, and every call is one of the changes of the abstract pool. |
| `vault_market` | `MCVaultMarket.cfg` | `BooksExplainFund`, `TimingDebtIsBacked` | Winners and losers settle in any order through a fund that may be empty: the fund's books explain its position to the unit and timing debt is owed by open losers. |
| `vault_indexer` | `MCVaultIndexer.cfg` | `IndexedStateMatches`, `FlowsExplainBalances` | Two vault calls per block in every combination: the subgraph ends each block with the contract's balances, debt and split, inferred from plain mints and burns. |
| `nonce` | `MCNonceManager.cfg` | `NoNonceGap`, `ResolvedIsOnChain`, `LandsOncePerResync`, `NoCollision`, `EverySubmissionEnds` | Three submissions through timeouts, lost answers, an evicted transaction and a foreign one: nonces are neither skipped nor shared, and every submission ends. |
| `nonce_replacement` | `MCNonceManagerReplacement.cfg` | `LandsAtMostOnce` | **violated**: With a wallet of its own, a pool that keeps what it takes and no lost answer, a transaction that is mined between its timeout and its replacement is sent again at the next nonce and lands twice. |
| `executor` | `MCLiquidationExecutor.cfg` | `OnePlanPerUser`, `NoIdleWorkerWithWork`, `WorstFirst`, `WorstIsPlanned`, `StopDrains` | One worker or two, late and out-of-order health reads, failing plans and a stop: one plan per account, worst first, no lost wake-up, and nobody starves. |
| `delivery` | `MCDeliveryCoordinator.cfg` | `OneBatchPerPosition`, `IndexIsExact`, `OnlyARevertLoses`, `MaturedIsSettled`, `GhostsLeave` | Four unordered watchers, reads back, the replay of a bounded window, overlapping sweeps that slice, rivals and one fault of any kind, a lost log or a crash included: what the index and the sweeps may lose, and that every other matured position is settled and every ghost dropped. |
| `delivery_startup` | `MCDeliveryStartUp.cfg` | `EveryAggregateIsIndexed` | **violated**: With nothing failing, a position opened while the index replays older logs is lost until the keeper restarts. |
| `margin` | `MCMarginedAccount.cfg` | `ImAtLeastMm`, `FillIsReserved`, `OnlyTheMarketLiquidates` | One account over two markets and an options book: what is reserved for its resting orders pays for any fill on a side where nothing nets; with ordered shocks and no long gamma its own actions never make it liquidatable, but for the cancel of an order whose gain hid the loss of another. |
| `plan` | `MCLiquidationPlan.cfg` | `RequirementsAgree`, `ThresholdsBracket`, `DeepestCloseIsFound`, `QuietPlanFinishes`, `BadDebtIsReal`, `PartialCloseRestores`, `EveryPlanEnds` | Thousands of small books, liquidated step by step while the price, a fill, a deposit or a new order may come between any two of them, up to four times: the keeper's arithmetic against the engine's, its thresholds and closes against a search of every price and every size, and where a plan ends. |
| `points` | `MCPointsProgram.cfg` | `ShareIsPaidOnce`, `TighterEarnsMore`, `OnlyRecoveryUncovers` | Fills, liquidations, retuning, finalizing and redemption in every order: every user is paid its share once and the pool covers those who have not swapped. |
| `quoting` | `MCPortfolioRunner.cfg` | `PlanNeverCrosses`, `QuotesSettle`, `BreachEmptiesBook` | Markets requote while prices jump, orders fill, logs come late or never, resyncs overwrite what was heard meanwhile, updates and gates fail, batches fail, land late or land twice and a venue may refuse: no plan crosses itself, and the books end as quoted, or empty on a breach. On futures, which lists a cache, the last two are about runs without a lost log. |

Every property of a passing run is also run against a mutant of the code, listed
under "mutants" in `PROJECT.json`, and fails there.

### Bounds, and why they are enough

- **Vault**: one trader, one venue, fund and backstop; amounts 0 to 2; three
  receipts. One trader is enough because the vault treats accounts alike and no
  property relates two traders; the amounts allow a payment short by one, a debt at,
  under and over the cap, and a repayment in two parts. The trader's requirement
  moves between nothing and more than anybody holds; one engine has the vault's
  pin and one has not; one backstop parameter is over its maximum by one.
  `MaxBadDebt` and `MaxCapital` cap counters that only grow.
- **Market**: two traders, so that one wins what the other loses, with the backstop
  as a third holder; marks move by one or two units; requirements are fixed
  at zero, since a requirement only removes behaviours. Anybody may deposit to the fund's
  account; `gifts` counts it, so that the equation of the books is one to the unit.
- **Indexer**: two vault calls per block, so that any two neighbouring logs meet, no
  traders (the fund, the backstop and the venue already show every log), and
  amounts of one and two, so that a borrow and a deposit can be equal or differ.
  `UpgradeAlone` keeps the upgrade in a block without a deposit to the fund or a withdrawal
  from it (see the observations).
- **Margin**: two markets, three lots held or resting, three prices, balances up to
  three units, one pair of shocks in order and one not, no options or a
  sold one. `OnlyTheMarketLiquidates` is about ordered shocks and options that are not long gamma,
  and names what it leaves out: the cancel of an order whose gain hides the loss of another
  on its side, and a fill by others on a side that nets or of an account under its initial requirement. Three lots give a hedged pair with a third order, the shape
  in which one fill unhedges the rest; three prices let one order of a side lose and another
  gain. The scales (`WAD` = 10, `LIFT` = 2) are small so that every division really
  rounds. Lots are single units, all markets are marked at spot, no funding is owed.
- **Plan**: one perpetual and two expiries, one of which may have matured; 8084
  starting books with long, short, hedged and resting shapes, insolvent ones
  included; prices 1 to 7, all of which the properties search; `WAD` = 4 and
  `LIFT` = 2, so that one contract is two quarters of the perpetual's scale and both
  divisions truncate. Most markets
  stand still; for books with orders and funding they move twice, and for accounts with nothing but orders four times,
  between any two steps: the price, a fill, a deposit, or a new order of the owner,
  with which orders reappear under the plan. At most two lots per transaction make a close of three a chunked
  one; four iterations are enough to use each venue and to run into the cap.
- **Executor**: two accounts with three health levels, and one worker or two
  (`Pools`): enough for a worker to skip the other's account, and for a stale read to
  reorder two entries. At most one batch of price crossings is outstanding, so two
  batches never race each other; a batch does race the sweep.
- **Delivery**: one trader and the backstop at one expiry, which is active or has matured when the keeper starts;
  a matured one is the previous one or older, as bootstrap may find it; each position open or not at the start and changed once, one undelivered log per watcher, two overlapping sweeps,
  batches of one and of two, and one fault of any kind: a read, a chunk of the replay, a log a watcher loses, a
  simulation, a send, a reverted receipt, a crash. Two positions make a batch that can
  fail as a whole and succeed one by one. The three safety properties are proved
  for every one of these bounds; the size serves the two liveness properties. Sweeps are alike, so a
  new one takes any place that is free.
- **Quoting**: eight scenarios, each the smallest in which something happens: one
  market of either kind with moves, faults or both; levels placed twice because
  a cooldown ended before the logs came (`unheard`); two venues of which one
  refuses; two markets that share a transaction. One level a side, a tick of two, two quotes (a
  locked pair that must be widened, and the market above it, between two ticks, which rounding
  moves both ways), quarantine after two errors. `PlanNeverCrosses` is proved for any number of levels,
  markets and quotes; the size serves the two liveness properties.
- **Points**: three users, five points, six units of GOV: shares that do not divide,
  including shares that round to zero. Settings switch the bonus on and off;
  prices put a quote at the reference, inside the widest spread and outside it.
- **Nonce**: three submissions (two for the replacement question), one replacement
  and one resync each, one foreign transaction, one eviction (none of these two, and no lost
  answer, for the replacement question, so that only the timeout is left to explain it); the
  code's budgets are larger and used the same way at each step.

Deadlock is checked for the vault runs and for quoting: the vault always takes some
call and the loop ticks until it is stopped. The others set
`CHECK_DEADLOCK FALSE`: a plan, the nonce manager and a stopped executor end,
and the account, the points programme and the futures market may reach their bounds.

### Fairness

- `NonceManager`, `WF(submitInner)`: the submission under way takes its next step. The
  code awaits with timeouts at each place, so each step ends.
- `LiquidationExecutor`, `WF(Wake(w))` and `WF(PlanReturns \/ PlanThrows)`: the event
  loop runs what is ready, and a plan ends one way or the other. `SF(PlanReturns(w))`:
  a plan that is tried again and again does not throw forever; an assumption
  on the chain. `WF(SweepReads)`, `SF(SweepApplies)`: the sweep's timer keeps firing
  and its read does not fail forever. Crossings get no fairness: prices may never move.
- `LiquidationPlan`, `WF(Step)`: the calls of a plan are answered.
- `DeliveryCoordinator` says what happens again and again instead of naming
  actions (`[]<>`): the feeds and the reads back are empty; the process is up
  and listening; no sweep is due; no sweep stands between two slices; the head of the chain has
  started; the running batch is done. Each of these is a finite amount of work that nothing but
  the event loop, the node and the supervisor that restarts the process can hold up, so each
  amounts to weak fairness of the steps that do it.
- `PortfolioRunner`: `[]<>(phase = "idle")` and `[]<>(phase # "idle")`, the ticks come
  and end; `[]<>` of no batch under way (it is mined late or dropped), of a market that is out of its
  backoff, and of a market that resyncs: the time since the last resync only grows, so
  an update finds it old again and again; weak fairness of the polling of logs and of the end of a
  cooldown.

The chain, the pool, prices, health, fills and moves have none, and no specification
of a contract has any. `WorstIsPlanned`, `MaturedIsSettled` and `QuotesSettle` state
their own premises (an account that stays worst, no later change, the quote at rest)
rather than constrain the world.

### What the violated runs show

1. `nonce_replacement`: when the original is mined between a timeout and its
   replacement, "nonce too low" is taken for a third party's transaction and the
   calls are sent again at the next nonce (`nonceManager.ts:41-43` says that one of
   the two at most can land).
2. `delivery_startup`: the watchers run before the start-up replays the logs up to the
   head it has read. A live log that opens a position may be applied first and an
   older, replayed log that closes it second; the reconciliation reads back only what
   is marked active, so the open position is not settled before the next restart.

### Observations

Seen while modelling; where a property excludes the case, it is named.

Contracts and indexer:

- Markets clamp the loss of resting orders once per side, so a gain of one order hides
  the loss of another. The engine's natspec promises the bound for any subset of fills; it
  holds for the stress legs (proved) and not for the fill losses. `FillIsReserved`
  states what does hold: no side nets.
- With a long gamma the maintenance requirement may exceed the initial one even with
  shocks in order (the condition of `ImAtLeastMm`); `setShocks` compares nothing.
- `recoverGov` may take GOV that is still owed (the exception in `OnlyRecoveryUncovers`).
- `initializeV2` run with positions open counts traders' unsettled money as capital.
  In the block of the upgrade the indexer reads the capital with a contract call (`vault.ts:334`), which
  answers as of the end of the block, and then adds a deposit of that block again. `UpgradeAlone` keeps
  such a block out of `IndexedStateMatches`.
- The owner of resting orders may cancel one whose gain hid the loss of another: a cancel has no
  margin check, and the account may be liquidatable after it (`HidesALoss` in `OnlyTheMarketLiquidates`).
- `_validateLinearMarketContract` has no caller; `removeLinearMarket` with positions
  open drops their margin; a stale oracle reverts every exit and liquidation.

Keeper:

- A threshold within one price unit of spot, or a surplus of exactly zero,
  is not found (`solve.ts:300-310`; `ThresholdsBracket` starts beyond it). Between the thresholds
  the surplus may touch -1 (initial margin) or -2 (maintenance margin, whose perpetual
  profit is truncated as well) where the divisions turn back: never deeper (`Rounding`).
- The largest close that keeps the band may end one unit below the maintenance margin:
  profit is truncated once where it is realized and once where it is left (`DeepestCloseIsFound`).
- The truncation of the perpetual's entry value makes keeper and engine disagree by
  up to |q|/Unit + 2 (`RequirementsAgree` gives the bound); at the edge the chain has
  nothing to close and the plan stalls. The engine rounds the stress of a venue before it
  adds the venues' deltas to it, the keeper only once: with shocks that are not multiples of
  the quantity unit they differ by more (the hypothesis `WholeShocks`; the run's shocks are multiples).
- The two venues are ranked one read after the other. `BadDebtIsReal` says what holds however often the
  market moves: a position that is open at a report of bad debt was opened by a fill after the read of
  its venue. The log of such a plan says more, "no positions remain" (`planner.ts:156`), and that may be
  false: the orders leg skips an order because the account is healthy for the moment (`planner.ts:280`), the
  price turns back, no venue shows a position, and the order is filled after the read of its venue. The
  next sweep takes the account up again.
- A batch of closes whose unit calls outlive the deficit: the comment at `solve.ts:481` says that
  `liquidatePositions` stops once the account is healthy, `docs/liquidation-orchestration.md:179` that nothing is
  recomputed between units. The venue is external; the model follows the doc.
- A close cut to `maxLotsPerLiquidationTx` can leave the account above its initial
  requirement, or reduce it too little: the venue reverts `OverLiquidation` at every
  iteration up to the cap, where `docs/liquidation-orchestration.md:102,112` expects
  progress. The same holds of a leg that has lost more than the balance,
  and of a matured leg nobody has settled. `QuietPlanFinishes` excludes these books by name
  (`Sizable`).
- A plan that throws queues its old snapshot over a newer one and is taken up again
  at once: with plans that always throw, a worse account waits forever; with
  one worker, so it does when another's health never stops moving (premises of
  `WorstIsPlanned`).
- A settlement's receipt is awaited and its status ignored: a reverted batch is
  dropped from tracking (`OnlyARevertLoses` shows that nothing else is).
- The replay at start goes back to when the previous expiry was listed
  (`futuresExpiryIndex.ts:218-228`), and does not happen when the venue lists no expiry (216): an open position of an older
  expiry is found only if its holder is the backstop, another seed, or has a log since. A watcher has no
  error handler, and nothing compares the index with the chain after the start, so a log its poll
  loses is lost until the next start. Both are exceptions that `IndexIsExact` and `MaturedIsSettled` name.
- Predictive layer: a rebuild asked for during a rebuild is merged into it
  (`predict/coordinator.ts:122-130`), a slow drift never exceeds `priceMoveTriggerBps`
  (266-271), the price is read before the snapshot it is used with.
- Notifier: the promotion of a warning to critical is suppressed by an
  earlier critical alert (the doc, 47-48, says otherwise); a failing webhook duplicates and reverses
  what is pending, without a bound; a webhook that hangs (no timeout on `fetch`) holds the
  sweep that awaits the drain.

Market maker:

- Futures lists its own orders from a cache, so a resync never reads the chain; one
  lost log leaves an order that is gone, and every batch that cancels it
  reverts, `cancelAll` included (the premise `NoGhost` of `QuotesSettle` and `BreachEmptiesBook`).
- The list of a futures resync is copied before the book is awaited (`bookTracker.ts:57-85`), so the mirror loses
  the events heard meanwhile until the next resync; the two properties hold because the cache keeps them.
- `canPlace` is asked outside the `try` (`txCoordinator.ts:82`): when it throws, the tick ends with no requote recorded.
- Nothing waits for the logs of a batch: with a cooldown shorter than their delay the
  levels are placed again (bounded by `unheard`).
- A resync of perps may insert an order of size 0 at price 0. A level duplicated in
  the target is never topped up (`stale-order-policy.md`).
- `widenLockedBook` moves only the best ask, where the comment at `quoter.ts:163` speaks of a
  guarantee. With a skew larger than the price an ask may start below zero; the remainder of
  a negative number is not positive, so `roundUpToTick` (`math.ts:25`) takes it one tick too far, two levels
  may land on one price, and only one of them is opened. `AsksAboveZero` is the hypothesis that
  excludes it. A requote is recorded for a venue
  that failed, and a batch mined as reverted counts as placed.
- One denial at the aggregate gate drops the creates of all markets; a degraded market
  quotes a stale price; nothing cancels the orders of a quarantined market, though
  the comment of `marketRuntime` says so; `cancelAll` bypasses the nonce manager with
  concurrent sends; `/stop` and shutdown cancel while a tick may still place.
- `resolveMarkets` updates the active keys before the roll has succeeded. After a
  timeout whose cancel fails, `nonceManager` logs a resync it does not do.

## 4. Proofs

All theorems hold for every value of the constants, under the named assumptions
of the modules, and without the bounds of the runs unless a bound is in a guard,
where it is any value. The assumptions are few: the sets that are summed over
are finite (`FiniteAddresses`, `Markets`, `Expiries`, `Users`), scales are positive and
divide each other where the code's powers of ten do (`Scales`, `WholeUnits`), inputs have
their types and what a plan starts from is a book the venues can hold (`Inputs`: an entry
value has the sign of its quantity), the bid mid of a quote is not above its ask mid (`Quoted`), and `NobodyAtZero` keeps the zero address out of the
accounts. Some theorems carry a hypothesis of their own, named where it is used.

- **`OperatorFacts`**: folds, sums and recursive functions are defined by CHOOSE, so
  before anything can be said of them they have to be shown to exist. The induction
  is over subsets of a finite set (`SubsetsByInduction`) or by the least
  counterexample (`LeastNumber`). `FoldExists` and `FoldInOrder` turn a fold over a sequence into a
  sequence of intermediate results (`InSteps`); `DescentExists` and `DescentStays` do it
  for a recursive function that falls in a measure; `PlacesTaken` says that each
  place of an order is taken; the lemmas on sums say how a sum changes with one
  element, what it bounds, and that it splits.
- **`VaultSystemProofs`, the vault**: `Inv` is `MoneyInv` (types of the ledger, `Backing`,
  `FundEmptyWhileInDebt`), `ControlInv` (types of the controls) and
  `NoUnguardedDebt`. `Backing` alone is not inductive: a repayment that burned
  more than was owed, or a borrow beside a fund that still held receipts, would
  leave it, so the empty fund is part of the invariant. Each money movement is
  summarised by a lemma (`TransferMoves`, `BorrowMoves`, ...), each call cites the
  lemmas of what it moves. `SupplyExplained`: every movement changes the sum over all
  accounts by what it mints or burns. `VaultImplementsPool` is the refinement: under `Inv`
  every call maps to a pay-in, a pay-out, a loan, a gift, a change of lock, guard, cap or
  need, or to a stutter. What the abstract pool forbids follows for the vault: no cash
  leaves while halted, an exit keeps the margin, debt past the cap
  halts, only a debt within the cap lets the vault resume, and no step lowers what
  is held beyond the shares.
- **`VaultSystemProofs`, the market**: the vault's invariant and `BooksExplainFund`, an equation
  between the fund's balance, its debt, bad debt, capital, what others deposited to it and what the market will
  still pay, are inductive together; what is unsettled is a sum over the holders.
  A shortfall that is lost breaks the equation on one side, one booked twice on the other.
  `TimingDebtBacked` follows.
- **`VaultSystemProofs`, the indexer**: `IndexInv` says that the entities, once the logs that are in
  the block have been handled, mirror the vault as it is now. The handling of a block is
  a sequence of intermediate entities, one per call and log, so one more
  call only appends steps; each vault call has a lemma that says what handling its logs does
  to the entities, the inference of a borrow or a repayment from a plain mint or
  burn included. `LosslessLedger` and `HistoryExplains` are what is left when the block is
  empty. Hypothesis: `UpgradeAlone`, as in the run (see the observations).
- **`MarketMakerProofs`, the nonces**: the pool's pending entries form an unbroken run that ends at
  the cached nonce (`Serial`), which gives `NonceGapFree`, whatever the node drops
  or others send; a submission that waits finds only its own versions at
  its nonce (`WaitsForOwn`), which gives `LandedIsOnChain`; its places on the chain and in the pool
  are counted by its resyncs (`Counted`), which gives `PlacesAreBounded`. `SubmissionsNeverCollide` is
  an action property from the same run. That `PendingCount` exists for an unbounded pool
  is a well-foundedness argument (`PendingCountIsFree`).
- **`MarketMakerProofs`, the loop**: `PlansNeverCross`. The argument has three parts. The grid:
  offsets grow by a tick at least, so every bid rounded down is at most every ask rounded up, no two
  asks share a price, and moving the best ask by one tick opens what rounding locked (`GridIsOpen`).
  The diff: an order that is kept is neither better than its own side of the grid nor at
  the other side of it, so whatever pair a plan leaves, kept with kept, kept with new or new with
  new, lies on either side of the grid (`PlanIsOpen`). The loop: `LoopTyped` says that whatever a mirror holds is
  an order with a price, through fills, reverted and late batches, lost logs and resyncs that find orders gone; it is
  inductive with the types of what is on its way (logs, plans, a late batch, an answer being read).
  Filters and the folding of a transaction's events into the mirror are recursive functions, shown to exist by
  `FoldExists` and `StepsExist`. Nothing is assumed about what the mirror holds: a stale mirror makes a plan that
  is out of date, not one that crosses itself. Hypothesis: `AsksAboveZero` (see the observations).
- **`LiquidationExecutorProofs`**, for any number of workers, accounts and levels of health: the queue
  is in order and without duplicates after every enqueue, refresh and dequeue (`IsQueue`), which
  with "one worker per account" gives `OnePlanAtATime` and `WorstComesFirst`.
  `NoWakeUpLost` needs a count: while somebody waits, no more accounts are free in the queue than
  workers are on their way to it (`WakeUps`).
- **`DeliveryCoordinatorProofs`**: `IndexFollowsChain` rests on `NothingForgotten`: the last change of
  each position is carried by a log, a read in flight or the replay, or has been applied,
  or is marked: as stale or lost, when an older fact was applied over it or a read, a watcher or a chunk of the replay lost it (`spoiled`), or as out of
  reach, when the position's expiry is older than the window this start replays (`beyond`). The property names the two. It is inductive together with `FactsTrue` (what is
  carried was true at its version), `SeenIsPast` and `ReplayInOrder`. `BatchesAreDisjoint`: the
  batches, the chain and the in-flight set describe the same partition. `OnlyRevertsLose`:
  whatever a sweep took has matured, and what has matured is not reopened, so a
  position that leaves the sweeps open was in a reverted transaction. Any
  number of accounts, expiries, sweeps, logs and faults; traders and expiries are finite sets.
- **`MarginedAccountProofs`**: `LegsBoundStress` (the worse of two legs bounds every net
  delta between them), `FillsNeverRaiseStress` and `ImCoversMm`, from monotonicity of
  scaled products and quotients, roundings included. `ImCoversMm` takes as a
  hypothesis that per-market losses cover the net loss; `ImIsAtLeastMm` discharges it for
  every reachable state, by sums over the markets. `FillsAreReserved`: a fill changes the report of one market;
  what the order's side no longer reserves, in stress and in fill loss, is at least what the position
  gains in loss and the balance loses, the remainder of the division that closes
  a part of an entry value included. `OnlyMarketLiquidates` follows for fills of an account at its initial requirement on a side that does
  not net; trades, orders and withdrawals are checked against the initial requirement, which covers the
  maintenance one; and a cancel does not raise the maintenance requirement (`CancelStep`), unless the order's gain hides
  the loss of another (`HidesALoss`), which is the one act of the owner that may make the account liquidatable.
- **`PointsProgramProofs`**: `PointsInv` strengthens `ShareIsPaidOnce` with "nobody is
  paid before redemption is enabled" and "enabled only when finalized": without
  these a mint after a swap would make the row wrong. `SupplyIsHeld`: the supply is the sum of the
  balances, hence what is still owed, a sum of rounded shares, fits the pool
  (`OnlyRecoveryLeavesShort`). `NearerEarnsMore` is the monotonicity of the taper, which also shows
  that its subtraction cannot underflow.
- **`LiquidationPlanProofs`, the solver**: `KeeperAgrees`. The keeper sums the perpetual and the legs
  in one list where the engine sums each venue and then the venues; it divides a stress once where the
  engine divides twice, which is the same when a shock is a multiple of the quantity unit (`WholeShocks`, a
  hypothesis of the theorem: a shock in whole percent is); and it has the perpetual's profit from a truncated
  entry price, which is off by at most |q|/Unit + 2. The clamps and the larger of two legs pass
  a difference on without enlarging it.
- **`LiquidationPlanProofs`, the plan**: `PlanInv` (`PlanConsistent`) says that the account stays one that the
  venues can book, through every close, fill and cancellation; that everything a plan remembers or sends has its type, for
  which the bisections stay inside the interval they start with and the ranked unit closes name
  expiries that are held; that, while the market has not moved, a liquidatable account has no order at
  the venues the plan has been to, and none at all once positions are closed; and that venues
  read with a position are ranked. For `NoFalseBadDebt` the invariant counts what happened after a venue was read: as long as nothing is ranked, a venue
  that has been read has a position only if an order was filled there since (`RanksExposed`, `NoneExposed`), for any number of moves of
  the market. Funding, deposits and prices change no position, and closes are sent only with something ranked.
- **`LiquidationPlanProofs`, the thresholds**: `ThresholdsNeverSkip`. The solver looks at a few kinks of
  the price line and bisects between two neighbours whose surplus has different signs. What makes this
  complete: between kinks everything the requirement is made of is a straight line of the price before
  the divisions, and the worse of two legs bends upward, so the surplus has one hump. Divisions
  are carried as an error: `Under` says that a number lies below a line through two others up to a
  given error, and each lemma adds what its division costs. The bisection keeps a sign change in its interval
  and ends on two neighbours; the greatest bad bound below spot and the least above it are then
  the brackets. A hump that starts above zero on one side of the interval and ends above it on the other
  is at most `Rounding` below it in between.
- **`LiquidationPlanProofs`, the close**: `DeepestCloseSent`. Along the quantity of a close its cost (the
  stress of the rest and the loss that is left, less what is realized) bends upward up to one unit
  (`SurplusBetweenCloses`), so both ends of a range that is kept answer for what lies between them. The
  other way round, that no good close hides in an interval both of whose ends are bad, needs more:
  between two kinks neither the worse leg changes (`LeadKept`) nor the profit its sign (`ProfitKept`),
  so the surplus is one line (`NoSurplusBetween`). `RangeMeetsGoal` and `RangeCovers` say
  what a bisected range has and that it leaves out nothing. Hypothesis: `LIFT > 1`, as the six decimals of
  the token give (10^12). With `LIFT` = 1 the kink halfway between the orders of the two sides may fall
  between two quantities.

Only model-checked:

- every liveness property (the prover has no rule for fairness and `ENABLED`);
- of `LiquidationPlan`: `QuietPlanFinishes` and `PartialCloseRestores`. Both rest on what a sized close does to the
  engine's requirement, and for futures on the order in which unit closes are ranked.
  `QuietPlanFinishes` is not a theorem for every value of the constants: it bounds neither the number
  of iterations nor what their roundings add up to, so with a small cap and a large book a plan may stall.
  The bound of `PartialCloseRestores` is not the engine's alone: futures are sized in one
  division and settled contract by contract, and each contract may cost a unit (`SettledApart`).

## 5. Not modelled

- Venues, options engine, ERC-20 tokens, the vesting escrow, graph-node, nodes and
  oracles: external, present only as the code here uses them.
- Of the engine: the market registry, the setting of its dependencies, the oracle's
  staleness (a revert). Contract upgrades other than `initializeV2`.
- Of the vault indexer: history rows, categories, counters and mirrored settings. The three
  flow totals are one number, their balance. Of the points indexer: per-event rows.
- Keeper: discovery of accounts, the index of thresholds and its rebuilds, alerts, the
  backstop unwinder, the unsticker, price feeds, HTTP and start-up. Of delivery: dry
  runs, the coordinator's own watchers and backfill (unused with an index, which
  `index.ts` always gives), participants, the pruning of empty expiries.
- Market maker: the roll of expiries, collateral top-ups, the gas throttle,
  `/stop` and shutdown, the single-market runner, and the pricing policy (mids,
  skew, sizes, budgets), whose results enter as quotes and as a breach.
- The monitor (stateless), scripts, configuration and deployment.

The mapped lines are a small share of all lines: about 7,500 lines of the source tree are
generated ABIs, and much of the rest is configuration, HTTP, metrics, deployment and
numeric policy without state. Of the parts with state and concurrency, what is not
mapped is listed above.

## 6. Plan

Done: `CollateralVault`, `InsuredPool` and the refinement between them; `VaultMarket`;
`VaultIndexer`; `NonceManager`; `LiquidationExecutor`; `FuturesExpiryIndex` and
`DeliveryCoordinator`; `MarginEngine`, `MarginedAccount`, `MarginSolver` and
`LiquidationPlan`; `OrderDiff` and `PortfolioRunner`; `PointsProgram`; with proofs for
each of them.

What would come next, most important first:

1. The predictive index (`keeper/src/predict`): rebuilds, refreshes and crossings as a
   component of its own in front of `LiquidationExecutor`. Property: a crossed
   threshold is acted on, or a rebuild that replaces it is due.
2. Shutdown and `/stop` of the market maker, composed with `PortfolioRunner` and
   `NonceManager`. Property: nothing rests when the process has ended.
3. The roll of expiries and `resolveMarkets`.
4. The unsticker of the keeper against a pool, on the pattern of `NonceManager`.
5. The backstop unwinder and the notifier.
6. Proofs: `PartialCloseRestores`, from `DeepestCloseSent` for the perpetual and from the
   ranking of unit closes for futures.

------------------------------ MODULE VaultIndexer ------------------------------
(***************************************************************************)
(* The vault subgraph (indexer/src/vault.ts) rebuilding the vault's state  *)
(* from its logs.  A borrow has no event of its own: the indexer tells it  *)
(* from a deposit by the Deposited log in front of the deposit's mint, and *)
(* a repayment from a withdrawal by the debt it has counted so far.        *)
(*                                                                         *)
(* The chain fills a block with the logs of vault calls and the indexer    *)
(* handles the whole block, log by log, and stores the result.  Handlers   *)
(* are a function of the logs, so lagging further behind adds no           *)
(* behaviour.  A contract read made by a handler answers as of the end of  *)
(* the block.                                                              *)
(***************************************************************************)
EXTENDS CollateralVault, SequencesExt

CONSTANTS
    ZERO,              \* address(0), the other side of a mint or a burn
    MaxTxs,            \* bound on the vault calls of one block
    UpgradeAlone       \* the v1.2.0 upgrade shares no block with a fund call

ASSUME NobodyAtZero == ZERO \notin Account

VARIABLES
    block,             \* for each call of the next block, its logs
    idx                \* the subgraph's entities

indexVars == <<vars, block, idx>>

NoDeposit == [user |-> ZERO, amount |-> 0]

\* flow is totalDeposited - totalWithdrawn + netInternalIn, three totals that
\* only grow and that no handler reads.  The fund's is left out: it also lacks
\* what _update burned, so it explains nothing and only grows.
IndexInit ==
    /\ Init
    /\ block = <<>>
    /\ idx = [balance |-> [a \in Account |-> 0],
              flow |-> [a \in Account \ {FUND} |-> 0],
              totalSupply |-> 0, insuranceFundBalance |-> 0,
              insuranceDebt |-> 0, traderBadDebtTotal |-> 0,
              insuranceCapital |-> 0, uncoveredLoss |-> 0, timingDebt |-> 0,
              halted |-> FALSE, pendingDeposit |-> NoDeposit]

--------------------------------------------------------------------------------
(* The logs of each vault call, in the order the contract emits them.      *)

Log(event, user, amount) == [event |-> event, user |-> user, amount |-> amount]

TransferLog(from, to, amount) ==
    [event |-> "Transfer", from |-> from, to |-> to, amount |-> amount]

RepayLog(to, amount) ==
    IF Repaid(to, amount) > 0
    THEN <<TransferLog(FUND, ZERO, Repaid(to, amount))>>
    ELSE <<>>

TransferLogs(from, to, amount) ==
    <<TransferLog(from, to, amount)>> \o RepayLog(to, amount)

DepositLogs(account, amount) ==
    <<Log("Deposited", account, amount), TransferLog(ZERO, account, amount)>>
      \o RepayLog(account, amount)

WithdrawLogs(account, amount) ==
    <<TransferLog(account, ZERO, amount), Log("Withdrawn", account, amount)>>

LatchLog == IF halted' /\ ~halted THEN <<Log("VaultHalted", ZERO, 0)>> ELSE <<>>

SettleLogs(from, to, amount) ==
    LET paid == Smaller(balance[from], amount)
        moved == IF paid > 0 THEN TransferLogs(from, to, paid) ELSE <<>>
        rest == IF from = FUND THEN TransferLog(ZERO, to, amount - paid)
                ELSE [event |-> "BadDebt", user |-> from, receiver |-> to,
                      amount |-> amount - paid]
    IN  moved \o (IF paid < amount THEN <<rest>> ELSE <<>>) \o LatchLog

Has(txs, events) ==
    \E i \in DOMAIN txs : \E j \in DOMAIN txs[i] : txs[i][j].event \in events

FundLogs == {"InsuranceFundDeposited", "InsuranceFundWithdrawn"}

Emit(logs) ==
    /\ block' = IF logs = <<>> THEN block ELSE Append(block, logs)
    /\ Len(block') <= MaxTxs
    /\ UpgradeAlone => ~(Has(block', {"Initialized"}) /\ Has(block', FundLogs))
    /\ UNCHANGED idx

VaultEmits ==
    \/ \E a \in Account, n \in Amount :
          \/ deposit(a, n) /\ Emit(DepositLogs(a, n))
          \/ withdraw(a, n) /\ Emit(WithdrawLogs(a, n))
    \/ \E from, to \in Account, n \in Amount :
          \/ internalTransfer(from, to, n) /\ Emit(TransferLogs(from, to, n))
          \/ VenueSettles(from, to, n) /\ Emit(SettleLogs(from, to, n))
    \/ \E n \in Amount :
          \/ /\ depositInsuranceFund(n)
             /\ Emit(DepositLogs(FUND, n)
                       \o <<Log("InsuranceFundDeposited", FUND, n)>>)
          \/ /\ withdrawInsuranceFund(n)
             /\ Emit(WithdrawLogs(FUND, n)
                       \o <<Log("InsuranceFundWithdrawn", FUND, n)>>)
          \/ /\ withdrawBackstop(n)
             /\ Emit(WithdrawLogs(BACKSTOP, n))
    \/ \E c \in Venue, b \in BOOLEAN : setAuthorizedCaller(c, b) /\ Emit(<<>>)
    \/ \E e \in Engine \cup {NoEngine} : setMarginEngine(e) /\ Emit(LatchLog)
    \/ \E c \in DebtCap : setInsuranceDebtCap(c) /\ Emit(<<>>)
    \/ halt /\ Emit(LatchLog)
    \/ resume /\ Emit(<<Log("VaultResumed", ZERO, 0)>>)
    \/ initializeV2 /\ Emit(<<Log("Initialized", ZERO, 0)>>)

--------------------------------------------------------------------------------
(* The handlers: each gives the entities after one log.                    *)

recomputeDebtSplit(x) ==
    LET uncovered == IF x.traderBadDebtTotal > x.insuranceCapital
                     THEN x.traderBadDebtTotal - x.insuranceCapital
                     ELSE 0
    IN  [x EXCEPT !.uncoveredLoss = uncovered,
                  !.timingDebt = IF x.insuranceDebt > uncovered
                                 THEN x.insuranceDebt - uncovered
                                 ELSE 0]

\* The two addresses of a transfer, as changes to a balance.
Delta(e, account) ==
    (IF e.to = account THEN e.amount ELSE 0)
      - (IF e.from = account THEN e.amount ELSE 0)

\* The balances of VaultUser and of Vault.
TransferBalances(x, e) ==
    [x EXCEPT !.balance = [a \in Account |-> @[a] + Delta(e, a)],
              !.totalSupply = @ - Delta(e, ZERO),
              !.insuranceFundBalance = @ + Delta(e, FUND)]

bumpCategoryNet(x, e) ==
    [x EXCEPT !.flow = [a \in DOMAIN @ |-> @[a] + Delta(e, a)]]

\* Variant: the borrow is not routed into the recipient's flows.
noteBorrowUnrouted(x, e) ==
    recomputeDebtSplit([x EXCEPT !.insuranceDebt = @ + e.amount])

noteBorrow(x, e) ==
    recomputeDebtSplit(
        bumpCategoryNet([x EXCEPT !.insuranceDebt = @ + e.amount], e))

noteRepay(x, e) ==
    IF x.insuranceDebt = 0 \/ e.amount > x.insuranceDebt
    THEN x
    ELSE recomputeDebtSplit([x EXCEPT !.insuranceDebt = @ - e.amount])

\* The mint of a deposit is the log after the mark, in the same transaction.
MarkedDeposit(x, e) == x.pendingDeposit = [user |-> e.to, amount |-> e.amount]

consumePendingDeposit(x) == [x EXCEPT !.pendingDeposit = NoDeposit]

handleTransfer(x, e) ==
    LET moved == TransferBalances(x, e)
    IN  CASE e.from = ZERO /\ MarkedDeposit(x, e) -> consumePendingDeposit(moved)
          [] e.from = ZERO /\ ~MarkedDeposit(x, e) /\ e.to # FUND ->
                noteBorrow(moved, e)
          [] e.from = FUND /\ e.to = ZERO -> noteRepay(moved, e)
          [] e.from # ZERO /\ e.to # ZERO -> bumpCategoryNet(moved, e)
          [] OTHER -> moved

Flowed(flow, user, change) ==
    [a \in DOMAIN flow |-> IF a = user THEN flow[a] + change ELSE flow[a]]

handleDeposited(x, e) ==
    [x EXCEPT !.flow = Flowed(@, e.user, e.amount),
              !.pendingDeposit = [user |-> e.user, amount |-> e.amount]]

handleWithdrawn(x, e) == [x EXCEPT !.flow = Flowed(@, e.user, -e.amount)]

handleInsuranceFundDeposited(x, e) ==
    recomputeDebtSplit([x EXCEPT !.insuranceCapital = @ + e.amount])

handleInsuranceFundWithdrawn(x, e) ==
    recomputeDebtSplit([x EXCEPT !.insuranceCapital = @ - e.amount])

\* Variant: the stored split is left as it was.
handleBadDebtStale(x, e) ==
    IF e.receiver = FUND
    THEN [x EXCEPT !.traderBadDebtTotal = @ + e.amount]
    ELSE x

handleBadDebt(x, e) ==
    IF e.receiver = FUND
    THEN recomputeDebtSplit([x EXCEPT !.traderBadDebtTotal = @ + e.amount])
    ELSE x

\* try_insuranceCapital, answered with the state at the end of the block.
handleInitialized(x, capital) ==
    recomputeDebtSplit([x EXCEPT !.insuranceCapital = capital])

handleVaultHalted(x) == [x EXCEPT !.halted = TRUE]

handleVaultResumed(x) == [x EXCEPT !.halted = FALSE]

Handled(x, e, capital) ==
    CASE e.event = "Transfer" -> handleTransfer(x, e)
      [] e.event = "Deposited" -> handleDeposited(x, e)
      [] e.event = "Withdrawn" -> handleWithdrawn(x, e)
      [] e.event = "InsuranceFundDeposited" -> handleInsuranceFundDeposited(x, e)
      [] e.event = "InsuranceFundWithdrawn" -> handleInsuranceFundWithdrawn(x, e)
      [] e.event = "BadDebt" -> handleBadDebt(x, e)
      [] e.event = "Initialized" -> handleInitialized(x, capital)
      [] e.event = "VaultHalted" -> handleVaultHalted(x)
      [] e.event = "VaultResumed" -> handleVaultResumed(x)

\* The logs of a call and the calls of a block, in their order.
HandledCall(x, logs, capital) ==
    FoldLeft(LAMBDA y, e : Handled(y, e, capital), x, logs)

HandledBlock(x, txs, capital) ==
    FoldLeft(LAMBDA y, logs : HandledCall(y, logs, capital), x, txs)

\* graph-node stores the entities of a block at once.
IndexBlock ==
    /\ block # <<>>
    /\ idx' = HandledBlock(idx, block, insuranceCapital)
    /\ block' = <<>>
    /\ UNCHANGED vars

IndexNext ==
    \/ VaultEmits /\ WithinBounds'
    \/ IndexBlock

IndexSpec == IndexInit /\ [][IndexNext]_indexVars

--------------------------------------------------------------------------------

CaughtUp == block = <<>>

\* The subgraph's claim to be a lossless ledger: caught up, it holds what the
\* contract holds, although borrows and repayments are only inferred from the
\* order of plain mints and burns, and the stored split, refreshed handler by
\* handler from capital, debt and trader bad debt, is what two views compute.
IndexedStateMatches ==
    CaughtUp =>
        /\ idx.balance = balance
        /\ idx.totalSupply = totalSupply
        /\ idx.insuranceFundBalance = balance[FUND]
        /\ idx.insuranceDebt = insuranceDebt
        /\ idx.traderBadDebtTotal = traderBadDebtTotal
        /\ idx.halted = halted
        /\ idx.pendingDeposit = NoDeposit
        /\ idx.uncoveredLoss = uncoveredLoss
        /\ idx.timingDebt = timingDebt

\* A user's history explains the balance: deposits less withdrawals plus the
\* signed net of internal transfers, borrows paid to the user included.
FlowsExplainBalances ==
    CaughtUp =>
        \A a \in DOMAIN idx.flow : idx.flow[a] = idx.balance[a]
================================================================================

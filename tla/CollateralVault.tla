---------------------------- MODULE CollateralVault ----------------------------
(***************************************************************************)
(* The shared collateral ledger of the exchange                            *)
(* (contracts/contracts/CollateralVault.sol).  Receipt tokens stand for    *)
(* USDC held by the vault.  One account, the insurance fund, is the        *)
(* counterparty of every settlement: a loser pays it, it pays a winner,    *)
(* and when it is short the vault mints the difference and books it as     *)
(* insuranceDebt.                                                          *)
(*                                                                         *)
(* One action stands for one external call.  Calls are atomic: the vault   *)
(* calls only the USDC token and the margin engine's views, neither of     *)
(* which calls back.  A call that reverts is no step.                      *)
(***************************************************************************)
EXTENDS Integers, FiniteSets, Functions

CONSTANTS
    Trader,         \* addresses that trade
    Venue,          \* addresses that can be authorised: futures, perps
    FUND,           \* INSURANCE_FUND_ADDR, no private key
    BACKSTOP,       \* BACKSTOP_ADDR, no private key
    Amount,         \* amounts a call may name
    DebtCap,        \* ceilings the owner may configure
    Requirement,    \* initial margins the engine may answer
    Engine,         \* margin engine addresses the owner may propose
    PinnedEngine,   \* those with code that aggregate this vault
    NoEngine,       \* address(0)
    UnwindParam     \* backstop parameters the owner may propose, in bps

CONSTANTS           \* bounds of the exploration
    MaxCollateral, MaxSupply, MaxBadDebt, MaxCapital

Account == Trader \cup Venue \cup {FUND, BACKSTOP}

ASSUME ReservedAccounts ==
    /\ FUND # BACKSTOP
    /\ {FUND, BACKSTOP} \cap (Trader \cup Venue) = {}

ASSUME FiniteAddresses == IsFiniteSet(Trader) /\ IsFiniteSet(Venue)

ASSUME Quantities ==
    /\ Amount \subseteq Nat
    /\ DebtCap \subseteq Nat
    /\ Requirement \subseteq Nat
    /\ UnwindParam \subseteq Nat

ASSUME Engines == PinnedEngine \subseteq Engine /\ NoEngine \notin Engine

VARIABLES
    balance,            \* receipt tokens of each account
    totalSupply,
    insuranceDebt,
    collateral,         \* USDC the vault holds
    traderBadDebtTotal,
    insuranceCapital,
    halted,
    insuranceDebtCap,
    marginEngine,
    authorizedCallers,
    unwindParams,       \* backstopUnwindBandBps and backstopUnwindFeeBps
    version,            \* the initialiser that ran last
    requiredIM          \* what the engine answers for each account

ledger == <<balance, totalSupply, insuranceDebt>>
losses == <<traderBadDebtTotal, insuranceCapital>>
config == <<insuranceDebtCap, marginEngine, authorizedCallers, unwindParams,
            version>>
vars == <<ledger, collateral, losses, halted, config, requiredIM>>

MAX_BACKSTOP_PARAM_BPS == 2500

Init ==
    /\ balance = [a \in Account |-> 0]
    /\ totalSupply = 0
    /\ insuranceDebt = 0
    /\ collateral = 0
    /\ traderBadDebtTotal = 0
    /\ insuranceCapital = 0
    /\ halted = FALSE
    /\ insuranceDebtCap = 0
    /\ marginEngine = NoEngine
    /\ authorizedCallers = {}
    /\ unwindParams = [band |-> 0, fee |-> 0]
    /\ version = 1
    /\ requiredIM = [a \in Account |-> 0]

--------------------------------------------------------------------------------
(* The receipt token.  Every movement goes through _update, which burns    *)
(* what reaches the fund while it is in debt.                              *)

Smaller(m, n) == IF m < n THEN m ELSE n

\* Variant: a credit to the fund leaves the debt alone.
RepaidNever(to, amount) == 0

\* What _update burns again when `amount` is credited to `to`.
Repaid(to, amount) == IF to = FUND THEN Smaller(amount, insuranceDebt) ELSE 0

\* Variant: the repayment leaves the supply but not the fund's balance.
CreditGross(bal, to, amount) == [bal EXCEPT ![to] = @ + amount]

Credit(bal, to, amount) ==
    [bal EXCEPT ![to] = @ + amount - Repaid(to, amount)]

Debit(bal, from, amount) == [bal EXCEPT ![from] = @ - amount]

Transfer(from, to, amount) ==
    /\ balance[from] >= amount
    /\ balance' = Credit(Debit(balance, from, amount), to, amount)
    /\ totalSupply' = totalSupply - Repaid(to, amount)
    /\ insuranceDebt' = insuranceDebt - Repaid(to, amount)

Mint(to, amount) ==
    /\ balance' = Credit(balance, to, amount)
    /\ totalSupply' = totalSupply + amount - Repaid(to, amount)
    /\ insuranceDebt' = insuranceDebt - Repaid(to, amount)

Burn(from, amount) ==
    /\ balance[from] >= amount
    /\ balance' = Debit(balance, from, amount)
    /\ totalSupply' = totalSupply - amount
    /\ UNCHANGED insuranceDebt

--------------------------------------------------------------------------------
(* Views.                                                                  *)

effectiveInsuranceDebtCap ==
    IF marginEngine = NoEngine THEN 0 ELSE insuranceDebtCap

uncoveredLoss ==
    IF traderBadDebtTotal > insuranceCapital
    THEN traderBadDebtTotal - insuranceCapital
    ELSE 0

timingDebt ==
    IF insuranceDebt > uncoveredLoss THEN insuranceDebt - uncoveredLoss ELSE 0

\* _checkMargin, on the balance left after the movement.
CheckMargin(account) ==
    marginEngine # NoEngine => balance'[account] >= requiredIM[account]

--------------------------------------------------------------------------------
(* Deposits and withdrawals.                                               *)

DepositFor(account, amount) ==
    /\ collateral' = collateral + amount
    /\ Mint(account, amount)

\* Variant: the halt is not consulted.
WithdrawToHalted(account, amount) ==
    /\ amount > 0
    /\ Burn(account, amount)
    /\ CheckMargin(account)
    /\ collateral >= amount
    /\ collateral' = collateral - amount

\* The recipient is outside the ledger.
WithdrawTo(account, amount) ==
    /\ ~halted
    /\ amount > 0
    /\ Burn(account, amount)
    /\ CheckMargin(account)
    /\ collateral >= amount
    /\ collateral' = collateral - amount

\* deposit, depositForPermit and depositFor: anybody, to any account.
deposit(account, amount) ==
    /\ DepositFor(account, amount)
    /\ UNCHANGED <<losses, halted, config, requiredIM>>

\* withdraw by a trader, withdrawTo by an authorised venue.
withdraw(account, amount) ==
    /\ account \in Trader \cup authorizedCallers
    /\ WithdrawTo(account, amount)
    /\ UNCHANGED <<losses, halted, config, requiredIM>>

depositInsuranceFund(amount) ==
    /\ insuranceCapital' = insuranceCapital + amount
    /\ DepositFor(FUND, amount)
    /\ UNCHANGED <<traderBadDebtTotal, halted, config, requiredIM>>

withdrawInsuranceFund(amount) ==
    /\ insuranceCapital' = insuranceCapital - amount
    /\ WithdrawTo(FUND, amount)
    /\ UNCHANGED <<traderBadDebtTotal, halted, config, requiredIM>>

withdrawBackstop(amount) ==
    /\ WithdrawTo(BACKSTOP, amount)
    /\ UNCHANGED <<losses, halted, config, requiredIM>>

--------------------------------------------------------------------------------
(* Movements an authorised venue asks for.                                 *)

internalTransfer(from, to, amount) ==
    /\ authorizedCallers # {}
    /\ amount > 0
    /\ Transfer(from, to, amount)
    /\ UNCHANGED <<collateral, losses, halted, config, requiredIM>>

internalTransferWithMarginCheck(from, to, amount) ==
    /\ authorizedCallers # {}
    /\ amount > 0
    /\ Transfer(from, to, amount)
    /\ CheckMargin(from)
    /\ UNCHANGED <<collateral, losses, halted, config, requiredIM>>

\* Variant: the whole amount is booked as bad debt, what was paid included.
SettleFromPayerGross(from, to, amount) ==
    LET pay == Smaller(balance[from], amount)
    IN  /\ from # FUND
        /\ Transfer(from, to, pay)
        /\ traderBadDebtTotal' = IF to = FUND /\ pay < amount
                                 THEN traderBadDebtTotal + amount
                                 ELSE traderBadDebtTotal
        /\ UNCHANGED halted

\* Variant: a shortfall owed to the fund is not recorded.
SettleFromPayerForgiving(from, to, amount) ==
    /\ from # FUND
    /\ Transfer(from, to, Smaller(balance[from], amount))
    /\ UNCHANGED <<traderBadDebtTotal, halted>>

\* A trader, a venue or the backstop pays what it has; the rest is bad debt,
\* a hole in the pool only when it was owed to the fund.
SettleFromPayer(from, to, amount) ==
    LET pay == Smaller(balance[from], amount)
    IN  /\ from # FUND
        /\ Transfer(from, to, pay)
        /\ traderBadDebtTotal' = IF to = FUND
                                 THEN traderBadDebtTotal + (amount - pay)
                                 ELSE traderBadDebtTotal
        /\ UNCHANGED halted

SettleFromCoveredFund(to, amount) ==
    /\ balance[FUND] >= amount
    /\ Transfer(FUND, to, amount)
    /\ UNCHANGED <<traderBadDebtTotal, halted>>

\* Variant: the shortfall is minted and not booked.
BorrowUnbooked(to, amount) ==
    /\ balance[FUND] < amount
    /\ balance' = Credit(Debit(balance, FUND, balance[FUND]), to, amount)
    /\ totalSupply' = totalSupply + (amount - balance[FUND])
    /\ UNCHANGED <<insuranceDebt, halted, traderBadDebtTotal>>

\* The fund pays its balance and the rest is minted as debt.  Both are credits:
\* to the fund itself they repay what was open before, but not the new debt.
\* Crossing the effective cap latches the halt after the payout.
Borrow(to, amount) ==
    LET shortfall == amount - balance[FUND]
    IN  /\ balance[FUND] < amount
        /\ balance' = Credit(Debit(balance, FUND, balance[FUND]), to, amount)
        /\ totalSupply' = totalSupply + shortfall - Repaid(to, amount)
        /\ insuranceDebt' = insuranceDebt + shortfall - Repaid(to, amount)
        /\ halted' = (halted \/ insuranceDebt' > effectiveInsuranceDebtCap)
        /\ UNCHANGED traderBadDebtTotal

SettleTransfer(from, to, amount) ==
    /\ authorizedCallers # {}
    /\ amount > 0
    /\ \/ SettleFromPayer(from, to, amount)
       \/ from = FUND /\ SettleFromCoveredFund(to, amount)
       \/ from = FUND /\ Borrow(to, amount)
    /\ UNCHANGED <<collateral, insuranceCapital, config>>

settleTransfer(from, to, amount) ==
    SettleTransfer(from, to, amount) /\ UNCHANGED requiredIM

--------------------------------------------------------------------------------
(* The owner.                                                              *)

money == <<ledger, collateral, losses, requiredIM>>

setAuthorizedCaller(caller, authorized) ==
    /\ authorizedCallers' = IF authorized THEN authorizedCallers \cup {caller}
                                          ELSE authorizedCallers \ {caller}
    /\ UNCHANGED <<money, halted, insuranceDebtCap, marginEngine, unwindParams,
                   version>>

\* Variant: clearing the engine does not look at the debt.
setMarginEngineUnlatched(engine) ==
    /\ engine = NoEngine \/ engine \in PinnedEngine
    /\ marginEngine' = engine
    /\ UNCHANGED <<money, halted, insuranceDebtCap, authorizedCallers,
                   unwindParams, version>>

\* Unsetting the engine with debt outstanding latches the halt: the effective
\* cap is then 0.
setMarginEngine(engine) ==
    /\ engine = NoEngine \/ engine \in PinnedEngine
    /\ marginEngine' = engine
    /\ halted' = (halted \/ (engine = NoEngine /\ insuranceDebt > 0))
    /\ UNCHANGED <<money, insuranceDebtCap, authorizedCallers, unwindParams,
                   version>>

setInsuranceDebtCap(newCap) ==
    /\ insuranceDebtCap' = newCap
    /\ UNCHANGED <<money, halted, marginEngine, authorizedCallers, unwindParams,
                   version>>

halt ==
    /\ halted' = TRUE
    /\ UNCHANGED <<money, config>>

resume ==
    /\ insuranceDebt <= effectiveInsuranceDebtCap
    /\ halted
    /\ halted' = FALSE
    /\ UNCHANGED <<money, config>>

setBackstopParams(band, fee) ==
    /\ band <= MAX_BACKSTOP_PARAM_BPS
    /\ fee <= MAX_BACKSTOP_PARAM_BPS
    /\ unwindParams' = [band |-> band, fee |-> fee]
    /\ UNCHANGED <<money, halted, insuranceDebtCap, marginEngine,
                   authorizedCallers, version>>

\* The v1.2.0 upgrade: the fund balance already there counts as capital.
initializeV2 ==
    /\ version < 2
    /\ version' = 2
    /\ insuranceCapital' = balance[FUND]
    /\ UNCHANGED <<ledger, collateral, traderBadDebtTotal, halted,
                   insuranceDebtCap, marginEngine, authorizedCallers,
                   unwindParams, requiredIM>>

--------------------------------------------------------------------------------
(* The outside world.                                                      *)

\* The engine's answer moves with prices and with the venues' positions.  An
\* engine that reverts (a stale oracle) is one whose requirement no balance
\* meets.
MarginMoves(account, required) ==
    /\ requiredIM' = [requiredIM EXCEPT ![account] = required]
    /\ UNCHANGED <<ledger, collateral, losses, halted, config>>

\* USDC sent to the vault's address without a deposit.
Donate(amount) ==
    /\ collateral' = collateral + amount
    /\ UNCHANGED <<ledger, losses, halted, config, requiredIM>>

--------------------------------------------------------------------------------

WithinBounds ==
    /\ collateral <= MaxCollateral
    /\ totalSupply <= MaxSupply
    /\ traderBadDebtTotal <= MaxBadDebt
    /\ -MaxCapital <= insuranceCapital /\ insuranceCapital <= MaxCapital

UserCall ==
    \E a \in Account, amount \in Amount :
        deposit(a, amount) \/ withdraw(a, amount)

\* The fund is the counterparty of somebody else: no venue settles it against
\* itself.  The vault does not reject that call, which would leave the fund with
\* receipts and in debt.
VenueSettles(from, to, amount) ==
    /\ ~(from = FUND /\ to = FUND)
    /\ settleTransfer(from, to, amount)

VenueCall ==
    \E from, to \in Account, amount \in Amount :
        \/ internalTransfer(from, to, amount)
        \/ internalTransferWithMarginCheck(from, to, amount)
        \/ VenueSettles(from, to, amount)

FundCall ==
    \E amount \in Amount :
        \/ depositInsuranceFund(amount)
        \/ withdrawInsuranceFund(amount)
        \/ withdrawBackstop(amount)

Configure ==
    \/ \E c \in Venue, b \in BOOLEAN : setAuthorizedCaller(c, b)
    \/ \E e \in Engine \cup {NoEngine} : setMarginEngine(e)
    \/ \E c \in DebtCap : setInsuranceDebtCap(c)
    \/ \E b, f \in UnwindParam : setBackstopParams(b, f)
    \/ halt
    \/ resume

OwnerCall == Configure \/ initializeV2

Environment ==
    \/ \E a \in Trader \cup {BACKSTOP}, r \in Requirement : MarginMoves(a, r)
    \/ \E amount \in Amount : Donate(amount)

Next ==
    /\ UserCall \/ VenueCall \/ FundCall \/ OwnerCall \/ Environment
    /\ WithinBounds'

Spec == Init /\ [][Next]_vars

--------------------------------------------------------------------------------
(* Properties.                                                             *)

\* The storage types: none of the vault's uint256 goes below zero.
TypeOK ==
    /\ balance \in [Account -> Nat]
    /\ totalSupply \in Nat
    /\ insuranceDebt \in Nat
    /\ collateral \in Nat
    /\ traderBadDebtTotal \in Nat
    /\ insuranceCapital \in Int
    /\ halted \in BOOLEAN
    /\ insuranceDebtCap \in Nat
    /\ marginEngine \in PinnedEngine \cup {NoEngine}
    /\ authorizedCallers \subseteq Venue
    /\ unwindParams \in [band : 0..MAX_BACKSTOP_PARAM_BPS,
                         fee : 0..MAX_BACKSTOP_PARAM_BPS]
    /\ version \in {1, 2}
    /\ requiredIM \in [Account -> Nat]

\* Receipts are neither created nor lost by the ledger: the supply is the sum
\* of the balances whatever order transfers, borrows and the repayment burn of
\* _update come in.
SupplyIsSumOfBalances == totalSupply = SumFunction(balance)

\* The backing invariant: whatever receipts exist beyond the USDC in the vault
\* were minted by a borrow that is still booked (settleTransfer, _update and
\* the deposits and withdrawals around them).
Backing == collateral + insuranceDebt >= totalSupply

\* The fund never holds receipts while it is in debt: _update burns every
\* credit first, so withdrawInsuranceFund cannot take money that is owed.
FundEmptyWhileInDebt == insuranceDebt > 0 => balance[FUND] = 0

\* With no engine nothing locks the losers' collateral, so no debt may be open
\* with withdrawals enabled, in whatever order the engine is cleared, the debt
\* is taken, the cap is set and the halt is lifted.
NoUnguardedDebt == marginEngine = NoEngine /\ insuranceDebt > 0 => halted

\* Every call is a change that the pool of InsuredPool allows: USDC leaves only
\* against the receipts of one account that keeps its initial margin, and never
\* under a halt; debt is lent by an empty fund, past the effective cap it latches
\* the halt, and the halt lifts only at or under that cap, whatever the owner did
\* to the engine and to the cap in between.
Pool == INSTANCE InsuredPool
            WITH RESERVE <- FUND,
                 wealth <- balance, need <- requiredIM,
                 held <- collateral, shares <- totalSupply, debt <- insuranceDebt,
                 locked <- halted, guarded <- marginEngine # NoEngine,
                 cap <- insuranceDebtCap

ImplementsPool == Pool!Spec
================================================================================

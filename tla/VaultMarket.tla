------------------------------ MODULE VaultMarket ------------------------------
(***************************************************************************)
(* The vault together with the venues that settle through it.  A venue's   *)
(* trades and liquidation hand-offs conserve positions, so a move of the   *)
(* mark takes from some holders what it gives to others; profit and loss   *)
(* is then realised in parts, in any order, against the insurance fund     *)
(* (docs/protocol-liquidation-exposure.md, docs/insurance-debt.md).        *)
(*                                                                         *)
(* The venues are not in this repository: their actions are the calls the  *)
(* vault receives from them.                                               *)
(***************************************************************************)
EXTENDS CollateralVault

CONSTANTS MaxOpen     \* bound on one holder's unrealised profit or loss

\* Whoever can hold a position: liquidated ones go to the backstop.
Holder == Trader \cup {BACKSTOP}

VARIABLES
    open,             \* unrealised profit (> 0) or loss (< 0) of each holder
    gifts             \* history: deposits to the fund's account that the owner
                      \* did not make through depositInsuranceFund

marketVars == <<vars, open, gifts>>

\* What the fund will still pay out on balance.
unsettled == SumFunction(open)

MarketInit ==
    /\ Init
    /\ open = [h \in Holder |-> 0]
    /\ gifts = 0

--------------------------------------------------------------------------------

MarkMoves(winner, loser, amount) ==
    /\ winner # loser
    /\ amount > 0
    /\ open' = [open EXCEPT ![winner] = @ + amount, ![loser] = @ - amount]
    /\ UNCHANGED <<vars, gifts>>

\* A close, a reduction, a liquidation, an unwind or an expiry books part of
\* what the holder lost or won.
RealizeLoss(holder, amount) ==
    /\ amount <= -open[holder]
    /\ SettleTransfer(holder, FUND, amount)
    /\ open' = [open EXCEPT ![holder] = @ + amount]
    /\ UNCHANGED <<requiredIM, gifts>>

RealizeGain(holder, amount) ==
    /\ amount <= open[holder]
    /\ SettleTransfer(FUND, holder, amount)
    /\ open' = [open EXCEPT ![holder] = @ - amount]
    /\ UNCHANGED <<requiredIM, gifts>>

\* A trading fee: the venue, not the fund, is the receiver.
PayFee(holder, venue, amount) ==
    /\ settleTransfer(holder, venue, amount)
    /\ UNCHANGED <<open, gifts>>

\* depositFor takes any account: one to the fund's repays its debt, or stays in
\* it, and is no capital of the protocol.
Deposited(account, amount) ==
    /\ deposit(account, amount)
    /\ gifts' = IF account = FUND THEN gifts + amount ELSE gifts
    /\ UNCHANGED open

\* Everybody else's calls.  initializeV2 ran before the venues were wired.
OtherCall ==
    /\ \/ \E a \in Account, amount \in Amount : withdraw(a, amount)
       \/ FundCall
       \/ Configure
    /\ UNCHANGED <<open, gifts>>

WithinMarketBounds ==
    /\ WithinBounds
    /\ \A h \in Holder : -MaxOpen <= open[h] /\ open[h] <= MaxOpen

MarketNext ==
    /\ \/ \E h, g \in Holder, amount \in Amount : MarkMoves(h, g, amount)
       \/ \E h \in Holder, amount \in Amount :
             RealizeLoss(h, amount) \/ RealizeGain(h, amount)
       \/ \E h \in Holder, v \in Venue, amount \in Amount : PayFee(h, v, amount)
       \/ \E a \in Account, amount \in Amount : Deposited(a, amount)
       \/ OtherCall
    /\ WithinMarketBounds'

MarketSpec == MarketInit /\ [][MarketNext]_marketVars

--------------------------------------------------------------------------------

MarketTypeOK == open \in [Holder -> Int] /\ gifts \in Nat

\* The fund's net position is what its books explain, to the unit: the capital
\* put in and what was deposited to it, less the shortfalls recorded, plus what
\* it still owes on paper to winners, less what losers owe it.  A settlement
\* that lost a shortfall or counted one twice, a repayment that burned too much
\* or too little, or a capital entry that did not move with the money would
\* break it, in a state far from the mistake (settleTransfer, _update,
\* depositInsuranceFund, withdrawInsuranceFund).
BooksExplainFund ==
    balance[FUND] - insuranceDebt
        = insuranceCapital + gifts - traderBadDebtTotal + unsettled

\* "Timing debt is backed by losers who are still in the market"
\* (docs/insurance-debt.md): what is not uncovered loss will be paid by open
\* losing positions, so in a flat market the only debt is uncovered loss and
\* topping that up clears it.
TimingDebtIsBacked == timingDebt > 0 => timingDebt <= -unsettled
================================================================================

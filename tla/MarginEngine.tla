------------------------------ MODULE MarginEngine ------------------------------
(***************************************************************************)
(* What the portfolio margin engine answers for one account                *)
(* (contracts/contracts/PortfolioMarginEngine.sol): the initial and the    *)
(* maintenance requirement of a portfolio, from the risk views of the      *)
(* linear markets, the options' greeks, one spot price and the shocks.     *)
(*                                                                         *)
(* The engine is all views, so this module has operators and no state.     *)
(* Fixed-point scales are kept, at whatever size WAD and LIFT have.        *)
(***************************************************************************)
EXTENDS Integers, FiniteSetsExt, Functions

CONSTANTS
    WAD,            \* the scale of fractions and deltas inside the engine
    LIFT,           \* WAD over the scale of the collateral token
    Market          \* the registered linear markets

ASSUME Scales == WAD \in Nat \ {0} /\ LIFT \in Nat \ {0}

ASSUME Markets == IsFiniteSet(Market)

NonNegative(n) == IF n > 0 THEN n ELSE 0
Larger(m, n) == IF m > n THEN m ELSE n
Magnitude(n) == IF n < 0 THEN -n ELSE n

\* Solidity's signed division.
Quotient(n, d) == IF n < 0 THEN -((-n) \div d) ELSE n \div d

toWad(n) == n * LIFT
fromWad(n) == n \div LIFT

--------------------------------------------------------------------------------

SumOver(S, f(_)) == SumFunctionOnSet([x \in S |-> f(x)], S)

\* What a market reports of an account.
RiskView ==
    [netPositionDelta : Int, unrealizedPnl : Int, pendingFunding : Int,
     buyOrderDelta : Nat, sellOrderDelta : Nat,
     buyOrderFillLoss : Nat, sellOrderFillLoss : Nat]

RiskViews == [Market -> RiskView]

\* The risk views of all markets, summed.
LinearAggregate ==
    [netDelta : Int, buyOrderDelta : Nat, sellOrderDelta : Nat, fillLoss : Nat,
     unrealizedLossPerMarket : Nat, netUnrealizedPnl : Int, fundingOwed : Nat]

linearAggregate[view \in RiskViews] ==
    LET Total(f(_)) == SumOver(Market, LAMBDA m : f(view[m]))
    IN  [netDelta |-> Total(LAMBDA v : toWad(v.netPositionDelta)),
         buyOrderDelta |-> Total(LAMBDA v : toWad(v.buyOrderDelta)),
         sellOrderDelta |-> Total(LAMBDA v : toWad(v.sellOrderDelta)),
         fillLoss |-> Total(LAMBDA v : v.buyOrderFillLoss + v.sellOrderFillLoss),
         netUnrealizedPnl |-> Total(LAMBDA v : v.unrealizedPnl),
         unrealizedLossPerMarket |->
            Total(LAMBDA v : NonNegative(-v.unrealizedPnl)),
         fundingOwed |-> Total(LAMBDA v : NonNegative(v.pendingFunding))]

\* What the options engine reports of an account, and what the owner sets.
Options == [delta : Int, gamma : Int, vega : Int, reserved : Nat]

ShockSet == [imSpot : Nat, mmSpot : Nat, imVol : Nat, mmVol : Nat]

\* The shocks of the initial and of the maintenance requirement.
ShockOf(shocks, isIM) ==
    IF isIM THEN [spot |-> shocks.imSpot, vol |-> shocks.imVol]
            ELSE [spot |-> shocks.mmSpot, vol |-> shocks.mmVol]

\* Loss over (+-ds, +-dvol): the linear terms at their worst, the gamma term as
\* it is.
worstStressLoss(netDelta, options, shock, spotPrice) ==
    LET deltaS == (shock.spot * spotPrice) \div WAD
        gammaTerm == Quotient(Quotient(options.gamma * deltaS, WAD) * deltaS,
                              2 * WAD)
        deltaLoss == Magnitude(Quotient(netDelta * deltaS, WAD))
        vegaLoss == Magnitude(Quotient(options.vega * shock.vol, WAD))
    IN  NonNegative(deltaLoss + vegaLoss - gammaTerm)

\* Variant: the position is stressed, the resting orders are not.
worstFillLossPositionOnly(linear, options, shock, spotPrice) ==
    worstStressLoss(linear.netDelta + options.delta, options, shock, spotPrice)

\* Both fill legs, all bids or all asks, and the worse of the two.
worstFillLoss(linear, options, shock, spotPrice) ==
    LET netDelta == linear.netDelta + options.delta
    IN  Larger(worstStressLoss(netDelta + linear.buyOrderDelta, options, shock,
                               spotPrice),
               worstStressLoss(netDelta - linear.sellOrderDelta, options, shock,
                               spotPrice))

\* Variant: the two clamps are exchanged.
pnlTermSwapped(linear, isIM) ==
    IF isIM THEN NonNegative(-linear.netUnrealizedPnl)
            ELSE linear.unrealizedLossPerMarket

\* Losses market by market for the initial requirement, their net with the
\* gains for the maintenance requirement.
pnlTerm(linear, isIM) ==
    IF isIM THEN linear.unrealizedLossPerMarket
            ELSE NonNegative(-linear.netUnrealizedPnl)

marginFromInputs(linear, options, shocks, isIM, spotPrice) ==
    fromWad(worstFillLoss(linear, options, ShockOf(shocks, isIM), spotPrice))
      + linear.fillLoss + options.reserved + pnlTerm(linear, isIM)
      + linear.fundingOwed

--------------------------------------------------------------------------------
(* The gate of a trade: limits read before it and compared after it.       *)

FullMargin == [maxIm |-> 0, maxMmDeficit |-> 0]

reduceLimits(im, mm, balance) ==
    [maxIm |-> im,
     maxMmDeficit |-> IF balance < im THEN NonNegative(mm - balance) ELSE 0]

\* Variant: a reducing trade is not held to the maintenance requirement.
meetsTradeMarginImOnly(im, mm, balance, limits) ==
    balance >= im \/ im <= limits.maxIm

meetsTradeMargin(im, mm, balance, limits) ==
    \/ balance >= im
    \/ im <= limits.maxIm /\ mm <= balance + limits.maxMmDeficit
================================================================================
